--------------------------- MODULE MapTableProofs ---------------------------
(***************************************************************************)
(* Proofs about the hash table of src/src/map.c, for every capacity,      *)
(* every set of keys and every hash function: no key is stored twice and *)
(* every stored key stays reachable by its probe (NoDuplicateKeys and     *)
(* ProbeChainIntact), across insertion, tombstones and their reuse, and  *)
(* map_grow's rehash.                                                      *)
(***************************************************************************)
EXTENDS MapTable, FiniteSetTheorems, WellFoundedInduction, TLAPS

(***************************************************************************)
(* The invariants as properties of any entry array t of cap slots, so     *)
(* that they can be stated of the arrays map_grow builds.                 *)
(***************************************************************************)
Table(t, cap) == t \in [0..cap - 1 -> Slot]

(* The slots whose key is set: occupied ones and tombstones. *)
UsedIn(t) == {i \in DOMAIN t : t[i].key # NoKey}

(* An occupied slot has a key. *)
Keyed(t) == \A i \in DOMAIN t : t[i].occupied => t[i].key # NoKey

NoDup(t) == \A i, j \in OccupiedIn(t) : i # j => t[i].key # t[j].key

(* The home slot of key k, and the probe offset of slot i from it. *)
Home(k, cap) == hash_string(k) % cap
Offset(k, i, cap) == (i - Home(k, cap)) % cap

Chains(t, cap) ==
    \A i \in OccupiedIn(t) :
        \A d \in 0..Offset(t[i].key, i, cap) - 1 :
            t[(Home(t[i].key, cap) + d) % cap].key # NoKey

(* The tombstone counter never falls below the tombstones there are, so  *)
(* size + tombstones bounds the slots in use and the grow test of        *)
(* map_set leaves a never-used slot for map_find_entry to stop at.      *)
UsedBound == Cardinality(UsedIn(entries)) <= size + tombstones

(***************************************************************************)
(* The inductive invariant.  Keyed makes "never used" (key NULL) imply   *)
(* "not occupied", which map_find_entry's Unused test relies on;         *)
(* UsedBound makes the grow test leave a never-used slot, without which *)
(* the probe could run round the whole array.                            *)
(***************************************************************************)
IInv ==
    /\ TypeOK
    /\ Keyed(entries)
    /\ NoDup(entries)
    /\ Chains(entries, capacity)
    /\ UsedBound

-----------------------------------------------------------------------------
(***************************************************************************)
(* The least element: First(S) of a non-empty set of naturals is in S and *)
(* below every other element.  The naturals are well-founded under <.    *)
(***************************************************************************)
LEMMA LessRel ==
    ASSUME NEW x \in Nat, NEW y \in Nat
    PROVE  <<y, x>> \in OpToRel(<, Nat) <=> y < x
BY Zenon DEF OpToRel

LEMMA FirstMin ==
    ASSUME NEW S \in SUBSET Nat, S # {}
    PROVE  First(S) \in S /\ \A j \in S : First(S) <= j
<1>1. PICK x \in S : \A y \in S : ~(<<y, x>> \in OpToRel(<, Nat))
    BY NatLessThanWellFounded, WFMin
<1>2. \A y \in S : ~(y < x)
    BY <1>1, LessRel, Zenon
<1>3. \A y \in S : x <= y
    BY <1>2
<1>. QED
    BY <1>3 DEF First

(***************************************************************************)
(* Probing wraps around the array: offset d from home h is slot           *)
(* (h + d) % cap, and each slot has one offset.                           *)
(***************************************************************************)
LEMMA ProbeSlot ==
    ASSUME NEW cap \in Nat \ {0}, NEW h \in 0..cap - 1, NEW d \in 0..cap - 1
    PROVE  /\ (h + d) % cap \in 0..cap - 1
           /\ (((h + d) % cap) - h) % cap = d
OBVIOUS

LEMMA SlotProbe ==
    ASSUME NEW cap \in Nat \ {0}, NEW h \in 0..cap - 1, NEW i \in 0..cap - 1
    PROVE  /\ (i - h) % cap \in 0..cap - 1
           /\ (h + ((i - h) % cap)) % cap = i
OBVIOUS

LEMMA ProbeInjective ==
    ASSUME NEW cap \in Nat \ {0}, NEW h \in 0..cap - 1,
           NEW d1 \in 0..cap - 1, NEW d2 \in 0..cap - 1,
           (h + d1) % cap = (h + d2) % cap
    PROVE  d1 = d2
<1>1. (((h + d1) % cap) - h) % cap = d1 /\ (((h + d2) % cap) - h) % cap = d2
    BY ProbeSlot
<1>. QED
    BY <1>1

LEMMA HomeType ==
    ASSUME NEW cap \in Nat \ {0}, hashOf \in [Keys -> Nat], NEW k \in Keys
    PROVE  Home(k, cap) \in 0..cap - 1
BY DEF Home, hash_string

(* A slot's offset from a key's home is in 0..cap-1 and leads back to it. *)
LEMMA OffsetType ==
    ASSUME NEW cap \in Nat \ {0}, hashOf \in [Keys -> Nat], NEW k \in Keys,
           NEW i \in 0..cap - 1
    PROVE  /\ Offset(k, i, cap) \in 0..cap - 1
           /\ (Home(k, cap) + Offset(k, i, cap)) % cap = i
<1>1. PICK h \in 0..cap - 1 : h = Home(k, cap)
    BY HomeType
<1>2. (i - h) % cap \in 0..cap - 1 /\ (h + ((i - h) % cap)) % cap = i
    BY SlotProbe
<1>3. Offset(k, i, cap) = (i - h) % cap
    BY <1>1 DEF Offset
<1>. QED
    BY <1>1, <1>2, <1>3, Zenon

(* The slot at offset d of a key's probe is a slot of the table. *)
LEMMA ProbeType ==
    ASSUME NEW cap \in Nat \ {0}, hashOf \in [Keys -> Nat], NEW k \in Keys,
           NEW d \in 0..cap - 1
    PROVE  (Home(k, cap) + d) % cap \in 0..cap - 1
BY HomeType, ProbeSlot

-----------------------------------------------------------------------------
(***************************************************************************)
(* map_find_entry on key k in table t of cap slots, named part by part.   *)
(***************************************************************************)
At(t, cap, k, i) == t[(Home(k, cap) + i) % cap]
Unused(t, cap, k) == {i \in 0..cap - 1 : ~At(t, cap, k, i).occupied
                                          /\ At(t, cap, k, i).key = NoKey}
Stop(t, cap, k) == IF Unused(t, cap, k) = {} THEN cap ELSE First(Unused(t, cap, k))
Match(t, cap, k) == {i \in 0..Stop(t, cap, k) - 1 : At(t, cap, k, i).occupied
                                                    /\ At(t, cap, k, i).key = k}
Tomb(t, cap, k) == {i \in 0..Stop(t, cap, k) - 1 : ~At(t, cap, k, i).occupied
                                                   /\ At(t, cap, k, i).key # NoKey}

LEMMA MFEDef ==
    ASSUME NEW t, NEW cap, NEW k
    PROVE  MapFindEntry(t, cap, k) =
             IF Match(t, cap, k) # {} THEN (Home(k, cap) + First(Match(t, cap, k))) % cap
             ELSE IF Tomb(t, cap, k) # {} THEN (Home(k, cap) + First(Tomb(t, cap, k))) % cap
             ELSE IF Unused(t, cap, k) # {} THEN (Home(k, cap) + Stop(t, cap, k)) % cap
             ELSE NoSlot
BY DEF MapFindEntry, Home, At, Unused, Stop, Match, Tomb

(* The probe stops within the table: Stop is in 0..cap. *)
LEMMA StopRange ==
    ASSUME NEW t, NEW cap \in Nat \ {0}, NEW k
    PROVE  /\ Stop(t, cap, k) \in 0..cap
           /\ Unused(t, cap, k) # {} =>
                /\ Stop(t, cap, k) \in Unused(t, cap, k)
                /\ \A d \in 0..Stop(t, cap, k) - 1 : d \notin Unused(t, cap, k)
<1>1. CASE Unused(t, cap, k) = {}
    BY <1>1 DEF Stop
<1>2. CASE Unused(t, cap, k) # {}
    <2>1. Unused(t, cap, k) \in SUBSET Nat
        BY DEF Unused
    <2>2. First(Unused(t, cap, k)) \in Unused(t, cap, k)
          /\ \A j \in Unused(t, cap, k) : First(Unused(t, cap, k)) <= j
        BY <1>2, <2>1, FirstMin
    <2>3. Stop(t, cap, k) = First(Unused(t, cap, k))
        BY <1>2 DEF Stop
    <2>4. Stop(t, cap, k) \in 0..cap
        BY <2>2, <2>3 DEF Unused
    <2>5. \A d \in 0..Stop(t, cap, k) - 1 : d \notin Unused(t, cap, k)
        BY <2>1, <2>2, <2>3, <2>4
    <2>. QED
        BY <2>2, <2>3, <2>4, <2>5
<1>. QED
    BY <1>1, <1>2

(* Whatever the table holds, map_find_entry returns a slot or NULL. *)
LEMMA MFERange ==
    ASSUME NEW t, NEW cap \in Nat \ {0}, NEW k, hashOf \in [Keys -> Nat], k \in Keys
    PROVE  MapFindEntry(t, cap, k) \in (0..cap - 1) \cup {NoSlot}
<1>1. Home(k, cap) \in 0..cap - 1
    BY HomeType
<1>2. Stop(t, cap, k) \in 0..cap
    BY StopRange
<1>3. Match(t, cap, k) # {} => First(Match(t, cap, k)) \in Nat
    <2>. HAVE Match(t, cap, k) # {}
    <2>1. Match(t, cap, k) \in SUBSET Nat
        BY <1>2 DEF Match
    <2>. QED
        BY <2>1, FirstMin
<1>4. Tomb(t, cap, k) # {} => First(Tomb(t, cap, k)) \in Nat
    <2>. HAVE Tomb(t, cap, k) # {}
    <2>1. Tomb(t, cap, k) \in SUBSET Nat
        BY <1>2 DEF Tomb
    <2>. QED
        BY <2>1, FirstMin
<1>. QED
    BY <1>1, <1>2, <1>3, <1>4, MFEDef

(***************************************************************************)
(* A key held by an occupied slot is found there: the probe from its home *)
(* meets no never-used slot before it (Chains) and no other occupied     *)
(* slot with the key (NoDup).                                             *)
(***************************************************************************)
LEMMA MFEFound ==
    ASSUME NEW cap \in Nat \ {0}, NEW t, Table(t, cap), Keyed(t), NoDup(t),
           Chains(t, cap), hashOf \in [Keys -> Nat],
           NEW j \in 0..cap - 1, j \in OccupiedIn(t)
    PROVE  MapFindEntry(t, cap, t[j].key) = j
<1>1. t[j].occupied /\ t[j].key \in Keys
    BY DEF OccupiedIn, Table, Slot
<1>2. PICK k \in Keys : k = t[j].key
    BY <1>1
<1>3. PICK h \in 0..cap - 1 : h = Home(k, cap)
    BY HomeType
<1>4. PICK dist \in 0..cap - 1 : dist = Offset(k, j, cap) /\ (h + dist) % cap = j
    <2>1. (j - h) % cap \in 0..cap - 1 /\ (h + ((j - h) % cap)) % cap = j
        BY <1>1, <1>3, SlotProbe
    <2>2. (j - h) % cap = Offset(k, j, cap)
        BY <1>3 DEF Offset
    <2>3. Offset(k, j, cap) \in 0..cap - 1 /\ (h + Offset(k, j, cap)) % cap = j
        BY <2>1, <2>2
    <2>. QED
        BY <2>3
<1>5. \A d \in 0..cap - 1 : At(t, cap, k, d) = t[(h + d) % cap]
    BY <1>3 DEF At
<1>6. \A d \in 0..dist : d \notin Unused(t, cap, k)
    <2> TAKE d \in 0..dist
    <2>1. CASE d = dist
        BY <1>1, <1>4, <1>5, <2>1 DEF Unused
    <2>2. CASE d # dist
        <3>1. t[(Home(t[j].key, cap) + d) % cap].key # NoKey
            BY <2>2, <1>2, <1>4 DEF Chains
        <3>. QED
            BY <3>1, <1>2, <1>3, <1>5 DEF Unused
    <2>. QED
        BY <2>1, <2>2
<1>7. Stop(t, cap, k) \in dist + 1..cap
    <2>1. CASE Unused(t, cap, k) = {}
        BY <2>1 DEF Stop
    <2>2. CASE Unused(t, cap, k) # {}
        <3>1. Stop(t, cap, k) \in Unused(t, cap, k) /\ Stop(t, cap, k) \in 0..cap
            BY <2>2, StopRange
        <3>. QED
            BY <3>1, <1>6
    <2>. QED
        BY <2>1, <2>2
<1>8. dist \in Match(t, cap, k)
    <2>1. At(t, cap, k, dist) = t[j]
        BY <1>4, <1>5
    <2>2. dist \in 0..Stop(t, cap, k) - 1
        BY <1>4, <1>7
    <2>. QED
        BY <1>1, <1>2, <2>1, <2>2 DEF Match
<1>9. \A m \in Match(t, cap, k) : m = dist
    <2> TAKE m \in Match(t, cap, k)
    <2>1. m \in 0..cap - 1 /\ t[(h + m) % cap].occupied /\ t[(h + m) % cap].key = k
        BY <1>5, <1>7 DEF Match
    <2>2. (h + m) % cap \in 0..cap - 1
        BY <2>1, ProbeSlot
    <2>3. (h + m) % cap \in OccupiedIn(t)
        BY <2>1, <2>2, MapAssumption DEF OccupiedIn, Table
    <2>4. (h + m) % cap = j
        BY <1>2, <2>1, <2>3 DEF NoDup
    <2>. QED
        BY <1>4, <2>1, <2>4, ProbeInjective
<1>10. First(Match(t, cap, k)) = dist
    <2>1. Match(t, cap, k) \in SUBSET Nat
        BY <1>7 DEF Match
    <2>. QED
        BY <1>8, <1>9, <2>1, FirstMin
<1>. QED
    BY <1>2, <1>3, <1>4, <1>8, <1>10, MFEDef

(***************************************************************************)
(* A key held by no occupied slot, in a table with a never-used slot:     *)
(* map_find_entry returns a slot that is not occupied (the first          *)
(* tombstone of the probe, else the never-used slot that ends it), and   *)
(* no never-used slot lies on the probe before it.                       *)
(***************************************************************************)
(* Key k is held by no occupied slot of t. *)
Absent(t, k) == \A i \in OccupiedIn(t) : t[i].key # k

(* No never-used slot lies on k's probe before slot r. *)
ChainTo(t, cap, k, r) ==
    \A d \in 0..Offset(k, r, cap) - 1 : t[(Home(k, cap) + d) % cap].key # NoKey

LEMMA MFEFree ==
    ASSUME NEW cap \in Nat \ {0}, NEW t, Table(t, cap), Keyed(t),
           hashOf \in [Keys -> Nat], NEW k \in Keys, Absent(t, k),
           NEW u \in 0..cap - 1, u \notin UsedIn(t)
    PROVE  /\ MapFindEntry(t, cap, k) \in 0..cap - 1
           /\ MapFindEntry(t, cap, k) \notin OccupiedIn(t)
           /\ ChainTo(t, cap, k, MapFindEntry(t, cap, k))
<1>1. PICK h \in 0..cap - 1 : h = Home(k, cap)
    BY HomeType
<1>2. \A d \in 0..cap - 1 : /\ At(t, cap, k, d) = t[(h + d) % cap]
                            /\ (h + d) % cap \in 0..cap - 1
                            /\ (((h + d) % cap) - h) % cap = d
    BY <1>1, ProbeSlot DEF At
<1>3. \A i \in 0..cap - 1 : t[i].occupied => t[i].key # NoKey
    BY DEF Keyed, Table
<1>4. Stop(t, cap, k) \in 0..cap
    BY StopRange
<1>5. Match(t, cap, k) = {}
    <2> SUFFICES ASSUME NEW m \in Match(t, cap, k) PROVE FALSE
        OBVIOUS
    <2>1. m \in 0..cap - 1 /\ At(t, cap, k, m).occupied /\ At(t, cap, k, m).key = k
        BY <1>4 DEF Match
    <2>2. (h + m) % cap \in OccupiedIn(t)
        BY <1>2, <2>1, MapAssumption DEF OccupiedIn, Table
    <2>. QED
        BY <1>2, <2>1, <2>2 DEF Absent
<1>6. Unused(t, cap, k) # {}
    <2>1. PICK du \in 0..cap - 1 : (h + du) % cap = u
        <3>1. (u - h) % cap \in 0..cap - 1 /\ (h + ((u - h) % cap)) % cap = u
            BY SlotProbe
        <3>. WITNESS (u - h) % cap \in 0..cap - 1
        <3>. QED
            BY <3>1
    <2>2. At(t, cap, k, du) = t[u]
        BY <1>2, <2>1
    <2>3. ~t[u].occupied /\ t[u].key = NoKey
        BY <1>3 DEF UsedIn, Table
    <2>4. du \in Unused(t, cap, k)
        BY <2>1, <2>2, <2>3 DEF Unused
    <2>. QED
        BY <2>4
<1>7. Stop(t, cap, k) \in Unused(t, cap, k)
      /\ \A d \in 0..Stop(t, cap, k) - 1 : d \notin Unused(t, cap, k)
    BY <1>6, StopRange
<1>8. Stop(t, cap, k) \in 0..cap - 1 /\ ~At(t, cap, k, Stop(t, cap, k)).occupied
    BY <1>7 DEF Unused
<1>9. \A d \in 0..Stop(t, cap, k) - 1 : t[(h + d) % cap].key # NoKey
    <2> TAKE d \in 0..Stop(t, cap, k) - 1
    <2>1. d \in 0..cap - 1 /\ d \notin Unused(t, cap, k)
        BY <1>7, <1>8
    <2>2. At(t, cap, k, d).occupied \/ At(t, cap, k, d).key # NoKey
        BY <2>1 DEF Unused
    <2>. QED
        BY <1>2, <1>3, <2>1, <2>2
<1>10. CASE Tomb(t, cap, k) # {}
    <2>1. Tomb(t, cap, k) \in SUBSET Nat
        BY <1>4 DEF Tomb
    <2>2. PICK f \in Tomb(t, cap, k) : f = First(Tomb(t, cap, k))
        BY <1>10, <2>1, FirstMin
    <2>3. f \in 0..Stop(t, cap, k) - 1 /\ ~At(t, cap, k, f).occupied
        BY DEF Tomb
    <2>4. MapFindEntry(t, cap, k) = (h + f) % cap
        BY <1>1, <1>5, <1>10, <2>2, MFEDef
    <2>5. Offset(k, (h + f) % cap, cap) = f
        BY <1>1, <1>2, <1>8, <2>3 DEF Offset
    <2>6. f \in 0..cap - 1 /\ ~t[(h + f) % cap].occupied /\ (h + f) % cap \in 0..cap - 1
        BY <1>2, <1>8, <2>3
    <2>7. \A d \in 0..f - 1 : t[(Home(k, cap) + d) % cap].key # NoKey
        <3> TAKE d \in 0..f - 1
        <3>1. d \in 0..Stop(t, cap, k) - 1
            BY <1>4, <2>3
        <3>. QED
            BY <1>1, <1>9, <3>1
    <2>. QED
        BY <2>4, <2>5, <2>6, <2>7 DEF ChainTo, OccupiedIn
<1>11. CASE Tomb(t, cap, k) = {}
    <2>1. MapFindEntry(t, cap, k) = (h + Stop(t, cap, k)) % cap
        BY <1>1, <1>5, <1>6, <1>11, MFEDef
    <2>2. Offset(k, (h + Stop(t, cap, k)) % cap, cap) = Stop(t, cap, k)
        BY <1>1, <1>2, <1>8 DEF Offset
    <2>3. (h + Stop(t, cap, k)) % cap \in 0..cap - 1
          /\ ~t[(h + Stop(t, cap, k)) % cap].occupied
        BY <1>2, <1>8
    <2>4. \A d \in 0..Stop(t, cap, k) - 1 : t[(Home(k, cap) + d) % cap].key # NoKey
        BY <1>1, <1>9
    <2>. QED
        BY <2>1, <2>2, <2>3, <2>4 DEF ChainTo, OccupiedIn
<1>. QED
    BY <1>10, <1>11

(* The slots an insertion of key k writes: occupied, holding k. *)
OccSlot(k) == {s \in Slot : s.occupied /\ s.key = k}

(***************************************************************************)
(* Writing an occupied slot with a fresh key k into a slot r that is not  *)
(* occupied and whose probe from k's home is unbroken (what MFEFree      *)
(* gives) keeps the table keyed, duplicate-free and its chains intact;   *)
(* keys only ever change from NULL to a key, so no chain is broken.      *)
(***************************************************************************)
(* The slot write of map_set and of the rehash loop, kept opaque so that a *)
(* lemma about it is instantiated by matching rather than by search.      *)
Ins(t, r, e) == [t EXCEPT ![r] = e]

LEMMA InsertFresh ==
    ASSUME NEW cap \in Nat \ {0}, NEW t, Table(t, cap), Keyed(t), NoDup(t),
           Chains(t, cap), hashOf \in [Keys -> Nat], NEW k \in Keys, Absent(t, k),
           NEW r \in 0..cap - 1, r \notin OccupiedIn(t), ChainTo(t, cap, k, r),
           NEW e \in OccSlot(k), NEW t2, t2 = Ins(t, r, e)
    PROVE  /\ Table(t2, cap) /\ Keyed(t2) /\ NoDup(t2) /\ Chains(t2, cap)
           /\ OccupiedIn(t2) = OccupiedIn(t) \cup {r}
           /\ UsedIn(t2) = UsedIn(t) \cup {r}
<1>1. e \in Slot /\ e.occupied /\ e.key = k /\ k # NoKey
    BY MapAssumption DEF OccSlot
<1>2. Table(t2, cap) /\ t2[r] = e /\ \A i \in 0..cap - 1 \ {r} : t2[i] = t[i]
    BY <1>1 DEF Table, Ins
<1>3. DOMAIN t = 0..cap - 1 /\ DOMAIN t2 = 0..cap - 1
    BY <1>2 DEF Table
<1>4. OccupiedIn(t2) = OccupiedIn(t) \cup {r}
    BY <1>1, <1>2, <1>3 DEF OccupiedIn
<1>5. UsedIn(t2) = UsedIn(t) \cup {r}
    BY <1>1, <1>2, <1>3 DEF UsedIn
<1>6. Keyed(t2)
    BY <1>1, <1>2, <1>3 DEF Keyed
<1>7. NoDup(t2)
    <2> SUFFICES ASSUME NEW i \in 0..cap - 1, NEW j \in 0..cap - 1, i # j,
                        i \in OccupiedIn(t2), j \in OccupiedIn(t2)
                 PROVE  t2[i].key # t2[j].key
        BY <1>3 DEF NoDup, OccupiedIn
    <2>1. CASE i # r /\ j # r
        BY <1>2, <1>3, <1>4, <2>1 DEF NoDup
    <2>2. CASE i = r
        BY <1>1, <1>2, <1>3, <1>4, <2>2 DEF Absent
    <2>3. CASE j = r
        BY <1>1, <1>2, <1>3, <1>4, <2>3 DEF Absent
    <2>. QED
        BY <2>1, <2>2, <2>3
<1>8. \A x \in 0..cap - 1 : t[x].key # NoKey => t2[x].key # NoKey
    BY <1>1, <1>2
<1>9. Chains(t2, cap)
    <2> SUFFICES ASSUME NEW i \in OccupiedIn(t2),
                        NEW d \in 0..Offset(t2[i].key, i, cap) - 1
                 PROVE  t2[(Home(t2[i].key, cap) + d) % cap].key # NoKey
        BY DEF Chains
    <2>1. i \in 0..cap - 1
        BY <1>3 DEF OccupiedIn
    <2>2. CASE i = r
        <3>1. t2[i].key = k
            BY <1>1, <1>2, <2>2
        <3>2. d \in 0..cap - 1
            BY <2>2, <3>1, OffsetType
        <3>3. (Home(k, cap) + d) % cap \in 0..cap - 1
            BY <3>2, ProbeType
        <3>4. t[(Home(k, cap) + d) % cap].key # NoKey
            BY <2>2, <3>1 DEF ChainTo
        <3>. QED
            BY <1>8, <3>1, <3>3, <3>4
    <2>3. CASE i # r
        <3>1. i \in OccupiedIn(t) /\ t2[i] = t[i]
            BY <1>2, <1>4, <2>1, <2>3
        <3>2. t[i].key \in Keys
            BY <3>1 DEF OccupiedIn, Table, Slot
        <3>3. d \in 0..cap - 1
            BY <2>1, <3>1, <3>2, OffsetType
        <3>4. (Home(t[i].key, cap) + d) % cap \in 0..cap - 1
            BY <3>2, <3>3, ProbeType
        <3>5. t[(Home(t[i].key, cap) + d) % cap].key # NoKey
            BY <3>1 DEF Chains
        <3>. QED
            BY <1>8, <3>1, <3>4, <3>5
    <2>. QED
        BY <2>2, <2>3
<1>. QED
    BY <1>2, <1>4, <1>5, <1>6, <1>7, <1>9

-----------------------------------------------------------------------------
(***************************************************************************)
(* map_create's doubling loop.  The recursive function dbl of RoundUp is *)
(* the CHOOSE below; it exists (built one iteration at a time) and its   *)
(* i-th value is a natural above i, so the loop stops within n steps and *)
(* the capacity is positive.                                              *)
(***************************************************************************)
DblBody(g, i) == IF i = 0 THEN 1 ELSE 2 * g[i - 1]
DblFn(n) == CHOOSE g : g = [i \in 0..n |-> DblBody(g, i)]

LEMMA RoundUpDef ==
    ASSUME NEW n
    PROVE  RoundUp(n) = DblFn(n)[First({i \in 0..n : DblFn(n)[i] >= n})]
BY DEF RoundUp, DblFn, DblBody

LEMMA DblExists ==
    ASSUME NEW n \in Nat
    PROVE  \E g : g = [i \in 0..n |-> DblBody(g, i)]
<1> DEFINE E(m) == \E g : g = [i \in 0..m |-> DblBody(g, i)]
           S == {m \in 0..n : ~E(m)}
<1> SUFFICES ASSUME S # {} PROVE FALSE
    OBVIOUS
<1>1. PICK m \in S : \A j \in S : m <= j
    <2>1. S \in SUBSET Nat
        OBVIOUS
    <2>2. First(S) \in S /\ \A j \in S : First(S) <= j
        BY <2>1, FirstMin
    <2>. QED
        BY <2>2
<1>2. E(0)
    <2>. WITNESS [i \in 0..0 |-> 1]
    <2>. QED
        BY DEF DblBody
<1>3. m # 0 /\ m - 1 \in 0..n /\ m - 1 \notin S
    <2>1. m # 0
        BY <1>1, <1>2, Zenon
    <2>2. m - 1 \in 0..n
        BY <1>1, <2>1
    <2>3. m - 1 \notin S
        BY <1>1, <2>2
    <2>. QED
        BY <2>1, <2>2, <2>3
<1>4. PICK g : g = [i \in 0..m - 1 |-> DblBody(g, i)]
    BY <1>3
<1> DEFINE h == [i \in 0..m |-> IF i <= m - 1 THEN g[i] ELSE 2 * g[m - 1]]
<1>5. h = [i \in 0..m |-> DblBody(h, i)]
    BY <1>3, <1>4 DEF DblBody
<1>. QED
    BY <1>1, <1>5

(* Every value of dbl is a natural above its index. *)
LEMMA DblBound ==
    ASSUME NEW n \in Nat
    PROVE  \A i \in 0..n : DblFn(n)[i] \in Nat /\ DblFn(n)[i] >= i + 1
<1> DEFINE g == DblFn(n)
           S == {i \in 0..n : ~(g[i] \in Nat /\ g[i] >= i + 1)}
<1>1. g = [i \in 0..n |-> DblBody(g, i)]
    BY DblExists DEF DblFn
<1> SUFFICES ASSUME S # {} PROVE FALSE
    OBVIOUS
<1>2. PICK m \in S : \A j \in S : m <= j
    <2>1. S \in SUBSET Nat
        OBVIOUS
    <2>2. First(S) \in S /\ \A j \in S : First(S) <= j
        BY <2>1, FirstMin
    <2>. QED
        BY <2>2
<1>3. CASE m = 0
    BY <1>1, <1>2, <1>3 DEF DblBody
<1>4. CASE m # 0
    <2>1. m - 1 \in 0..n /\ m - 1 \notin S
        BY <1>2, <1>4
    <2>2. g[m - 1] \in Nat /\ g[m - 1] >= m
        BY <2>1
    <2>. QED
        BY <1>1, <1>2, <1>4, <2>2 DEF DblBody
<1>. QED
    BY <1>3, <1>4

(* map_create never makes an empty table. *)
LEMMA RoundUpType ==
    ASSUME NEW n \in Nat \ {0}
    PROVE  RoundUp(n) \in Nat \ {0}
<1> DEFINE g == DblFn(n)
           S == {i \in 0..n : g[i] >= n}
<1>1. n \in S
    BY DblBound
<1>2. First(S) \in S
    BY <1>1, FirstMin
<1>3. g[First(S)] \in Nat /\ g[First(S)] >= First(S) + 1
    BY <1>2, DblBound
<1>4. RoundUp(n) = g[First(S)]
    BY RoundUpDef
<1>. QED
    BY <1>2, <1>3, <1>4

-----------------------------------------------------------------------------
(* Sets of slots are finite and have at most cap elements. *)
LEMMA SlotsFinite ==
    ASSUME NEW cap \in Nat, NEW S \in SUBSET (0..cap - 1)
    PROVE  IsFiniteSet(S) /\ Cardinality(S) \in Nat /\ Cardinality(S) <= cap
<1>1. IsFiniteSet(0..cap - 1) /\ Cardinality(0..cap - 1) = cap
    BY FS_Interval
<1>. QED
    BY <1>1, FS_Subset, FS_CardinalityType

(* Fewer used slots than slots: some slot has never been used. *)
LEMMA FreeSlot ==
    ASSUME NEW cap \in Nat \ {0}, NEW t, Table(t, cap),
           Cardinality(UsedIn(t)) < cap
    PROVE  \E u \in 0..cap - 1 : u \notin UsedIn(t)
<1>1. UsedIn(t) \in SUBSET (0..cap - 1)
    BY DEF UsedIn, Table
<1> SUFFICES ASSUME UsedIn(t) = 0..cap - 1 PROVE FALSE
    BY <1>1
<1>2. Cardinality(0..cap - 1) = cap
    BY FS_Interval
<1>. QED
    BY <1>2

-----------------------------------------------------------------------------
(***************************************************************************)
(* map_grow's loop.  ins[i] is the new array after the loop has visited  *)
(* old slots 0..i-1; the recursive function of Rehash is the CHOOSE     *)
(* below, which exists.                                                   *)
(***************************************************************************)
InsBody(ent, newCap, g, i) ==
    IF i = 0 THEN [j \in 0..newCap - 1 |-> EmptySlot]
    ELSE RehashStep(ent, newCap, g[i - 1], i - 1)
InsFn(ent, cap, newCap) ==
    CHOOSE g : g = [i \in 0..cap |-> InsBody(ent, newCap, g, i)]

LEMMA RehashDef ==
    ASSUME NEW ent, NEW cap, NEW newCap
    PROVE  Rehash(ent, cap, newCap) =
             [j \in 0..newCap - 1 |-> InsFn(ent, cap, newCap)[cap][j]]
BY DEF Rehash, InsFn, InsBody

LEMMA InsExists ==
    ASSUME NEW ent, NEW cap \in Nat, NEW newCap
    PROVE  \E g : g = [i \in 0..cap |-> InsBody(ent, newCap, g, i)]
<1> DEFINE E(m) == \E g : g = [i \in 0..m |-> InsBody(ent, newCap, g, i)]
           S == {m \in 0..cap : ~E(m)}
<1> SUFFICES ASSUME S # {} PROVE FALSE
    OBVIOUS
<1>1. PICK m \in S : \A j \in S : m <= j
    <2>1. S \in SUBSET Nat
        OBVIOUS
    <2>2. First(S) \in S /\ \A j \in S : First(S) <= j
        BY <2>1, FirstMin
    <2>. QED
        BY <2>2
<1>2. E(0)
    <2>. WITNESS [i \in 0..0 |-> [j \in 0..newCap - 1 |-> EmptySlot]]
    <2>. QED
        BY DEF InsBody
<1>3. m # 0 /\ m - 1 \in 0..cap /\ m - 1 \notin S
    <2>1. m # 0
        BY <1>1, <1>2, Zenon
    <2>2. m - 1 \in 0..cap
        BY <1>1, <2>1
    <2>3. m - 1 \notin S
        BY <1>1, <2>2
    <2>. QED
        BY <2>1, <2>2, <2>3
<1>4. PICK g : g = [i \in 0..m - 1 |-> InsBody(ent, newCap, g, i)]
    BY <1>3
<1> DEFINE h == [i \in 0..m |-> IF i <= m - 1 THEN g[i]
                                ELSE RehashStep(ent, newCap, g[m - 1], m - 1)]
<1>5. \A i \in 0..m : h[i] = InsBody(ent, newCap, h, i)
    <2> TAKE i \in 0..m
    <2>1. CASE i = 0
        <3>1. h[i] = g[0] /\ g[0] = InsBody(ent, newCap, g, 0)
            BY <1>3, <1>4, <2>1
        <3>. QED
            BY <3>1, <2>1 DEF InsBody
    <2>2. CASE i # 0 /\ i <= m - 1
        <3>1. i \in 0..m - 1 /\ i - 1 \in 0..m - 1
            BY <1>3, <2>2
        <3>2. h[i] = g[i] /\ h[i - 1] = g[i - 1]
            BY <3>1
        <3>3. g[i] = InsBody(ent, newCap, g, i)
            BY <1>4, <3>1
        <3>4. h[i] = g[i] /\ g[i] = InsBody(ent, newCap, g, i) /\ h[i - 1] = g[i - 1]
            BY <3>2, <3>3
        <3>. QED
            BY <3>4, <2>2 DEF InsBody
    <2>3. CASE i = m
        <3>1. h[i] = RehashStep(ent, newCap, g[m - 1], m - 1) /\ h[m - 1] = g[m - 1]
            BY <1>3, <2>3
        <3>. QED
            BY <3>1, <1>3, <2>3 DEF InsBody
    <2>. QED
        BY <2>1, <2>2, <2>3
<1>6. h = [i \in 0..m |-> InsBody(ent, newCap, h, i)]
    BY <1>5
<1>. QED
    BY <1>1, <1>6

(***************************************************************************)
(* The loop invariant of map_grow, after visiting old slots 0..i-1 of    *)
(* ent: the new array t is a valid table with no tombstones, and its     *)
(* occupied slots are exactly copies of the occupied old slots visited.  *)
(***************************************************************************)
Visited(ent, i) == OccupiedIn(ent) \cap 0..i - 1
RehashInv(ent, newCap, t, i) ==
    /\ Table(t, newCap) /\ Keyed(t) /\ NoDup(t) /\ Chains(t, newCap)
    /\ UsedIn(t) = OccupiedIn(t)
    /\ Cardinality(OccupiedIn(t)) = Cardinality(Visited(ent, i))
    /\ \A x \in OccupiedIn(t) : \E m \in Visited(ent, i) : t[x] = ent[m]
    /\ \A m \in Visited(ent, i) : \E x \in OccupiedIn(t) : t[x] = ent[m]

(* One iteration of the loop keeps the invariant: the old slot's key is  *)
(* not yet in the new array (NoDup of the old one), and the new array,  *)
(* holding fewer keys than cap, has a never-used slot, so                *)
(* map_find_entry gives a free slot with an intact chain (MFEFree).     *)
LEMMA RehashStepOK ==
    ASSUME NEW cap \in Nat \ {0}, NEW ent, Table(ent, cap), NoDup(ent),
           hashOf \in [Keys -> Nat], NEW i \in 1..cap, NEW t,
           RehashInv(ent, 2 * cap, t, i - 1)
    PROVE  RehashInv(ent, 2 * cap, RehashStep(ent, 2 * cap, t, i - 1), i)
<1> DEFINE j == i - 1
           A == Visited(ent, j)
           B == Visited(ent, i)
           t2 == RehashStep(ent, 2 * cap, t, j)
<1>1. j \in 0..cap - 1 /\ 2 * cap \in Nat \ {0}
    OBVIOUS
<1>2. /\ Table(t, 2 * cap) /\ Keyed(t) /\ NoDup(t) /\ Chains(t, 2 * cap)
      /\ UsedIn(t) = OccupiedIn(t)
      /\ Cardinality(OccupiedIn(t)) = Cardinality(A)
      /\ \A x \in OccupiedIn(t) : \E m \in A : t[x] = ent[m]
      /\ \A m \in A : \E x \in OccupiedIn(t) : t[x] = ent[m]
    BY DEF RehashInv
<1>3. A \in SUBSET (0..cap - 1) /\ OccupiedIn(t) \in SUBSET (0..2 * cap - 1)
    BY <1>2 DEF Visited, OccupiedIn, Table
<1>4. /\ IsFiniteSet(A) /\ Cardinality(A) \in Nat /\ Cardinality(A) <= j
      /\ IsFiniteSet(OccupiedIn(t))
    <2>1. A \in SUBSET (0..j - 1)
        BY DEF Visited
    <2>. QED
        BY <1>1, <1>3, <2>1, SlotsFinite
<1>5. CASE j \notin OccupiedIn(ent)
    <2>1. t2 = t
        BY <1>1, <1>5 DEF RehashStep, OccupiedIn, Table
    <2>2. B = A
        BY <1>5 DEF Visited
    <2>. QED
        BY <1>2, <2>1, <2>2 DEF RehashInv
<1>6. CASE j \in OccupiedIn(ent)
    <2>1. PICK k \in Keys : k = ent[j].key
        BY <1>1, <1>6 DEF OccupiedIn, Table, Slot
    <2>2. ent[j] \in OccSlot(k)
        BY <1>1, <1>6, <2>1 DEF OccupiedIn, Table, OccSlot
    <2>3. Absent(t, k)
        <3> SUFFICES ASSUME NEW x \in OccupiedIn(t), t[x].key = k PROVE FALSE
            BY DEF Absent
        <3>1. PICK m \in A : t[x] = ent[m]
            BY <1>2
        <3>2. m \in OccupiedIn(ent) /\ m # j
            BY DEF Visited
        <3>. QED
            BY <1>6, <2>1, <3>1, <3>2 DEF NoDup
    <2>4. PICK u \in 0..2 * cap - 1 : u \notin UsedIn(t)
        <3>1. Cardinality(UsedIn(t)) < 2 * cap
            BY <1>2, <1>4
        <3>. QED
            BY <1>1, <1>2, <3>1, FreeSlot
    <2>5. PICK r \in 0..2 * cap - 1 :
            /\ r = MapFindEntry(t, 2 * cap, k)
            /\ r \notin OccupiedIn(t)
            /\ ChainTo(t, 2 * cap, k, r)
        BY <1>1, <1>2, <2>3, <2>4, MFEFree
    <2>6. t2 = Ins(t, r, ent[j])
        BY <1>6, <2>1, <2>5 DEF RehashStep, OccupiedIn, Ins
    <2>7. /\ Table(t2, 2 * cap) /\ Keyed(t2) /\ NoDup(t2) /\ Chains(t2, 2 * cap)
          /\ OccupiedIn(t2) = OccupiedIn(t) \cup {r}
          /\ UsedIn(t2) = UsedIn(t) \cup {r}
        BY <1>1, <1>2, <2>2, <2>3, <2>5, <2>6, InsertFresh
    <2>8. B = A \cup {j} /\ j \notin A
        BY <1>6 DEF Visited
    <2>9. Cardinality(OccupiedIn(t2)) = Cardinality(B)
        <3>1. Cardinality(OccupiedIn(t2)) = Cardinality(OccupiedIn(t)) + 1
            BY <1>4, <2>5, <2>7, FS_AddElement
        <3>2. Cardinality(B) = Cardinality(A) + 1
            BY <1>4, <2>8, FS_AddElement
        <3>. QED
            BY <1>2, <3>1, <3>2
    <2>10. t2[r] = ent[j] /\ \A x \in OccupiedIn(t) : t2[x] = t[x]
        <3>1. DOMAIN t = 0..2 * cap - 1
            BY <1>2 DEF Table
        <3>2. t2[r] = ent[j]
            BY <2>6, <3>1 DEF Ins
        <3>3. \A x \in OccupiedIn(t) : x # r
            BY <2>5
        <3>4. OccupiedIn(t) \subseteq DOMAIN t
            BY DEF OccupiedIn
        <3>5. \A x \in DOMAIN t : x # r => t2[x] = t[x]
            BY <2>6 DEF Ins
        <3>. QED
            BY <3>2, <3>3, <3>4, <3>5
    <2>11. \A x \in OccupiedIn(t2) : \E m \in B : t2[x] = ent[m]
        BY <1>2, <2>7, <2>8, <2>10
    <2>12. \A m \in B : \E x \in OccupiedIn(t2) : t2[x] = ent[m]
        BY <1>2, <2>7, <2>8, <2>10
    <2>. QED
        BY <1>2, <2>7, <2>9, <2>11, <2>12 DEF RehashInv
<1>. QED
    BY <1>5, <1>6

(* A freshly allocated array (calloc: every slot never used) is a valid  *)
(* table with nothing in it.                                              *)
LEMMA EmptyOK ==
    ASSUME NEW c \in Nat
    PROVE  /\ Table([i \in 0..c - 1 |-> EmptySlot], c)
           /\ Keyed([i \in 0..c - 1 |-> EmptySlot])
           /\ NoDup([i \in 0..c - 1 |-> EmptySlot])
           /\ Chains([i \in 0..c - 1 |-> EmptySlot], c)
           /\ OccupiedIn([i \in 0..c - 1 |-> EmptySlot]) = {}
           /\ UsedIn([i \in 0..c - 1 |-> EmptySlot]) = {}
<1>1. EmptySlot \in Slot
    BY MapAssumption DEF EmptySlot, Slot
<1>2. OccupiedIn([i \in 0..c - 1 |-> EmptySlot]) = {}
      /\ UsedIn([i \in 0..c - 1 |-> EmptySlot]) = {}
    BY DEF OccupiedIn, UsedIn, EmptySlot
<1>. QED
    BY <1>1, <1>2 DEF Table, Keyed, NoDup, Chains, EmptySlot

(* map_grow's whole loop: the rehashed array holds exactly the occupied  *)
(* old slots, each once, with intact chains and no tombstones.          *)
LEMMA RehashOK ==
    ASSUME NEW cap \in Nat \ {0}, NEW ent, Table(ent, cap), NoDup(ent),
           hashOf \in [Keys -> Nat]
    PROVE  RehashInv(ent, 2 * cap, Rehash(ent, cap, 2 * cap), cap)
<1> DEFINE g == InsFn(ent, cap, 2 * cap)
<1>1. g = [i \in 0..cap |-> InsBody(ent, 2 * cap, g, i)]
    BY InsExists DEF InsFn
<1>2. \A i \in 0..cap : RehashInv(ent, 2 * cap, g[i], i)
    <2> DEFINE S == {i \in 0..cap : ~RehashInv(ent, 2 * cap, g[i], i)}
    <2> SUFFICES ASSUME S # {} PROVE FALSE
        OBVIOUS
    <2>1. PICK m \in S : \A j \in S : m <= j
        <3>1. S \in SUBSET Nat
            OBVIOUS
        <3>2. First(S) \in S /\ \A j \in S : First(S) <= j
            BY <3>1, FirstMin
        <3>. QED
            BY <3>2
    <2>2. CASE m = 0
        <3>1. g[0] = [j \in 0..2 * cap - 1 |-> EmptySlot]
            BY <1>1 DEF InsBody
        <3>2. Visited(ent, 0) = {}
            BY DEF Visited
        <3>3. /\ Table(g[0], 2 * cap) /\ Keyed(g[0]) /\ NoDup(g[0])
              /\ Chains(g[0], 2 * cap)
              /\ OccupiedIn(g[0]) = {} /\ UsedIn(g[0]) = {}
            <4>1. 2 * cap \in Nat
                OBVIOUS
            <4>. QED
                BY <3>1, <4>1, EmptyOK
        <3>4. RehashInv(ent, 2 * cap, g[0], 0)
            BY <3>2, <3>3 DEF RehashInv
        <3>. QED
            BY <2>1, <2>2, <3>4
    <2>3. CASE m # 0
        <3>1. m \in 1..cap /\ m - 1 \in 0..cap /\ m - 1 \notin S
            BY <2>1, <2>3
        <3>2. RehashInv(ent, 2 * cap, g[m - 1], m - 1)
            BY <3>1
        <3>3. g[m] = RehashStep(ent, 2 * cap, g[m - 1], m - 1)
            BY <1>1, <3>1 DEF InsBody
        <3>4. RehashInv(ent, 2 * cap, g[m], m)
            BY <3>1, <3>2, <3>3, RehashStepOK
        <3>. QED
            BY <2>1, <3>4
    <2>. QED
        BY <2>2, <2>3
<1>3. Rehash(ent, cap, 2 * cap) = g[cap]
    <2>1. Table(g[cap], 2 * cap)
        BY <1>2 DEF RehashInv
    <2>2. g[cap] = [j \in 0..2 * cap - 1 |-> g[cap][j]]
        BY <2>1 DEF Table
    <2>. QED
        BY <2>2, RehashDef
<1>. QED
    BY <1>2, <1>3

-----------------------------------------------------------------------------
(* The invariants of MapTable are those of the table entries. *)
LEMMA InvDefs ==
    /\ NoDuplicateKeys <=> NoDup(entries)
    /\ ProbeChainIntact <=> Chains(entries, capacity)
BY DEF NoDuplicateKeys, NoDup, ProbeChainIntact, Chains, Home, Offset

(* The hash function never changes, so the chains of the next state are *)
(* those of the next entry array under the same hash.                   *)
LEMMA ChainsPrime ==
    ASSUME hashOf' = hashOf
    PROVE  (Chains(entries, capacity))' = Chains(entries', capacity')
BY DEF Chains, Home, Offset, hash_string

LEMMA HashNat ==
    ASSUME TypeOK PROVE hashOf \in [Keys -> Nat]
BY DEF TypeOK

(* map_create builds a valid, empty table. *)
LEMMA IInvInit ==
    Init => IInv
<1> SUFFICES ASSUME Init PROVE IInv
    OBVIOUS
<1>1. (IF InitCapacity = 0 THEN 16 ELSE InitCapacity) \in Nat \ {0}
    BY MapAssumption
<1>2. capacity \in Nat \ {0}
    BY <1>1, RoundUpType DEF Init
<1>3. entries = [i \in 0..capacity - 1 |-> EmptySlot]
    BY DEF Init
<1>4. /\ Table(entries, capacity) /\ Keyed(entries) /\ NoDup(entries)
      /\ Chains(entries, capacity) /\ UsedIn(entries) = {}
    BY <1>2, <1>3, EmptyOK
<1>5. size = 0 /\ tombstones = 0 /\ hashOf \in [Keys -> 0..HashRange - 1]
    BY DEF Init
<1>6. UsedBound
    BY <1>4, <1>5, FS_EmptySet DEF UsedBound
<1>7. TypeOK
    BY <1>2, <1>4, <1>5 DEF TypeOK, Table
<1>. QED
    BY <1>4, <1>6, <1>7 DEF IInv

(***************************************************************************)
(* A write that changes no key and occupies no slot (a value update, or  *)
(* map_remove turning a slot into a tombstone) keeps the table valid and *)
(* its used slots, and can only shrink its occupied ones.                *)
(***************************************************************************)
SameKeys(t, t2, cap) ==
    \A x \in 0..cap - 1 : t2[x].key = t[x].key /\ (t2[x].occupied => t[x].occupied)

LEMMA KeysKept ==
    ASSUME NEW cap \in Nat \ {0}, NEW t, NEW t2, Table(t, cap), Table(t2, cap),
           Keyed(t), NoDup(t), Chains(t, cap), SameKeys(t, t2, cap),
           hashOf \in [Keys -> Nat]
    PROVE  /\ Keyed(t2) /\ NoDup(t2) /\ Chains(t2, cap)
           /\ UsedIn(t2) = UsedIn(t) /\ OccupiedIn(t2) \subseteq OccupiedIn(t)
<1>1. DOMAIN t = 0..cap - 1 /\ DOMAIN t2 = 0..cap - 1
    BY DEF Table
<1>2. OccupiedIn(t2) \subseteq OccupiedIn(t)
    BY <1>1 DEF OccupiedIn, SameKeys
<1>3. UsedIn(t2) = UsedIn(t)
    BY <1>1 DEF UsedIn, SameKeys
<1>4. Keyed(t2)
    BY <1>1 DEF Keyed, SameKeys
<1>5. NoDup(t2)
    BY <1>1, <1>2 DEF NoDup, SameKeys, OccupiedIn
<1>6. Chains(t2, cap)
    <2> SUFFICES ASSUME NEW i \in OccupiedIn(t2),
                        NEW d \in 0..Offset(t2[i].key, i, cap) - 1
                 PROVE  t2[(Home(t2[i].key, cap) + d) % cap].key # NoKey
        BY DEF Chains
    <2>1. i \in OccupiedIn(t) /\ i \in 0..cap - 1 /\ t2[i].key = t[i].key
        BY <1>1, <1>2 DEF OccupiedIn, SameKeys
    <2>2. t[(Home(t[i].key, cap) + d) % cap].key # NoKey
        BY <2>1 DEF Chains
    <2>3. t[i].key \in Keys
        BY <2>1 DEF OccupiedIn, Table, Slot
    <2>4. (Home(t[i].key, cap) + d) % cap \in 0..cap - 1
        <3>1. d \in 0..cap - 1
            BY <2>1, <2>3, OffsetType
        <3>. QED
            BY <2>3, <3>1, ProbeType
    <2>. QED
        BY <2>1, <2>2, <2>4 DEF SameKeys
<1>. QED
    BY <1>2, <1>3, <1>4, <1>5, <1>6

(* Key k is held by an occupied slot of t, or by none. *)
LEMMA PresentOrAbsent ==
    ASSUME NEW cap \in Nat, NEW t, Table(t, cap), NEW k
    PROVE  (\E j \in 0..cap - 1 : j \in OccupiedIn(t) /\ t[j].key = k) \/ Absent(t, k)
BY DEF Absent, OccupiedIn, Table

(***************************************************************************)
(* The store of map_set, on a valid table with a never-used slot: the    *)
(* key's own slot gets the new value, or a free slot on its probe gets   *)
(* the pair.  The table stays valid, and the used slots grow by the      *)
(* entries added.                                                         *)
(***************************************************************************)
LEMMA SetIntoOK ==
    ASSUME NEW cap \in Nat \ {0}, NEW ent, NEW sz \in Nat,
           Table(ent, cap), Keyed(ent), NoDup(ent), Chains(ent, cap),
           hashOf \in [Keys -> Nat], Cardinality(UsedIn(ent)) < cap,
           NEW k \in Keys, NEW v \in Vals, SetInto(ent, cap, sz, k, v)
    PROVE  /\ capacity' = cap
           /\ Table(entries', cap) /\ Keyed(entries') /\ NoDup(entries')
           /\ Chains(entries', cap)
           /\ size' \in {sz, sz + 1}
           /\ Cardinality(UsedIn(entries')) + sz <= Cardinality(UsedIn(ent)) + size'
<1>1. IsFiniteSet(UsedIn(ent)) /\ Cardinality(UsedIn(ent)) \in Nat
    <2>1. UsedIn(ent) \in SUBSET (0..cap - 1)
        BY DEF UsedIn, Table
    <2>. QED
        BY <2>1, SlotsFinite
<1>2. capacity' = cap
    BY DEF SetInto
<1>3. CASE \E j \in 0..cap - 1 : j \in OccupiedIn(ent) /\ ent[j].key = k
    <2>1. PICK j \in 0..cap - 1 : j \in OccupiedIn(ent) /\ ent[j].key = k
        BY <1>3
    <2>2. MapFindEntry(ent, cap, k) = j
        BY <2>1, MFEFound
    <2>3. ent[j].occupied
        BY <2>1 DEF OccupiedIn
    <2>4. entries' = [ent EXCEPT ![j].value = v] /\ size' = sz
        BY <2>2, <2>3 DEF SetInto
    <2>5. Table(entries', cap) /\ SameKeys(ent, entries', cap)
        BY <2>4 DEF Table, Slot, SameKeys
    <2>6. /\ Keyed(entries') /\ NoDup(entries') /\ Chains(entries', cap)
          /\ UsedIn(entries') = UsedIn(ent)
        BY <2>5, KeysKept
    <2>. QED
        BY <1>1, <1>2, <2>4, <2>5, <2>6
<1>4. CASE Absent(ent, k)
    <2>1. PICK u \in 0..cap - 1 : u \notin UsedIn(ent)
        BY FreeSlot
    <2>2. PICK r \in 0..cap - 1 :
            /\ r = MapFindEntry(ent, cap, k)
            /\ r \notin OccupiedIn(ent)
            /\ ChainTo(ent, cap, k, r)
        BY <1>4, <2>1, MFEFree
    <2>3. ~ent[r].occupied
        BY <2>2 DEF OccupiedIn, Keyed, Table
    <2>4. PICK e \in OccSlot(k) : e = [occupied |-> TRUE, key |-> k, value |-> v]
        BY MapAssumption DEF OccSlot, Slot
    <2>5. entries' = [ent EXCEPT ![r] = e] /\ size' = sz + 1
        BY <2>2, <2>3, <2>4 DEF SetInto
    <2>6. /\ Table(entries', cap) /\ Keyed(entries') /\ NoDup(entries')
          /\ Chains(entries', cap)
          /\ UsedIn(entries') = UsedIn(ent) \cup {r}
        <3>1. r \notin OccupiedIn(ent) /\ ChainTo(ent, cap, k, r)
            BY <2>2
        <3>2. entries' = Ins(ent, r, e)
            BY <2>5 DEF Ins
        <3>. QED
            BY <1>4, <3>1, <3>2, InsertFresh
    <2>7. Cardinality(UsedIn(entries')) \in Nat
          /\ Cardinality(UsedIn(entries')) <= Cardinality(UsedIn(ent)) + 1
        <3>1. Cardinality(UsedIn(ent) \cup {r}) =
                IF r \in UsedIn(ent) THEN Cardinality(UsedIn(ent))
                ELSE Cardinality(UsedIn(ent)) + 1
            BY <1>1, FS_AddElement
        <3>. QED
            BY <1>1, <2>6, <3>1
    <2>. QED
        BY <1>1, <1>2, <2>5, <2>6, <2>7
<1>. QED
    BY <1>3, <1>4, PresentOrAbsent

-----------------------------------------------------------------------------
(***************************************************************************)
(* The inductive step, one lemma per call of the map API.                *)
(***************************************************************************)

(* A next state with the same hash function, a valid table, and counters *)
(* bounding its used slots satisfies the inductive invariant.            *)
LEMMA IInvPrime ==
    ASSUME hashOf' = hashOf, hashOf \in [Keys -> 0..HashRange - 1],
           capacity' \in Nat \ {0}, Table(entries', capacity'),
           size' \in Nat, tombstones' \in Nat,
           Keyed(entries'), NoDup(entries'), Chains(entries', capacity'),
           Cardinality(UsedIn(entries')) <= size' + tombstones'
    PROVE  IInv'
<1>1. TypeOK'
    BY DEF TypeOK, Table
<1>2. (Chains(entries, capacity))'
    BY ChainsPrime
<1>. QED
    BY <1>1, <1>2 DEF IInv, UsedBound, Keyed, NoDup, OccupiedIn, UsedIn

(* What the inductive invariant says of the current table. *)
LEMMA IInvFacts ==
    ASSUME IInv
    PROVE  /\ capacity \in Nat \ {0} /\ size \in Nat /\ tombstones \in Nat
           /\ Table(entries, capacity) /\ Keyed(entries) /\ NoDup(entries)
           /\ Chains(entries, capacity)
           /\ hashOf \in [Keys -> 0..HashRange - 1] /\ hashOf \in [Keys -> Nat]
           /\ Cardinality(UsedIn(entries)) \in Nat
           /\ Cardinality(UsedIn(entries)) <= size + tombstones
<1>1. /\ capacity \in Nat \ {0} /\ size \in Nat /\ tombstones \in Nat
      /\ Table(entries, capacity) /\ hashOf \in [Keys -> 0..HashRange - 1]
    BY DEF IInv, TypeOK, Table
<1>2. hashOf \in [Keys -> Nat]
    BY HashNat DEF IInv
<1>3. Cardinality(UsedIn(entries)) \in Nat
    <2>1. UsedIn(entries) \in SUBSET (0..capacity - 1)
        BY <1>1 DEF UsedIn, Table
    <2>. QED
        BY <1>1, <2>1, SlotsFinite
<1>. QED
    BY <1>1, <1>2, <1>3 DEF IInv, UsedBound

(* Any table of capacity cap has finitely many used slots. *)
LEMMA UsedCard ==
    ASSUME NEW cap \in Nat, NEW t, Table(t, cap)
    PROVE  Cardinality(UsedIn(t)) \in Nat
<1>1. UsedIn(t) \in SUBSET (0..cap - 1)
    BY DEF UsedIn, Table
<1>. QED
    BY <1>1, SlotsFinite

(* The table map_grow builds from a valid one: valid at twice the       *)
(* capacity, its used slots the old occupied ones, fewer than its slots. *)
LEMMA GrowFacts ==
    ASSUME IInv, NEW R, R = Rehash(entries, capacity, 2 * capacity)
    PROVE  /\ RehashInv(entries, 2 * capacity, R, capacity)
           /\ 2 * capacity \in Nat \ {0}
           /\ Table(R, 2 * capacity) /\ Keyed(R) /\ NoDup(R) /\ Chains(R, 2 * capacity)
           /\ Cardinality(OccupiedIn(entries)) \in Nat
           /\ Cardinality(UsedIn(R)) = Cardinality(OccupiedIn(entries))
           /\ Cardinality(OccupiedIn(R)) = Cardinality(OccupiedIn(entries))
           /\ Cardinality(UsedIn(R)) < 2 * capacity
<1>1. /\ capacity \in Nat \ {0}
      /\ Table(entries, capacity) /\ NoDup(entries) /\ hashOf \in [Keys -> Nat]
    BY IInvFacts
<1>2. RehashInv(entries, 2 * capacity, R, capacity)
    BY <1>1, RehashOK
<1>3. Visited(entries, capacity) = OccupiedIn(entries)
    BY <1>1 DEF Visited, OccupiedIn, Table
<1>4. /\ Cardinality(OccupiedIn(entries)) \in Nat
      /\ Cardinality(OccupiedIn(entries)) <= capacity
    <2>1. OccupiedIn(entries) \in SUBSET (0..capacity - 1)
        BY <1>1 DEF OccupiedIn, Table
    <2>. QED
        BY <1>1, <2>1, SlotsFinite
<1>5. /\ Table(R, 2 * capacity) /\ Keyed(R) /\ NoDup(R) /\ Chains(R, 2 * capacity)
      /\ Cardinality(UsedIn(R)) = Cardinality(OccupiedIn(entries))
      /\ Cardinality(OccupiedIn(R)) = Cardinality(OccupiedIn(entries))
    BY <1>2, <1>3 DEF RehashInv
<1>. QED
    BY <1>1, <1>2, <1>4, <1>5

(* map_set's load test, when it does not ask for growth, leaves fewer    *)
(* used slots than slots.                                                 *)
LEMMA NoGrowRoom ==
    ASSUME IInv, ~NeedsGrow
    PROVE  Cardinality(UsedIn(entries)) < capacity
<1>1. /\ capacity \in Nat \ {0} /\ size \in Nat /\ tombstones \in Nat
      /\ Cardinality(UsedIn(entries)) \in Nat
      /\ Cardinality(UsedIn(entries)) <= size + tombstones
    BY IInvFacts
<1>2. size + tombstones + 1 <= (capacity * 3) \div 4
    BY <1>1 DEF NeedsGrow
<1>3. (capacity * 3) \div 4 < capacity
    BY <1>1
<1>. QED
    BY <1>1, <1>2, <1>3

(* map_set without growth: the load test (size + tombstones + 1 within   *)
(* three quarters of the capacity) leaves fewer used slots than slots,  *)
(* so the store finds a slot.                                            *)
LEMMA SetNoGrowOK ==
    ASSUME IInv, NEW k \in Keys, NEW v \in Vals, ~NeedsGrow,
           SetInto(entries, capacity, size, k, v),
           tombstones' = tombstones, hashOf' = hashOf
    PROVE  IInv'
<1>1. /\ capacity \in Nat \ {0} /\ size \in Nat /\ tombstones \in Nat
      /\ Table(entries, capacity) /\ Keyed(entries) /\ NoDup(entries)
      /\ Chains(entries, capacity)
      /\ hashOf \in [Keys -> 0..HashRange - 1] /\ hashOf \in [Keys -> Nat]
      /\ Cardinality(UsedIn(entries)) \in Nat
      /\ Cardinality(UsedIn(entries)) <= size + tombstones
    BY IInvFacts
<1>2. Cardinality(UsedIn(entries)) < capacity
    BY NoGrowRoom
<1>3. /\ capacity' = capacity
      /\ Table(entries', capacity) /\ Keyed(entries') /\ NoDup(entries')
      /\ Chains(entries', capacity)
      /\ size' \in {size, size + 1}
      /\ Cardinality(UsedIn(entries')) + size
           <= Cardinality(UsedIn(entries)) + size'
    BY <1>1, <1>2, SetIntoOK
<1>4. Cardinality(UsedIn(entries')) \in Nat
    BY <1>1, <1>3, UsedCard
<1>5. Cardinality(UsedIn(entries')) <= size' + tombstones'
    BY <1>1, <1>3, <1>4
<1>. QED
    BY <1>1, <1>3, <1>5, IInvPrime

(* map_set with growth: map_grow rehashes into twice the capacity, which *)
(* leaves no tombstones and as many used slots as there were keys, fewer *)
(* than the new capacity, so the store finds a slot.                    *)
LEMMA SetGrowOK ==
    ASSUME IInv, NEW k \in Keys, NEW v \in Vals,
           SetInto(Rehash(entries, capacity, 2 * capacity), 2 * capacity,
                   Cardinality(OccupiedIn(entries)), k, v),
           tombstones' = 0, hashOf' = hashOf
    PROVE  IInv'
<1>1. hashOf \in [Keys -> 0..HashRange - 1] /\ hashOf \in [Keys -> Nat]
    BY IInvFacts
<1>2. PICK R : R = Rehash(entries, capacity, 2 * capacity)
    OBVIOUS
<1>3. /\ 2 * capacity \in Nat \ {0}
      /\ Table(R, 2 * capacity) /\ Keyed(R) /\ NoDup(R) /\ Chains(R, 2 * capacity)
      /\ Cardinality(OccupiedIn(entries)) \in Nat
      /\ Cardinality(UsedIn(R)) = Cardinality(OccupiedIn(entries))
      /\ Cardinality(UsedIn(R)) < 2 * capacity
    BY <1>2, GrowFacts
<1>4. SetInto(R, 2 * capacity, Cardinality(OccupiedIn(entries)), k, v)
    BY <1>2
<1>5. /\ capacity' = 2 * capacity
      /\ Table(entries', 2 * capacity) /\ Keyed(entries') /\ NoDup(entries')
      /\ Chains(entries', 2 * capacity)
      /\ size' \in {Cardinality(OccupiedIn(entries)), Cardinality(OccupiedIn(entries)) + 1}
      /\ Cardinality(UsedIn(entries')) + Cardinality(OccupiedIn(entries))
           <= Cardinality(UsedIn(R)) + size'
    BY <1>1, <1>3, <1>4, SetIntoOK
<1>6. Cardinality(UsedIn(entries')) \in Nat
    BY <1>3, <1>5, UsedCard
<1>7. Cardinality(UsedIn(entries')) <= size' + tombstones'
    BY <1>3, <1>5, <1>6
<1>. QED
    BY <1>1, <1>3, <1>5, <1>7, IInvPrime

(* Calls that change no field of the map (map_get, map_has, map_iterate, *)
(* a map_remove that finds nothing) keep the invariant.                  *)
LEMMA UnchangedOK ==
    ASSUME IInv, UNCHANGED <<entries, capacity, size, tombstones, hashOf>>
    PROVE  IInv'
<1>1. /\ capacity \in Nat \ {0} /\ size \in Nat /\ tombstones \in Nat
      /\ Table(entries, capacity) /\ Keyed(entries) /\ NoDup(entries)
      /\ Chains(entries, capacity)
      /\ hashOf \in [Keys -> 0..HashRange - 1]
      /\ Cardinality(UsedIn(entries)) <= size + tombstones
    BY IInvFacts
<1>. QED
    BY <1>1, IInvPrime

(* map_remove of a present key: the slot becomes a tombstone, keeping its *)
(* key, so no probe chain is cut; size goes down and tombstones up by one. *)
LEMMA RemoveOK ==
    ASSUME IInv, NEW k \in Keys, map_remove(k)
    PROVE  IInv'
<1>1. /\ capacity \in Nat \ {0} /\ size \in Nat /\ tombstones \in Nat
      /\ Table(entries, capacity) /\ Keyed(entries) /\ NoDup(entries)
      /\ Chains(entries, capacity)
      /\ hashOf \in [Keys -> 0..HashRange - 1] /\ hashOf \in [Keys -> Nat]
      /\ Cardinality(UsedIn(entries)) \in Nat
      /\ Cardinality(UsedIn(entries)) <= size + tombstones
    BY IInvFacts
<1>2. PICK i : i = MapFindEntry(entries, capacity, k)
    OBVIOUS
<1>3. \/ UNCHANGED <<entries, capacity, size, tombstones, hashOf>>
      \/ /\ size # 0 /\ i # NoSlot /\ entries[i].occupied
         /\ entries' = [entries EXCEPT ![i].occupied = FALSE, ![i].value = Missing]
         /\ size' = size - 1
         /\ tombstones' = tombstones + 1
         /\ UNCHANGED <<capacity, hashOf>>
    BY <1>2 DEF map_remove
<1>4. CASE UNCHANGED <<entries, capacity, size, tombstones, hashOf>>
    BY <1>4, UnchangedOK
<1>5. CASE /\ size # 0 /\ i # NoSlot /\ entries[i].occupied
           /\ entries' = [entries EXCEPT ![i].occupied = FALSE, ![i].value = Missing]
           /\ size' = size - 1
           /\ tombstones' = tombstones + 1
           /\ UNCHANGED <<capacity, hashOf>>
    <2>1. i \in 0..capacity - 1
        <3>1. i \in (0..capacity - 1) \cup {NoSlot}
            BY <1>1, <1>2, MFERange
        <3>. QED
            BY <1>5, <3>1
    <2>2. Table(entries', capacity) /\ SameKeys(entries, entries', capacity)
        BY <1>1, <1>5, <2>1, MapAssumption DEF Table, Slot, SameKeys
    <2>3. /\ Keyed(entries') /\ NoDup(entries') /\ Chains(entries', capacity)
          /\ UsedIn(entries') = UsedIn(entries)
        BY <1>1, <2>2, KeysKept
    <2>4. Cardinality(UsedIn(entries')) <= size' + tombstones'
        BY <1>1, <1>5, <2>3
    <2>. QED
        BY <1>1, <1>5, <2>2, <2>3, <2>4, IInvPrime
<1>. QED
    BY <1>3, <1>4, <1>5

(* map_clear: a fresh array of the same capacity, with no keys, size and *)
(* tombstones zero.                                                      *)
LEMMA ClearOK ==
    ASSUME IInv, map_clear
    PROVE  IInv'
<1>1. /\ capacity \in Nat \ {0} /\ hashOf \in [Keys -> 0..HashRange - 1]
    BY IInvFacts
<1>2. entries' = [i \in 0..capacity - 1 |-> EmptySlot]
    BY DEF map_clear
<1>3. size' = 0 /\ tombstones' = 0 /\ capacity' = capacity /\ hashOf' = hashOf
    BY DEF map_clear
<1>4. /\ Table(entries', capacity) /\ Keyed(entries') /\ NoDup(entries')
      /\ Chains(entries', capacity) /\ UsedIn(entries') = {}
    <2>1. capacity \in Nat
        BY <1>1
    <2>2. /\ Table([i \in 0..capacity - 1 |-> EmptySlot], capacity)
          /\ Keyed([i \in 0..capacity - 1 |-> EmptySlot])
          /\ NoDup([i \in 0..capacity - 1 |-> EmptySlot])
          /\ Chains([i \in 0..capacity - 1 |-> EmptySlot], capacity)
          /\ UsedIn([i \in 0..capacity - 1 |-> EmptySlot]) = {}
        BY <2>1, EmptyOK
    <2>. QED
        BY <1>2, <2>2
<1>5. Cardinality(UsedIn(entries')) <= size' + tombstones'
    <2>1. Cardinality({}) = 0
        BY FS_EmptySet
    <2>. QED
        BY <1>3, <1>4, <2>1
<1>. QED
    BY <1>1, <1>3, <1>4, <1>5, IInvPrime

(* Every call of the map API, and a stuttering step, keeps IInv. *)
LEMMA IInvStep ==
    IInv /\ [Next]_vars => IInv'
<1> SUFFICES ASSUME IInv, [Next]_vars PROVE IInv'
    OBVIOUS
<1>1. ASSUME NEW k \in Keys, NEW v \in Vals, map_set(k, v) PROVE IInv'
    <2>1. hashOf' = hashOf
        BY <1>1 DEF map_set
    <2>2. CASE ~NeedsGrow /\ SetInto(entries, capacity, size, k, v)
               /\ UNCHANGED tombstones
        BY <2>1, <2>2, SetNoGrowOK
    <2>3. CASE /\ SetInto(Rehash(entries, capacity, 2 * capacity), 2 * capacity,
                          Cardinality(OccupiedIn(entries)), k, v)
               /\ tombstones' = 0
        BY <2>1, <2>3, SetGrowOK
    <2>. QED
        BY <1>1, <2>2, <2>3 DEF map_set
<1>2. ASSUME NEW k \in Keys, map_get(k) \/ map_has(k) PROVE IInv'
    BY <1>2, UnchangedOK DEF map_get, map_has
<1>3. ASSUME NEW k \in Keys, map_remove(k) PROVE IInv'
    BY <1>3, RemoveOK
<1>4. CASE map_iterate
    BY <1>4, UnchangedOK DEF map_iterate
<1>5. CASE map_clear
    BY <1>5, ClearOK
<1>6. CASE UNCHANGED vars
    BY <1>6, UnchangedOK DEF vars
<1>. QED
    BY <1>1, <1>2, <1>3, <1>4, <1>5, <1>6 DEF Next

-----------------------------------------------------------------------------
(* The inductive invariant holds in every reachable state of the map.    *)
THEOREM IInvHolds == Spec => []IInv
<1>1. Init => IInv
    BY IInvInit
<1>2. IInv /\ [Next]_vars => IInv'
    BY IInvStep
<1>. QED
    BY <1>1, <1>2, PTL DEF Spec

(* Type correctness of every map call: capacity positive, the entry      *)
(* array indexed 0..capacity-1, size and tombstones natural.             *)
THEOREM MapTypeCorrect == Spec => []TypeOK
<1>1. IInv => TypeOK
    BY DEF IInv
<1>. QED
    BY <1>1, IInvHolds, PTL

(* After any sequence of map_set, map_remove (tombstones, and their reuse *)
(* by map_set), map_clear and growth, no key is held by two occupied     *)
(* slots, for every capacity, key set and hash function.                 *)
THEOREM NoDuplicateKeysHolds == Spec => []NoDuplicateKeys
<1>1. IInv => NoDuplicateKeys
    BY InvDefs DEF IInv
<1>. QED
    BY <1>1, IInvHolds, PTL

(* After any sequence of calls, no never-used slot lies between an        *)
(* occupied key's home slot and its slot, so map_find_entry's early stop  *)
(* at a never-used slot never hides a stored key.                         *)
THEOREM ProbeChainIntactHolds == Spec => []ProbeChainIntact
<1>1. IInv => ProbeChainIntact
    BY InvDefs DEF IInv
<1>. QED
    BY <1>1, IInvHolds, PTL

-----------------------------------------------------------------------------
(***************************************************************************)
(* Refinement of AbstractMap.  The dictionary a table stands for: the     *)
(* value of the occupied slot holding each key, Missing if none.  The    *)
(* refinement also needs map->size to count the occupied slots (map_get  *)
(* and map_has test it first) and occupied slots to hold a value.        *)
(***************************************************************************)
DictOf(t) ==
    [k \in Keys |->
        LET S == {i \in OccupiedIn(t) : t[i].key = k}
        IN IF S = {} THEN Missing ELSE t[CHOOSE i \in S : TRUE].value]

Valued(t) == \A i \in DOMAIN t : t[i].occupied => t[i].value # Missing

SizeCount == size = Cardinality(OccupiedIn(entries))

RInv == IInv /\ Valued(entries) /\ SizeCount

(* The dictionary maps every key. *)
LEMMA DictDom ==
    ASSUME NEW t
    PROVE  DictOf(t) = [x \in Keys |-> DictOf(t)[x]]
BY DEF DictOf

(* With no duplicate keys, a key held by an occupied slot maps to the   *)
(* value of that slot.                                                   *)
LEMMA DictAt ==
    ASSUME NEW t, NoDup(t), NEW j \in OccupiedIn(t), NEW k \in Keys, t[j].key = k
    PROVE  DictOf(t)[k] = t[j].value
<1>1. {i \in OccupiedIn(t) : t[i].key = k} = {j}
    BY DEF NoDup
<1>. QED
    BY <1>1 DEF DictOf

(* A key held by no occupied slot maps to Missing. *)
LEMMA DictNone ==
    ASSUME NEW t, NEW k \in Keys, Absent(t, k)
    PROVE  DictOf(t)[k] = Missing
BY DEF DictOf, Absent

(* A key held by the same occupied slots, with the same values, in two  *)
(* tables maps to the same value in both.                                *)
LEMMA DictFrame ==
    ASSUME NEW t, NEW t2, NEW k \in Keys,
           {i \in OccupiedIn(t2) : t2[i].key = k} = {i \in OccupiedIn(t) : t[i].key = k},
           \A i \in {i \in OccupiedIn(t) : t[i].key = k} : t2[i].value = t[i].value
    PROVE  DictOf(t2)[k] = DictOf(t)[k]
BY DEF DictOf

HoldsAt(t, r, k) == r \in OccupiedIn(t) /\ t[r].key = k

(***************************************************************************)
(* Writing the occupied pair (k, v) into slot r, which held k or nothing, *)
(* maps k to v and leaves every other key: the store of map_set seen     *)
(* through the dictionary.                                               *)
(***************************************************************************)
LEMMA WriteSlot ==
    ASSUME NEW cap \in Nat, NEW t, NEW t2, Table(t, cap), Table(t2, cap),
           Valued(t), NoDup(t2), NEW k \in Keys, NEW v \in Vals,
           NEW r \in 0..cap - 1, r \notin OccupiedIn(t) \/ HoldsAt(t, r, k),
           t2[r] = [occupied |-> TRUE, key |-> k, value |-> v],
           \A i \in 0..cap - 1 \ {r} : t2[i] = t[i]
    PROVE  /\ OccupiedIn(t2) = OccupiedIn(t) \cup {r}
           /\ Valued(t2)
           /\ DictOf(t2) = [DictOf(t) EXCEPT ![k] = v]
<1>1. DOMAIN t = 0..cap - 1 /\ DOMAIN t2 = 0..cap - 1
    BY DEF Table
<1>2. k # NoKey /\ v # Missing
    BY MapAssumption
<1>3. OccupiedIn(t2) = OccupiedIn(t) \cup {r}
    BY <1>1, <1>2 DEF OccupiedIn
<1>4. Valued(t2)
    BY <1>1, <1>2 DEF Valued
<1>5. DictOf(t2)[k] = v
    <2>1. r \in OccupiedIn(t2) /\ t2[r].key = k /\ t2[r].value = v
        BY <1>3
    <2>. QED
        BY <2>1, DictAt
<1>6. ASSUME NEW k2 \in Keys, k2 # k PROVE DictOf(t2)[k2] = DictOf(t)[k2]
    <2>1. \A i \in OccupiedIn(t) : t[i].key = k2 => i # r
        BY <1>6 DEF HoldsAt
    <2>2. {i \in OccupiedIn(t2) : t2[i].key = k2} = {i \in OccupiedIn(t) : t[i].key = k2}
        <3> SUFFICES ASSUME NEW i
                     PROVE  (i \in OccupiedIn(t2) /\ t2[i].key = k2)
                              <=> (i \in OccupiedIn(t) /\ t[i].key = k2)
            OBVIOUS
        <3>1. CASE i = r
            BY <1>6, <2>1, <3>1 DEF OccupiedIn
        <3>2. CASE i \in 0..cap - 1 \ {r}
            BY <1>3, <3>2
        <3>3. CASE i \notin 0..cap - 1
            BY <1>1, <3>3 DEF OccupiedIn
        <3>. QED
            BY <3>1, <3>2, <3>3
    <2>3. \A i \in {i \in OccupiedIn(t) : t[i].key = k2} : t2[i].value = t[i].value
        BY <1>1, <2>1 DEF OccupiedIn
    <2>. QED
        BY <2>2, <2>3, DictFrame
<1>7. DictOf(t2) = [DictOf(t) EXCEPT ![k] = v]
    <2>1. DictOf(t2) = [x \in Keys |-> DictOf(t2)[x]]
          /\ DictOf(t) = [x \in Keys |-> DictOf(t)[x]]
        BY DictDom
    <2>. QED
        BY <1>5, <1>6, <2>1
<1>. QED
    BY <1>3, <1>4, <1>7

(***************************************************************************)
(* The store of map_set through the dictionary: k maps to v, every other *)
(* key keeps its value, occupied slots hold values, and the occupied     *)
(* slots grow by exactly what size grows by.                              *)
(***************************************************************************)
LEMMA SetIntoDict ==
    ASSUME NEW cap \in Nat \ {0}, NEW ent, NEW sz \in Nat,
           Table(ent, cap), Keyed(ent), NoDup(ent), Chains(ent, cap), Valued(ent),
           hashOf \in [Keys -> Nat], Cardinality(UsedIn(ent)) < cap,
           NEW k \in Keys, NEW v \in Vals, SetInto(ent, cap, sz, k, v)
    PROVE  /\ Valued(entries')
           /\ Cardinality(OccupiedIn(entries')) + sz
                = Cardinality(OccupiedIn(ent)) + size'
           /\ DictOf(entries') = [DictOf(ent) EXCEPT ![k] = v]
<1>1. Table(entries', cap) /\ NoDup(entries')
    BY SetIntoOK
<1>2. IsFiniteSet(OccupiedIn(ent)) /\ Cardinality(OccupiedIn(ent)) \in Nat
    <2>1. OccupiedIn(ent) \in SUBSET (0..cap - 1)
        BY DEF OccupiedIn, Table
    <2>. QED
        BY <2>1, SlotsFinite
<1>3. \A r \in 0..cap - 1 :
        /\ r \notin OccupiedIn(ent) \/ HoldsAt(ent, r, k)
        /\ entries'[r] = [occupied |-> TRUE, key |-> k, value |-> v]
        /\ \A i \in 0..cap - 1 \ {r} : entries'[i] = ent[i]
        => /\ OccupiedIn(entries') = OccupiedIn(ent) \cup {r}
           /\ Valued(entries')
           /\ DictOf(entries') = [DictOf(ent) EXCEPT ![k] = v]
    BY <1>1, WriteSlot
<1>4. CASE \E j \in 0..cap - 1 : j \in OccupiedIn(ent) /\ ent[j].key = k
    <2>1. PICK j \in 0..cap - 1 : j \in OccupiedIn(ent) /\ ent[j].key = k
        BY <1>4
    <2>2. MapFindEntry(ent, cap, k) = j
        BY <2>1, MFEFound
    <2>3. ent[j].occupied /\ HoldsAt(ent, j, k)
        BY <2>1 DEF OccupiedIn, HoldsAt
    <2>4. entries' = [ent EXCEPT ![j].value = v] /\ size' = sz
        BY <2>2, <2>3 DEF SetInto
    <2>5. /\ entries'[j] = [occupied |-> TRUE, key |-> k, value |-> v]
          /\ \A i \in 0..cap - 1 \ {j} : entries'[i] = ent[i]
        BY <2>1, <2>3, <2>4 DEF Table, Slot
    <2>6. OccupiedIn(entries') = OccupiedIn(ent) \cup {j}
          /\ Valued(entries') /\ DictOf(entries') = [DictOf(ent) EXCEPT ![k] = v]
        BY <1>3, <2>3, <2>5
    <2>. QED
        BY <1>2, <2>1, <2>4, <2>6
<1>5. CASE Absent(ent, k)
    <2>1. PICK u \in 0..cap - 1 : u \notin UsedIn(ent)
        BY FreeSlot
    <2>2. PICK r \in 0..cap - 1 :
            /\ r = MapFindEntry(ent, cap, k)
            /\ r \notin OccupiedIn(ent)
            /\ ChainTo(ent, cap, k, r)
        BY <1>5, <2>1, MFEFree
    <2>3. ~ent[r].occupied
        BY <2>2 DEF OccupiedIn, Keyed, Table
    <2>4. entries' = [ent EXCEPT ![r] = [occupied |-> TRUE, key |-> k, value |-> v]]
        BY <2>2, <2>3 DEF SetInto
    <2>5. /\ entries'[r] = [occupied |-> TRUE, key |-> k, value |-> v]
          /\ \A i \in 0..cap - 1 \ {r} : entries'[i] = ent[i]
        BY <2>4 DEF Table
    <2>8. size' = sz + 1
        BY <2>2, <2>3 DEF SetInto
    <2>6. OccupiedIn(entries') = OccupiedIn(ent) \cup {r}
          /\ Valued(entries') /\ DictOf(entries') = [DictOf(ent) EXCEPT ![k] = v]
        BY <1>3, <2>2, <2>5
    <2>7. Cardinality(OccupiedIn(ent) \cup {r}) = Cardinality(OccupiedIn(ent)) + 1
        BY <1>2, <2>2, FS_AddElement
    <2>. QED
        BY <1>2, <2>6, <2>7, <2>8
<1>. QED
    BY <1>4, <1>5, PresentOrAbsent

(* An occupied slot that map_find_entry returns holds the key sought:   *)
(* its other answers are a tombstone and a never-used slot.              *)
LEMMA MFEOcc ==
    ASSUME NEW cap \in Nat \ {0}, NEW t, hashOf \in [Keys -> Nat], NEW k \in Keys,
           NEW i \in 0..cap - 1, i = MapFindEntry(t, cap, k), t[i].occupied
    PROVE  t[i].key = k
<1>1. CASE Match(t, cap, k) # {}
    <2>1. Match(t, cap, k) \in SUBSET Nat
        BY DEF Match
    <2>2. First(Match(t, cap, k)) \in Match(t, cap, k)
        BY <1>1, <2>1, FirstMin
    <2>3. i = (Home(k, cap) + First(Match(t, cap, k))) % cap
        BY <1>1, MFEDef
    <2>. QED
        BY <2>2, <2>3 DEF Match, At
<1>2. CASE Match(t, cap, k) = {} /\ Tomb(t, cap, k) # {}
    <2>1. Tomb(t, cap, k) \in SUBSET Nat
        BY DEF Tomb
    <2>2. First(Tomb(t, cap, k)) \in Tomb(t, cap, k)
        BY <1>2, <2>1, FirstMin
    <2>3. i = (Home(k, cap) + First(Tomb(t, cap, k))) % cap
        BY <1>2, MFEDef
    <2>. QED
        BY <2>2, <2>3 DEF Tomb, At
<1>3. CASE Match(t, cap, k) = {} /\ Tomb(t, cap, k) = {} /\ Unused(t, cap, k) # {}
    <2>1. Stop(t, cap, k) \in Unused(t, cap, k)
        BY <1>3, StopRange
    <2>2. i = (Home(k, cap) + Stop(t, cap, k)) % cap
        BY <1>3, MFEDef
    <2>. QED
        BY <2>1, <2>2 DEF Unused, At
<1>4. CASE Match(t, cap, k) = {} /\ Tomb(t, cap, k) = {} /\ Unused(t, cap, k) = {}
    <2>1. i = NoSlot
        BY <1>4, MFEDef
    <2>. QED
        BY <2>1 DEF NoSlot
<1>. QED
    BY <1>1, <1>2, <1>3, <1>4

(* The rehash of map_grow keeps the dictionary, and occupied slots keep  *)
(* their values: the new occupied slots are copies of the old ones.      *)
LEMMA RehashDict ==
    ASSUME NEW cap \in Nat \ {0}, NEW ent, Table(ent, cap), Valued(ent),
           NoDup(ent), NEW R, RehashInv(ent, 2 * cap, R, cap)
    PROVE  Valued(R) /\ DictOf(R) = DictOf(ent)
<1>1. Visited(ent, cap) = OccupiedIn(ent)
    BY DEF Visited, OccupiedIn, Table
<1>2. /\ Table(R, 2 * cap) /\ Keyed(R) /\ NoDup(R)
      /\ \A x \in OccupiedIn(R) : \E m \in OccupiedIn(ent) : R[x] = ent[m]
      /\ \A m \in OccupiedIn(ent) : \E x \in OccupiedIn(R) : R[x] = ent[m]
    BY <1>1 DEF RehashInv
<1>3. Valued(R)
    <2> SUFFICES ASSUME NEW x \in DOMAIN R, R[x].occupied
                 PROVE  R[x].value # Missing
        BY DEF Valued
    <2>1. x \in OccupiedIn(R)
        BY <1>2 DEF Keyed, OccupiedIn
    <2>2. PICK m \in OccupiedIn(ent) : R[x] = ent[m]
        BY <1>2, <2>1
    <2>. QED
        BY <2>2 DEF Valued, OccupiedIn
<1>4. ASSUME NEW k \in Keys PROVE DictOf(R)[k] = DictOf(ent)[k]
    <2>1. CASE \E m \in OccupiedIn(ent) : ent[m].key = k
        <3>1. PICK m \in OccupiedIn(ent) : ent[m].key = k
            BY <2>1
        <3>2. PICK x \in OccupiedIn(R) : R[x] = ent[m]
            BY <1>2, <3>1
        <3>3. DictOf(ent)[k] = ent[m].value
            BY <3>1, DictAt
        <3>4. DictOf(R)[k] = R[x].value
            BY <1>2, <3>1, <3>2, DictAt
        <3>. QED
            BY <3>2, <3>3, <3>4
    <2>2. CASE Absent(ent, k)
        <3>1. Absent(R, k)
            BY <1>2, <2>2 DEF Absent
        <3>. QED
            BY <2>2, <3>1, DictNone
    <2>. QED
        BY <2>1, <2>2 DEF Absent
<1>5. DictOf(R) = [x \in Keys |-> DictOf(R)[x]]
      /\ DictOf(ent) = [x \in Keys |-> DictOf(ent)[x]]
    BY DictDom
<1>. QED
    BY <1>3, <1>4, <1>5

(* Any table of capacity cap has finitely many occupied slots. *)
LEMMA OccCard ==
    ASSUME NEW cap \in Nat, NEW t, Table(t, cap)
    PROVE  IsFiniteSet(OccupiedIn(t)) /\ Cardinality(OccupiedIn(t)) \in Nat
<1>1. OccupiedIn(t) \in SUBSET (0..cap - 1)
    BY DEF OccupiedIn, Table
<1>. QED
    BY <1>1, SlotsFinite

(* What the refinement invariant says of the current table. *)
LEMMA RInvFacts ==
    ASSUME RInv
    PROVE  /\ IInv /\ capacity \in Nat \ {0} /\ size \in Nat /\ tombstones \in Nat
           /\ Table(entries, capacity) /\ Keyed(entries) /\ NoDup(entries)
           /\ Chains(entries, capacity) /\ Valued(entries)
           /\ hashOf \in [Keys -> Nat]
           /\ IsFiniteSet(OccupiedIn(entries))
           /\ size = Cardinality(OccupiedIn(entries))
<1>1. /\ IInv /\ capacity \in Nat \ {0} /\ size \in Nat /\ tombstones \in Nat
      /\ Table(entries, capacity) /\ Keyed(entries) /\ NoDup(entries)
      /\ Chains(entries, capacity) /\ hashOf \in [Keys -> Nat]
    BY IInvFacts DEF RInv
<1>2. IsFiniteSet(OccupiedIn(entries))
    BY <1>1, OccCard
<1>. QED
    BY <1>1, <1>2 DEF RInv, SizeCount

(***************************************************************************)
(* Turning slot r, which holds k, into a tombstone removes k from the    *)
(* dictionary and leaves every other key: map_remove through the        *)
(* dictionary.                                                            *)
(***************************************************************************)
LEMMA ClearSlot ==
    ASSUME NEW cap \in Nat, NEW t, NEW t2, Table(t, cap), Table(t2, cap),
           Valued(t), NoDup(t), NEW k \in Keys, NEW r \in 0..cap - 1,
           HoldsAt(t, r, k), ~t2[r].occupied,
           \A i \in 0..cap - 1 \ {r} : t2[i] = t[i]
    PROVE  /\ OccupiedIn(t2) = OccupiedIn(t) \ {r}
           /\ Valued(t2)
           /\ DictOf(t2) = [DictOf(t) EXCEPT ![k] = Missing]
<1>1. DOMAIN t = 0..cap - 1 /\ DOMAIN t2 = 0..cap - 1
    BY DEF Table
<1>2. OccupiedIn(t2) = OccupiedIn(t) \ {r}
    BY <1>1 DEF OccupiedIn
<1>3. Valued(t2)
    BY <1>1 DEF Valued
<1>4. DictOf(t2)[k] = Missing
    <2>1. Absent(t2, k)
        <3> SUFFICES ASSUME NEW j \in OccupiedIn(t2), t2[j].key = k PROVE FALSE
            BY DEF Absent
        <3>1. j \in OccupiedIn(t) /\ j # r /\ j \in 0..cap - 1
            BY <1>1, <1>2 DEF OccupiedIn
        <3>2. t2[j] = t[j]
            BY <3>1
        <3>3. r \in OccupiedIn(t) /\ t[r].key = k
            BY DEF HoldsAt
        <3>. QED
            BY <3>1, <3>2, <3>3 DEF NoDup
    <2>. QED
        BY <2>1, DictNone
<1>5. ASSUME NEW k2 \in Keys, k2 # k PROVE DictOf(t2)[k2] = DictOf(t)[k2]
    <2>1. {i \in OccupiedIn(t2) : t2[i].key = k2} = {i \in OccupiedIn(t) : t[i].key = k2}
        BY <1>1, <1>2, <1>5 DEF HoldsAt, OccupiedIn
    <2>2. \A i \in {i \in OccupiedIn(t) : t[i].key = k2} : t2[i].value = t[i].value
        BY <1>1, <1>5 DEF HoldsAt, OccupiedIn
    <2>. QED
        BY <2>1, <2>2, DictFrame
<1>6. DictOf(t2) = [x \in Keys |-> DictOf(t2)[x]]
      /\ DictOf(t) = [x \in Keys |-> DictOf(t)[x]]
    BY DictDom
<1>. QED
    BY <1>2, <1>3, <1>4, <1>5, <1>6

(* map_set without growth sets k to v in the dictionary, and keeps size *)
(* the count of occupied slots, each holding a value.                   *)
LEMMA SetNoGrowRef ==
    ASSUME RInv, NEW k \in Keys, NEW v \in Vals, ~NeedsGrow,
           SetInto(entries, capacity, size, k, v)
    PROVE  /\ Valued(entries') /\ SizeCount'
           /\ DictOf(entries') = [DictOf(entries) EXCEPT ![k] = v]
<1>1. /\ IInv /\ capacity \in Nat \ {0} /\ size \in Nat
      /\ Table(entries, capacity) /\ Keyed(entries) /\ NoDup(entries)
      /\ Chains(entries, capacity) /\ Valued(entries) /\ hashOf \in [Keys -> Nat]
      /\ size = Cardinality(OccupiedIn(entries))
    BY RInvFacts
<1>2. Cardinality(UsedIn(entries)) < capacity
    BY <1>1, NoGrowRoom
<1>3. /\ Valued(entries')
      /\ Cardinality(OccupiedIn(entries')) + size
           = Cardinality(OccupiedIn(entries)) + size'
      /\ DictOf(entries') = [DictOf(entries) EXCEPT ![k] = v]
    BY <1>1, <1>2, SetIntoDict
<1>4. Table(entries', capacity) /\ size' \in {size, size + 1}
    BY <1>1, <1>2, SetIntoOK
<1>5. Cardinality(OccupiedIn(entries')) \in Nat
    BY <1>1, <1>4, OccCard
<1>6. size' = Cardinality(OccupiedIn(entries'))
    BY <1>1, <1>3, <1>4, <1>5
<1>. QED
    BY <1>3, <1>6 DEF SizeCount

(* map_set with growth: the rehash keeps the dictionary, and the store  *)
(* then sets k to v.                                                     *)
LEMMA SetGrowRef ==
    ASSUME RInv, NEW k \in Keys, NEW v \in Vals,
           SetInto(Rehash(entries, capacity, 2 * capacity), 2 * capacity,
                   Cardinality(OccupiedIn(entries)), k, v)
    PROVE  /\ Valued(entries') /\ SizeCount'
           /\ DictOf(entries') = [DictOf(entries) EXCEPT ![k] = v]
<1>1. /\ IInv /\ capacity \in Nat \ {0}
      /\ Table(entries, capacity) /\ NoDup(entries) /\ Valued(entries)
      /\ hashOf \in [Keys -> Nat]
    BY RInvFacts
<1>2. PICK R : R = Rehash(entries, capacity, 2 * capacity)
    OBVIOUS
<1>3. /\ RehashInv(entries, 2 * capacity, R, capacity)
      /\ 2 * capacity \in Nat \ {0}
      /\ Table(R, 2 * capacity) /\ Keyed(R) /\ NoDup(R) /\ Chains(R, 2 * capacity)
      /\ Cardinality(OccupiedIn(entries)) \in Nat
      /\ Cardinality(OccupiedIn(R)) = Cardinality(OccupiedIn(entries))
      /\ Cardinality(UsedIn(R)) < 2 * capacity
    BY <1>1, <1>2, GrowFacts
<1>4. Valued(R) /\ DictOf(R) = DictOf(entries)
    BY <1>1, <1>3, RehashDict
<1>5. SetInto(R, 2 * capacity, Cardinality(OccupiedIn(entries)), k, v)
    BY <1>2
<1>6. /\ Valued(entries')
      /\ Cardinality(OccupiedIn(entries')) + Cardinality(OccupiedIn(entries))
           = Cardinality(OccupiedIn(R)) + size'
      /\ DictOf(entries') = [DictOf(R) EXCEPT ![k] = v]
    BY <1>1, <1>3, <1>4, <1>5, SetIntoDict
<1>7. /\ Table(entries', 2 * capacity)
      /\ size' \in {Cardinality(OccupiedIn(entries)),
                    Cardinality(OccupiedIn(entries)) + 1}
    BY <1>1, <1>3, <1>5, SetIntoOK
<1>8. Cardinality(OccupiedIn(entries')) \in Nat
    BY <1>3, <1>7, OccCard
<1>9. size' = Cardinality(OccupiedIn(entries'))
    BY <1>3, <1>6, <1>7, <1>8
<1>. QED
    BY <1>4, <1>6, <1>9 DEF SizeCount

(* A key held by an occupied slot is found by map_find_entry, and size  *)
(* is then non-zero: the lookup of map_get, map_has and map_remove      *)
(* answers exactly for the keys of the dictionary.                       *)
LEMMA LookupRef ==
    ASSUME RInv, NEW k \in Keys, NEW i, i = MapFindEntry(entries, capacity, k)
    PROVE  /\ (size # 0 /\ i # NoSlot /\ entries[i].occupied) <=> ~Absent(entries, k)
           /\ (size # 0 /\ i # NoSlot /\ entries[i].occupied) =>
                /\ i \in 0..capacity - 1 /\ HoldsAt(entries, i, k)
                /\ DictOf(entries)[k] = entries[i].value
<1>1. /\ capacity \in Nat \ {0} /\ size \in Nat
      /\ Table(entries, capacity) /\ Keyed(entries) /\ NoDup(entries)
      /\ Chains(entries, capacity) /\ hashOf \in [Keys -> Nat]
      /\ IsFiniteSet(OccupiedIn(entries))
      /\ size = Cardinality(OccupiedIn(entries))
    BY RInvFacts
<1>2. ASSUME size # 0, i # NoSlot, entries[i].occupied
      PROVE  /\ i \in 0..capacity - 1 /\ HoldsAt(entries, i, k)
             /\ DictOf(entries)[k] = entries[i].value
    <2>1. i \in 0..capacity - 1
        <3>1. i \in (0..capacity - 1) \cup {NoSlot}
            BY <1>1, MFERange
        <3>. QED
            BY <1>2, <3>1
    <2>2. entries[i].key = k
        BY <1>1, <1>2, <2>1, MFEOcc
    <2>3. HoldsAt(entries, i, k)
        BY <1>1, <1>2, <2>1, <2>2, MapAssumption DEF HoldsAt, OccupiedIn, Table
    <2>4. DictOf(entries)[k] = entries[i].value
        BY <1>1, <2>2, <2>3, DictAt DEF HoldsAt
    <2>. QED
        BY <2>1, <2>3, <2>4
<1>3. ASSUME NEW j \in OccupiedIn(entries), entries[j].key = k
      PROVE  size # 0 /\ i # NoSlot /\ entries[i].occupied
    <2>1. j \in 0..capacity - 1
        BY <1>1 DEF OccupiedIn, Table
    <2>2. i = j
        BY <1>1, <1>3, <2>1, MFEFound
    <2>3. size # 0
        BY <1>1, FS_EmptySet
    <2>. QED
        BY <2>1, <2>2, <2>3 DEF OccupiedIn, NoSlot
<1>. QED
    BY <1>2, <1>3 DEF Absent, HoldsAt

(* map_remove returns the value the key had (NULL if none) and removes  *)
(* it from the dictionary, keeping size the count of occupied slots.     *)
LEMMA RemoveRef ==
    ASSUME RInv, NEW k \in Keys, map_remove(k)
    PROVE  /\ Valued(entries') /\ SizeCount'
           /\ ret' = <<"remove", DictOf(entries)[k]>>
           /\ DictOf(entries') = [DictOf(entries) EXCEPT ![k] = Missing]
<1>1. /\ capacity \in Nat \ {0} /\ size \in Nat
      /\ Table(entries, capacity) /\ NoDup(entries) /\ Valued(entries)
      /\ IsFiniteSet(OccupiedIn(entries))
      /\ size = Cardinality(OccupiedIn(entries))
    BY RInvFacts
<1>2. PICK i : i = MapFindEntry(entries, capacity, k)
    OBVIOUS
<1>3. \/ /\ size = 0 \/ i = NoSlot \/ ~entries[i].occupied
         /\ ret' = <<"remove", Missing>>
         /\ UNCHANGED <<entries, size>>
      \/ /\ size # 0 /\ i # NoSlot /\ entries[i].occupied
         /\ ret' = <<"remove", entries[i].value>>
         /\ entries' = [entries EXCEPT ![i].occupied = FALSE,
                                       ![i].value = Missing]
         /\ size' = size - 1
    BY <1>2 DEF map_remove
<1>4. CASE /\ size = 0 \/ i = NoSlot \/ ~entries[i].occupied
           /\ ret' = <<"remove", Missing>>
           /\ UNCHANGED <<entries, size>>
    <2>1. DictOf(entries)[k] = Missing
        <3>1. Absent(entries, k)
            BY <1>2, <1>4, LookupRef
        <3>. QED
            BY <3>1, DictNone
    <2>2. DictOf(entries) = [x \in Keys |-> DictOf(entries)[x]]
        BY DictDom
    <2>3. DictOf(entries') = [DictOf(entries) EXCEPT ![k] = Missing]
        BY <1>4, <2>1, <2>2
    <2>. QED
        BY <1>1, <1>4, <2>1, <2>3 DEF SizeCount
<1>5. CASE /\ size # 0 /\ i # NoSlot /\ entries[i].occupied
           /\ ret' = <<"remove", entries[i].value>>
           /\ entries' = [entries EXCEPT ![i].occupied = FALSE,
                                         ![i].value = Missing]
           /\ size' = size - 1
    <2>1. /\ i \in 0..capacity - 1 /\ HoldsAt(entries, i, k)
          /\ DictOf(entries)[k] = entries[i].value
        BY <1>2, <1>5, LookupRef
    <2>2. /\ Table(entries', capacity) /\ ~entries'[i].occupied
          /\ \A x \in 0..capacity - 1 \ {i} : entries'[x] = entries[x]
        BY <1>1, <1>5, <2>1, MapAssumption DEF Table, Slot
    <2>3. /\ OccupiedIn(entries') = OccupiedIn(entries) \ {i}
          /\ Valued(entries')
          /\ DictOf(entries') = [DictOf(entries) EXCEPT ![k] = Missing]
        BY <1>1, <2>1, <2>2, ClearSlot
    <2>4. Cardinality(OccupiedIn(entries) \ {i}) = Cardinality(OccupiedIn(entries)) - 1
        BY <1>1, <2>1, FS_RemoveElement DEF HoldsAt
    <2>5. size' = Cardinality(OccupiedIn(entries'))
        BY <1>1, <1>5, <2>3, <2>4
    <2>. QED
        BY <1>5, <2>1, <2>3, <2>5 DEF SizeCount
<1>. QED
    BY <1>3, <1>4, <1>5

(* The refinement mapping is the dictionary of the entry array. *)
LEMMA AbsDictIs ==
    AbsDict = DictOf(entries) /\ AbsDict' = DictOf(entries')
BY DEF AbsDict, DictOf

(* map_get and map_has answer as Get and Has of the dictionary. *)
LEMMA ReadRef ==
    ASSUME RInv, NEW k \in Keys
    PROVE  /\ map_get(k) => Abs!Get(k)
           /\ map_has(k) => Abs!Has(k)
<1>1. PICK i : i = MapFindEntry(entries, capacity, k)
    OBVIOUS
<1>2. /\ (size # 0 /\ i # NoSlot /\ entries[i].occupied) <=> ~Absent(entries, k)
      /\ (size # 0 /\ i # NoSlot /\ entries[i].occupied) =>
           /\ i \in 0..capacity - 1 /\ HoldsAt(entries, i, k)
           /\ DictOf(entries)[k] = entries[i].value
    BY <1>1, LookupRef
<1>3. Table(entries, capacity) /\ Valued(entries)
    BY RInvFacts
<1>4. (size # 0 /\ i # NoSlot /\ entries[i].occupied) => DictOf(entries)[k] # Missing
    BY <1>2, <1>3 DEF Valued, Table
<1>5. ~(size # 0 /\ i # NoSlot /\ entries[i].occupied) => DictOf(entries)[k] = Missing
    BY <1>2, DictNone
<1>6. ASSUME map_get(k) PROVE Abs!Get(k)
    <2>1. /\ ret' = <<"get", IF size # 0 /\ i # NoSlot /\ entries[i].occupied
                             THEN entries[i].value ELSE Missing>>
          /\ entries' = entries
        BY <1>1, <1>6 DEF map_get
    <2>. QED
        BY <1>2, <1>5, <2>1, AbsDictIs DEF Abs!Get
<1>7. ASSUME map_has(k) PROVE Abs!Has(k)
    <2>1. /\ ret' = <<"has", size # 0 /\ i # NoSlot /\ entries[i].occupied>>
          /\ entries' = entries
        BY <1>1, <1>7 DEF map_has
    <2>. QED
        BY <1>4, <1>5, <2>1, AbsDictIs DEF Abs!Has
<1>. QED
    BY <1>6, <1>7

(* map_iterate visits exactly the pairs of the dictionary. *)
LEMMA IterateRef ==
    ASSUME RInv, map_iterate
    PROVE  Abs!Iterate
<1>1. Table(entries, capacity) /\ NoDup(entries) /\ Valued(entries)
    BY RInvFacts
<1>2. {<<entries[i].key, entries[i].value>> : i \in OccupiedIn(entries)}
        = {<<k, DictOf(entries)[k]>> :
             k \in {x \in Keys : DictOf(entries)[x] # Missing}}
    <2>1. ASSUME NEW i \in OccupiedIn(entries)
          PROVE  \E k \in {x \in Keys : DictOf(entries)[x] # Missing} :
                   <<entries[i].key, entries[i].value>> = <<k, DictOf(entries)[k]>>
        <3>1. entries[i].key \in Keys /\ entries[i].value # Missing
            BY <1>1 DEF OccupiedIn, Table, Slot, Valued
        <3>2. DictOf(entries)[entries[i].key] = entries[i].value
            BY <1>1, <3>1, DictAt
        <3>3. entries[i].key \in {x \in Keys : DictOf(entries)[x] # Missing}
            BY <3>1, <3>2
        <3>. USE <3>2, <3>3
        <3>. WITNESS entries[i].key \in {x \in Keys : DictOf(entries)[x] # Missing}
        <3>. QED
            OBVIOUS
    <2>2. ASSUME NEW k \in Keys, DictOf(entries)[k] # Missing
          PROVE  \E i \in OccupiedIn(entries) :
                   <<k, DictOf(entries)[k]>> = <<entries[i].key, entries[i].value>>
        <3>1. ~Absent(entries, k)
            BY <2>2, DictNone
        <3>2. PICK j \in OccupiedIn(entries) : entries[j].key = k
            BY <3>1 DEF Absent
        <3>3. DictOf(entries)[k] = entries[j].value
            BY <1>1, <3>2, DictAt
        <3>. QED
            BY <3>2, <3>3
    <2>. QED
        BY <2>1, <2>2
<1>3. /\ ret' = <<"iterate", {<<entries[i].key, entries[i].value>> :
                              i \in OccupiedIn(entries)}>>
      /\ entries' = entries
    BY DEF map_iterate
<1>. QED
    BY <1>2, <1>3, AbsDictIs DEF Abs!Iterate

(* map_clear empties the dictionary. *)
LEMMA ClearRef ==
    ASSUME RInv, map_clear
    PROVE  Valued(entries') /\ SizeCount' /\ Abs!Clear
<1>1. capacity \in Nat
    BY RInvFacts
<1>2. entries' = [i \in 0..capacity - 1 |-> EmptySlot]
    BY DEF map_clear
<1>3. size' = 0 /\ ret' = <<"clear", "ok">>
    BY DEF map_clear
<1>4. /\ OccupiedIn([i \in 0..capacity - 1 |-> EmptySlot]) = {}
      /\ Valued([i \in 0..capacity - 1 |-> EmptySlot])
    BY <1>1, EmptyOK DEF Valued, EmptySlot
<1>5. OccupiedIn(entries') = {} /\ Valued(entries')
    BY <1>2, <1>4
<1>6. DictOf(entries') = [k \in Keys |-> Missing]
    BY <1>5 DEF DictOf
<1>7. Cardinality({}) = 0
    BY FS_EmptySet
<1>. QED
    BY <1>3, <1>5, <1>6, <1>7, AbsDictIs DEF SizeCount, Abs!Clear

(* map_create's table stands for the empty dictionary, with size 0. *)
LEMMA RefInit ==
    Init => RInv /\ Abs!Init
<1> SUFFICES ASSUME Init PROVE RInv /\ Abs!Init
    OBVIOUS
<1>1. IInv
    BY IInvInit
<1>2. capacity \in Nat
    BY <1>1, IInvFacts
<1>3. entries = [i \in 0..capacity - 1 |-> EmptySlot]
    BY DEF Init
<1>4. /\ OccupiedIn([i \in 0..capacity - 1 |-> EmptySlot]) = {}
      /\ Valued([i \in 0..capacity - 1 |-> EmptySlot])
    BY <1>2, EmptyOK DEF Valued, EmptySlot
<1>5. OccupiedIn(entries) = {} /\ Valued(entries)
    BY <1>3, <1>4
<1>6. size = 0 /\ ret = <<"none", "none">>
    BY DEF Init
<1>7. DictOf(entries) = [k \in Keys |-> Missing]
    BY <1>5 DEF DictOf
<1>8. Cardinality({}) = 0
    BY FS_EmptySet
<1>. QED
    BY <1>1, <1>5, <1>6, <1>7, <1>8, AbsDictIs DEF RInv, SizeCount, Abs!Init

(* Every call of the map API is the abstract call with the same result,  *)
(* or leaves the dictionary and the result unchanged; and it keeps the  *)
(* refinement invariant.                                                 *)
LEMMA RefineStep ==
    RInv /\ [Next]_vars => RInv' /\ [Abs!Next]_<<AbsDict, ret>>
<1> SUFFICES ASSUME RInv, [Next]_vars
             PROVE  RInv' /\ [Abs!Next]_<<AbsDict, ret>>
    OBVIOUS
<1>1. IInv'
    BY IInvStep DEF RInv
<1> SUFFICES /\ Valued(entries') /\ SizeCount'
             /\ [Abs!Next]_<<AbsDict, ret>>
    BY <1>1 DEF RInv, Valued
<1>2. ASSUME NEW k \in Keys, NEW v \in Vals, map_set(k, v)
      PROVE  /\ Valued(entries') /\ SizeCount'
             /\ [Abs!Next]_<<AbsDict, ret>>
    <2>1. ret' = <<"set", "ok">>
        BY <1>2 DEF map_set, SetInto
    <2>2. CASE ~NeedsGrow /\ SetInto(entries, capacity, size, k, v)
        <3>1. /\ Valued(entries') /\ SizeCount'
              /\ DictOf(entries') = [DictOf(entries) EXCEPT ![k] = v]
            BY <2>2, SetNoGrowRef
        <3>2. Abs!Set(k, v)
            BY <2>1, <3>1, AbsDictIs DEF Abs!Set
        <3>. QED
            BY <3>1, <3>2 DEF Abs!Next
    <2>3. CASE SetInto(Rehash(entries, capacity, 2 * capacity), 2 * capacity,
                       Cardinality(OccupiedIn(entries)), k, v)
        <3>1. /\ Valued(entries') /\ SizeCount'
              /\ DictOf(entries') = [DictOf(entries) EXCEPT ![k] = v]
            BY <2>3, SetGrowRef
        <3>2. Abs!Set(k, v)
            BY <2>1, <3>1, AbsDictIs DEF Abs!Set
        <3>. QED
            BY <3>1, <3>2 DEF Abs!Next
    <2>. QED
        BY <1>2, <2>2, <2>3 DEF map_set
<1>3. ASSUME NEW k \in Keys, map_get(k) \/ map_has(k)
      PROVE  /\ Valued(entries') /\ SizeCount'
             /\ [Abs!Next]_<<AbsDict, ret>>
    <2>1. entries' = entries /\ size' = size
        BY <1>3 DEF map_get, map_has
    <2>2. Abs!Get(k) \/ Abs!Has(k)
        BY <1>3, ReadRef
    <2>. QED
        BY <2>1, <2>2 DEF RInv, Valued, SizeCount, Abs!Next
<1>4. ASSUME NEW k \in Keys, map_remove(k)
      PROVE  /\ Valued(entries') /\ SizeCount'
             /\ [Abs!Next]_<<AbsDict, ret>>
    <2>1. /\ Valued(entries') /\ SizeCount'
          /\ ret' = <<"remove", DictOf(entries)[k]>>
          /\ DictOf(entries') = [DictOf(entries) EXCEPT ![k] = Missing]
        BY <1>4, RemoveRef
    <2>2. Abs!Remove(k)
        BY <2>1, AbsDictIs DEF Abs!Remove
    <2>. QED
        BY <2>1, <2>2 DEF Abs!Next
<1>5. CASE map_iterate
    <2>1. entries' = entries /\ size' = size
        BY <1>5 DEF map_iterate
    <2>2. Abs!Iterate
        BY <1>5, IterateRef
    <2>. QED
        BY <2>1, <2>2 DEF RInv, Valued, SizeCount, Abs!Next
<1>6. CASE map_clear
    <2>1. Valued(entries') /\ SizeCount' /\ Abs!Clear
        BY <1>6, ClearRef
    <2>. QED
        BY <2>1 DEF Abs!Next
<1>7. CASE UNCHANGED vars
    <2>1. entries' = entries /\ size' = size /\ ret' = ret
        BY <1>7 DEF vars
    <2>2. AbsDict' = AbsDict
        BY <2>1, AbsDictIs
    <2>. QED
        BY <2>1, <2>2 DEF RInv, Valued, SizeCount
<1>. QED
    BY <1>2, <1>3, <1>4, <1>5, <1>6, <1>7 DEF Next

(* The hash table implements the dictionary of AbstractMap: every call, *)
(* across growth, tombstones and their reuse by map_set, and any pattern *)
(* of hash collisions, returns what the abstract call returns and       *)
(* changes the dictionary as it does.                                    *)
THEOREM MapRefinement == Spec => AbstractMapSpec
<1>1. Init => RInv /\ Abs!Init
    BY RefInit
<1>2. RInv /\ [Next]_vars => RInv' /\ [Abs!Next]_<<AbsDict, ret>>
    BY RefineStep
<1>. QED
    BY <1>1, <1>2, PTL DEF Spec, AbstractMapSpec, Abs!Spec

=============================================================================
