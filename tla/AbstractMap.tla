----------------------------- MODULE AbstractMap -----------------------------
(***************************************************************************)
(* What the string-keyed Map of src/src/map.c (and the Set of the same     *)
(* design) promises its callers: a finite function from keys to values,   *)
(* with Missing standing for "no entry" (the NULL that map_get returns).  *)
(* ret is the last call and its result: <<"get", the value read>>,     *)
(* <<"has", whether the key is present>>, <<"iterate", the entries      *)
(* visited>>, or "ok" for a call that returns an error code or nothing.  *)
(***************************************************************************)
CONSTANTS Keys, Vals, Missing

VARIABLES dict, ret

Init ==
    /\ dict = [k \in Keys |-> Missing]
    /\ ret = <<"none", "none">>

(* Insert or overwrite. *)
Set(k, v) ==
    /\ dict' = [dict EXCEPT ![k] = v]
    /\ ret' = <<"set", "ok">>

(* Read the value of a key, Missing if absent. *)
Get(k) ==
    /\ ret' = <<"get", dict[k]>>
    /\ UNCHANGED dict

(* Whether a key is present. *)
Has(k) ==
    /\ ret' = <<"has", dict[k] # Missing>>
    /\ UNCHANGED dict

(* Remove a key, returning the value it had (Missing if none). *)
Remove(k) ==
    /\ ret' = <<"remove", dict[k]>>
    /\ dict' = [dict EXCEPT ![k] = Missing]

(* Visit every present entry once. *)
Iterate ==
    /\ ret' = <<"iterate", {<<k, dict[k]>> : k \in {x \in Keys : dict[x] # Missing}}>>
    /\ UNCHANGED dict

(* Drop every entry. *)
Clear ==
    /\ dict' = [k \in Keys |-> Missing]
    /\ ret' = <<"clear", "ok">>

Next ==
    \/ \E k \in Keys, v \in Vals : Set(k, v)
    \/ \E k \in Keys : Get(k) \/ Has(k) \/ Remove(k)
    \/ Iterate
    \/ Clear

Spec == Init /\ [][Next]_<<dict, ret>>

=============================================================================
