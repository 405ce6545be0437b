----------------------------- MODULE AbstractSet -----------------------------
(***************************************************************************)
(* What the string Set of src/set.h promises: each Set object is a finite *)
(* set of strings.  members[s] is the content of the object s; ret is the *)
(* last call and its result, <<op, result>>.                               *)
(***************************************************************************)
CONSTANTS SetIds, Elems

VARIABLES members, ret

Init ==
    /\ members = [s \in SetIds |-> {}]
    /\ ret = <<"none", "none">>

(* Add a string (a no-op when present). *)
Add(s, x) ==
    /\ members' = [members EXCEPT ![s] = @ \cup {x}]
    /\ ret' = <<"add", "ok">>

(* Membership. *)
Has(s, x) ==
    /\ ret' = <<"has", x \in members[s]>>
    /\ UNCHANGED members

(* Remove a string, saying whether it was there. *)
Remove(s, x) ==
    /\ ret' = <<"remove", x \in members[s]>>
    /\ members' = [members EXCEPT ![s] = @ \ {x}]

(* Visit every member once. *)
Iterate(s) ==
    /\ ret' = <<"iterate", members[s]>>
    /\ UNCHANGED members

(* Drop every member. *)
Clear(s) ==
    /\ members' = [members EXCEPT ![s] = {}]
    /\ ret' = <<"clear", "ok">>

(* d becomes a new object with the members of s. *)
Copy(d, s) ==
    /\ members' = [members EXCEPT ![d] = members[s]]
    /\ ret' = <<"copy", "ok">>

(* Add every member of o to s. *)
Union(s, o) ==
    /\ members' = [members EXCEPT ![s] = @ \cup members[o]]
    /\ ret' = <<"union", "ok">>

(* Whether o is a subset of s. *)
ContainsAll(s, o) ==
    /\ ret' = <<"contains_all", members[o] \subseteq members[s]>>
    /\ UNCHANGED members

Next ==
    \/ \E s \in SetIds, x \in Elems : Add(s, x) \/ Has(s, x) \/ Remove(s, x)
    \/ \E s \in SetIds : Iterate(s) \/ Clear(s)
    \/ \E s, o \in SetIds : s # o /\ (Copy(s, o) \/ Union(s, o) \/ ContainsAll(s, o))

Spec == Init /\ [][Next]_<<members, ret>>

=============================================================================
