----------------------------- MODULE MCMapTable -----------------------------
(* Three keys and two values in a table created with capacity 4, as the  *)
(* tests of part_004 do, and grown to 8.  Hash values 0..3 give every     *)
(* collision and wrap-around pattern at capacity 4, and clusters at 8.   *)
EXTENDS MapTable, TLC

CONSTANTS k1, k2, k3, v1, v2, nokey, missing

MCKeys == {k1, k2, k3}
MCVals == {v1, v2}
MCSymmetry == Permutations(MCKeys) \cup Permutations(MCVals)
=============================================================================
