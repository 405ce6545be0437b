----------------------------- MODULE MCSetTable -----------------------------
(* Two Set objects over two strings, created with capacity 4 as the     *)
(* tests of part_004 do (set_create(4)).  Two strings and one tombstone  *)
(* make a table grow to 8, inside set_union and set_copy as well.        *)
EXTENDS SetTable, TLC

CONSTANTS s1, s2, e1, e2, noelem

MCSetIds == {s1, s2}
MCElems == {e1, e2}
MCSymmetry == Permutations(MCSetIds) \cup Permutations(MCElems)
=============================================================================
