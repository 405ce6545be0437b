------------------------- MODULE MCTreeValidation -------------------------
(* Two entry names and two contents; the directory may be edited twice, *)
(* the fewest edits that exchange the contents of two files.            *)
EXTENDS TreeValidation

CONSTANTS a, b, X, Y, unreadable, missing, notrace
=============================================================================
