--------------------------- MODULE MCCrossBuild ---------------------------
(* Two edits and five invocations: enough for a build, an edit, a crash *)
(* and the invocations after each.                                      *)
EXTENDS CrossBuild
=============================================================================
