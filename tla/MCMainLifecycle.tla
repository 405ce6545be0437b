------------------------- MODULE MCMainLifecycle -------------------------
(* The heap objects of one invocation of main(), as model values. *)
EXTENDS MainLifecycle

CONSTANTS storage, toolsMain, toolsSched, sched, buildFile, umka, registry, null
=============================================================================
