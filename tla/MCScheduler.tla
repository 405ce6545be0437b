---------------------------- MODULE MCScheduler ----------------------------
(***************************************************************************)
(* Scheduler on three targets and one source path.  Each target function  *)
(* makes at most two distinct host calls, which gives every dependency    *)
(* shape on three targets the run must meet: chains, a diamond's shared   *)
(* dependency requested twice while Pending, self- and mutual             *)
(* dependencies, register_dep mixed with depend_on.                       *)
(***************************************************************************)
EXTENDS Scheduler

CONSTANTS a, b, c, p, zero, none

MCTargets == {a, b, c}
MCPaths == {p}

(* Host-call sequences of length at most two, without repeats. *)
MCScriptSet ==
    {<<>>} \cup {<<x>> : x \in Calls}
           \cup {<<x, y>> \in Calls \X Calls : x # y}

=============================================================================
