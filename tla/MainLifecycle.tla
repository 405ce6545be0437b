---------------------------- MODULE MainLifecycle ----------------------------
(***************************************************************************)
(* The ownership of the heap objects main() creates (src/src/main.c,      *)
(* steps 1 to 9), with scheduler_create and scheduler_free                *)
(* (src/src/trace.h) which own some of them.  Each step is one action;    *)
(* a step that can fail in the code has a failing branch that jumps to   *)
(* cleanup with the code's exit code.  The build itself (scheduler_build *)
(* and scheduler_run, the Scheduler module) is abstracted to its three   *)
(* outcomes.  rebuild_malloc and rebuild_calloc exit on failure, so      *)
(* tool_manager_create and target_registry_create never return NULL.     *)
(***************************************************************************)
EXTENDS Naturals

CONSTANTS
    Storage,      \* the Storage of storage_init
    ToolsMain,    \* the ToolManager main() creates (step 2)
    ToolsSched,   \* the ToolManager scheduler_create creates
    Sched,        \* the Scheduler
    BuildFile,    \* the path string find_build_file returns
    Umka,         \* the UMKA instance of umka_load_script
    Registry,     \* the TargetRegistry
    Null          \* NULL

Objs == {Storage, ToolsMain, ToolsSched, Sched, BuildFile, Umka, Registry}

(* Null is none of the objects; the model values of MCMainLifecycle     *)
(* are distinct.                                                          *)

VARIABLES
    pc,             \* the step main() is at
    allocated,      \* the objects created so far
    frees,          \* how many times each object has been freed (capped at 2)
    schedTools,     \* sched->tools
    schedRegistry,  \* sched->registry
    exitCode        \* exit_code

vars == <<pc, allocated, frees, schedTools, schedRegistry, exitCode>>

Steps == {"storage", "tools", "scheduler", "build_file", "load", "register",
          "build", "cleanup", "done"}

TypeOK ==
    /\ pc \in Steps
    /\ allocated \subseteq Objs
    /\ frees \in [Objs -> 0..2]
    /\ schedTools \in {ToolsSched, ToolsMain, Null}
    /\ schedRegistry \in {Registry, Null}
    /\ exitCode \in {"OK", "IO", "MEMORY", "PARSE", "EXEC", "BUILD"}

Init ==
    /\ pc = "storage"
    /\ allocated = {}
    /\ frees = [o \in Objs |-> 0]
    /\ schedTools = Null
    /\ schedRegistry = Null
    /\ exitCode = "OK"

(* A step that fails: exit_code = code; goto cleanup. *)
Fail(code) ==
    /\ pc' = "cleanup"
    /\ exitCode' = code
    /\ UNCHANGED <<allocated, frees, schedTools, schedRegistry>>

(* A step that succeeds, creating the objects in new. *)
Succeed(new, next) ==
    /\ pc' = next
    /\ allocated' = allocated \cup new
    /\ UNCHANGED <<frees, exitCode>>

(* Step 1: storage_init, which fails when a directory cannot be made. *)
main_storage_init ==
    /\ pc = "storage"
    /\ \/ Fail("IO")
       \/ Succeed({Storage}, "tools") /\ UNCHANGED <<schedTools, schedRegistry>>

(* Steps 2 and 3: tool_manager_create and umka_bridge_init, which       *)
(* cannot fail.                                                          *)
main_tool_manager_create ==
    /\ pc = "tools"
    /\ Succeed({ToolsMain}, "scheduler")
    /\ UNCHANGED <<schedTools, schedRegistry>>

(* Step 4: scheduler_create, which fails when uv_default_loop does and  *)
(* else makes its own tool manager; then scheduler->tools = tool_mgr.   *)
main_scheduler_create ==
    /\ pc = "scheduler"
    /\ \/ Fail("MEMORY")
       \/ /\ Succeed({Sched, ToolsSched}, "build_file")
          /\ schedTools' = ToolsMain
          /\ UNCHANGED schedRegistry

(* Step 5: find_build_file, which fails when no BUILD.um is found. *)
main_find_build_file ==
    /\ pc = "build_file"
    /\ \/ Fail("IO")
       \/ Succeed({BuildFile}, "load") /\ UNCHANGED <<schedTools, schedRegistry>>

(* umka_load_script, which fails on a script that does not compile;     *)
(* scheduler->umka = umka.                                              *)
main_load_script ==
    /\ pc = "load"
    /\ \/ Fail("PARSE")
       \/ Succeed({Umka}, "register") /\ UNCHANGED <<schedTools, schedRegistry>>

(* target_registry_create, then register_targets() looked up and       *)
(* called; only when both succeed is scheduler->registry = registry.    *)
main_register_targets ==
    /\ pc = "register"
    /\ allocated' = allocated \cup {Registry}
    /\ \/ pc' = "cleanup" /\ exitCode' = "PARSE" /\ UNCHANGED schedRegistry
       \/ pc' = "cleanup" /\ exitCode' = "EXEC" /\ UNCHANGED schedRegistry
       \/ pc' = "build" /\ schedRegistry' = Registry /\ UNCHANGED exitCode
    /\ UNCHANGED <<frees, schedTools>>

(* Steps 7 and 8: scheduler_build and scheduler_run fail or succeed. *)
main_build ==
    /\ pc = "build"
    /\ pc' = "cleanup"
    /\ exitCode' \in {"OK", "BUILD"}
    /\ UNCHANGED <<allocated, frees, schedTools, schedRegistry>>

(* The objects one call of scheduler_free releases. *)
SchedulerFrees ==
    {schedTools, Sched} \cup (IF schedRegistry = Null THEN {} ELSE {Registry})

(***************************************************************************)
(* Step 9, cleanup: free the build file path, scheduler_free (its tool    *)
(* manager, its registry, itself), tool_manager_free(tool_mgr), and      *)
(* storage_free, each when main()'s pointer is not NULL.                 *)
(***************************************************************************)
main_cleanup ==
    LET Count(o) ==
          (IF o = BuildFile /\ BuildFile \in allocated THEN 1 ELSE 0)
          + (IF Sched \in allocated /\ o \in SchedulerFrees THEN 1 ELSE 0)
          + (IF o = ToolsMain /\ ToolsMain \in allocated THEN 1 ELSE 0)
          + (IF o = Storage /\ Storage \in allocated THEN 1 ELSE 0)
    IN /\ pc = "cleanup"
       /\ pc' = "done"
       /\ frees' = [o \in Objs |-> IF frees[o] + Count(o) > 2 THEN 2
                                   ELSE frees[o] + Count(o)]
       /\ UNCHANGED <<allocated, schedTools, schedRegistry, exitCode>>

(* main() has returned. *)
Terminated == pc = "done" /\ UNCHANGED vars

Next ==
    \/ main_storage_init \/ main_tool_manager_create \/ main_scheduler_create
    \/ main_find_build_file \/ main_load_script \/ main_register_targets
    \/ main_build \/ main_cleanup \/ Terminated

Spec == Init /\ [][Next]_vars

-----------------------------------------------------------------------------
(* No object is freed twice: cleanup releases each object main() or the *)
(* scheduler owns once, on every path through main(), failing or not.  *)
NoDoubleFree == \A o \in Objs : frees[o] <= 1

=============================================================================
