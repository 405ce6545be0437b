------------------------------ MODULE Scheduler ------------------------------
(***************************************************************************)
(* One invocation of the rebuild binary: main() calls scheduler_build on   *)
(* the target named on the command line and then scheduler_run again      *)
(* (src/src/main.c).  The scheduler (scheduler.c, concatenated into       *)
(* src/src/trace.h) keeps a ready queue, a waiters map and a completed     *)
(* map; each recipe runs its UMKA target function as a "fiber".           *)
(*                                                                         *)
(* The fiber is umkaCall: it runs to completion inside one call of         *)
(* scheduler_execute_recipe.  A depend_on that meets a pending dependency *)
(* marks the caller Suspended, queues the dependency and returns NULL to  *)
(* the script, which keeps running.  The model keeps that control: the    *)
(* fiber is the sequence of host calls of its script, taken one at a time *)
(* while `cur` names the executing recipe, and it ends in                 *)
(* scheduler_on_recipe_complete.                                          *)
(*                                                                         *)
(* Data abstraction: a target name is a model value; the request key      *)
(* hash_data(name) is the target itself (BLAKE2b taken as injective) and  *)
(* the all-zero key of a never-probed recipe is ZeroKey; a trace file is  *)
(* "absent", "partial" (a truncated file, which trace_load rejects) or    *)
(* "full".  The traces this code writes have no dependencies (the loop    *)
(* that should add them is a TODO), so trace_validate of a full trace is  *)
(* TRUE.  A recipe that is not yet in the recipes map behaves as the      *)
(* Pending recipe scheduler_get_recipe would create.                      *)
(***************************************************************************)
EXTENDS Integers, Sequences

CONSTANTS
    Targets,          \* target names
    Paths,            \* file paths a script may pass to register_dep
    Top,              \* the target named on the command line
    ZeroKey,          \* the all-zero request key of a recipe never probed
    None,             \* no recipe / no target
    ScriptSet,        \* the host-call sequences a target function may make
    CallbacksWired    \* TRUE iff umka_bridge_set_callbacks installed
                      \* scheduler_on_depend_request as the depend_on hook

(* A host call of a script: depend_on(target) or register_dep(path). *)
DependCall(t) == [op |-> "depend_on", arg |-> t]
RegisterCall(p) == [op |-> "register_dep", arg |-> p]
Calls == {DependCall(t) : t \in Targets} \cup {RegisterCall(p) : p \in Paths}

(* Bound on the per-target execution counter (it saturates there). *)
MaxCount == 2

ASSUME TargetsAssumption == Top \in Targets /\ None \notin Targets
ASSUME KeyAssumption == ZeroKey \notin Targets
ASSUME ScriptAssumption == ScriptSet \subseteq Seq(Calls)
ASSUME WiredAssumption == CallbacksWired \in BOOLEAN

Keys == Targets \cup {ZeroKey}
States == {"Pending", "Running", "Suspended", "Complete", "Failed"}
TraceFile == {"absent", "partial", "full"}
Phases == {"build", "run1", "run2", "done"}

VARIABLES
    script,       \* script[t]: the host calls of t's target function (BUILD.um)
    throws,       \* the targets whose function raises an error after its calls
    state,        \* recipe->state
    requestKey,   \* recipe->request_key
    declared,     \* recipe->declared_deps
    pending,      \* recipe->pending_deps
    queue,        \* sched->ready_queue
    waiting,      \* sched->waiting: target -> waiter list (head first)
    completed,    \* the keys of sched->completed
    failed,       \* sched->failed
    targetError,  \* sched->target_error
    cur,          \* the recipe whose fiber is executing (UmkaContext)
    pc,           \* the number of host calls cur's fiber has made
    store,        \* trace file on disk per request key
    traceWrites,  \* history: trace_save calls per request key in this run
    execCount,    \* history: scheduler_execute_recipe calls per target
    phase,        \* where main() is
    exitCode      \* main()'s result

vars == <<script, throws, state, requestKey, declared, pending, queue, waiting,
          completed, failed, targetError, cur, pc, store, traceWrites,
          execCount, phase, exitCode>>

TypeOK ==
    /\ script \in [Targets -> ScriptSet]
    /\ throws \subseteq Targets
    /\ state \in [Targets -> States]
    /\ requestKey \in [Targets -> Keys]
    /\ declared \in [Targets -> SUBSET (Targets \cup Paths)]
    /\ pending \in [Targets -> SUBSET (Targets \cup Paths)]
    /\ queue \in Seq(Targets)
    /\ waiting \in [Targets -> Seq(Targets)]
    /\ completed \subseteq Targets
    /\ failed \in BOOLEAN
    /\ targetError \in Targets \cup {None}
    /\ cur \in Targets \cup {None}
    /\ pc \in [Targets -> Nat]
    /\ store \in [Keys -> TraceFile]
    /\ traceWrites \in [Keys -> 0..MaxCount]
    /\ execCount \in [Targets -> 0..MaxCount]
    /\ phase \in Phases
    /\ exitCode \in {"none", "ok", "exec"}

(* Saturating increment of a history counter. *)
Bump(f, x) == [f EXCEPT ![x] = IF @ < MaxCount THEN @ + 1 ELSE MaxCount]

(* The elements of a sequence. *)
Elems(s) == {s[i] : i \in 1..Len(s)}

(***************************************************************************)
(* Initial state: a fresh process with any BUILD.um (scripts and which    *)
(* functions raise) and any prior trace file for the top target's key,    *)
(* the only key trace_load ever reads.                                    *)
(***************************************************************************)
Init ==
    /\ script \in [Targets -> ScriptSet]
    /\ throws \in SUBSET Targets
    /\ state = [t \in Targets |-> "Pending"]
    /\ requestKey = [t \in Targets |-> ZeroKey]
    /\ declared = [t \in Targets |-> {}]
    /\ pending = [t \in Targets |-> {}]
    /\ queue = <<>>
    /\ waiting = [t \in Targets |-> <<>>]
    /\ completed = {}
    /\ failed = FALSE
    /\ targetError = None
    /\ cur = None
    /\ pc = [t \in Targets |-> 0]
    /\ \E f \in TraceFile :
          store = [k \in Keys |-> IF k = Top THEN f ELSE "absent"]
    /\ traceWrites = [k \in Keys |-> 0]
    /\ execCount = [t \in Targets |-> 0]
    /\ phase = "build"
    /\ exitCode = "none"

(* trace_load(key) returns a trace only for a complete file: a missing   *)
(* file or one cut short fails a read_all and gives NULL.                 *)
trace_load(k) == store[k] = "full"

(* The files trace_save(key) may leave: the whole trace, a truncated one  *)
(* (fopen "wb" succeeded and a later write_all failed), or the old file   *)
(* (the path or the fopen failed).                                        *)
trace_save(k) == {"full", "partial", store[k]}

(* scheduler_check_cache: a loaded trace validates, as it has no deps. *)
scheduler_check_cache == trace_load(Top)

(***************************************************************************)
(* scheduler_build(Top) with scheduler_check_cache: the request key is    *)
(* hash_data(target name); a full trace validates (it has no deps), so    *)
(* the target is marked Complete and published; otherwise it is queued   *)
(* and scheduler_run starts ("run1").  On a hit main() goes on to its own *)
(* scheduler_run ("run2").                                                *)
(***************************************************************************)
scheduler_build ==
    /\ phase = "build"
    /\ requestKey' = [requestKey EXCEPT ![Top] = Top]
    /\ \/ /\ scheduler_check_cache
          /\ state' = [state EXCEPT ![Top] = "Complete"]
          /\ completed' = completed \cup {Top}
          /\ phase' = "run2"
          /\ UNCHANGED queue
       \/ /\ ~scheduler_check_cache
          /\ queue' = Append(queue, Top)
          /\ phase' = "run1"
          /\ UNCHANGED <<state, completed>>
    /\ UNCHANGED <<script, throws, declared, pending, waiting, failed,
                   targetError, cur, pc, store, traceWrites, execCount,
                   exitCode>>

(***************************************************************************)
(* scheduler_run: the loop ends when the queue is empty or a failure is   *)
(* recorded.  A failure ends run1 with REBUILD_ERROR_EXEC, which main()   *)
(* reports as its exit code; otherwise main() calls scheduler_run again.  *)
(***************************************************************************)
scheduler_run_exit ==
    /\ phase \in {"run1", "run2"}
    /\ cur = None
    /\ queue = <<>> \/ failed
    /\ phase' = IF phase = "run1" /\ ~failed THEN "run2" ELSE "done"
    /\ exitCode' = IF failed THEN "exec"
                   ELSE IF phase = "run2" THEN "ok" ELSE "none"
    /\ UNCHANGED <<script, throws, state, requestKey, declared, pending, queue,
                   waiting, completed, failed, targetError, cur, pc, store,
                   traceWrites, execCount>>

(* Mutant: the loop body forgets to pop the skipped recipe. *)
run_skip_without_pop ==
    /\ phase \in {"run1", "run2"}
    /\ cur = None
    /\ queue # <<>>
    /\ ~failed
    /\ state[Head(queue)] = "Complete"
    /\ UNCHANGED vars

(* A loop iteration that pops a Complete recipe and skips it. *)
scheduler_run_skip ==
    /\ phase \in {"run1", "run2"}
    /\ cur = None
    /\ queue # <<>>
    /\ ~failed
    /\ state[Head(queue)] = "Complete"
    /\ queue' = Tail(queue)
    /\ UNCHANGED <<script, throws, state, requestKey, declared, pending,
                   waiting, completed, failed, targetError, cur, pc, store,
                   traceWrites, execCount, phase, exitCode>>

(***************************************************************************)
(* A loop iteration that pops a recipe that is not Complete and calls     *)
(* scheduler_execute_recipe: state Running, then a fresh fiber for the    *)
(* target function starts.  A target missing from the registry fails at  *)
(* once; it is the case of an empty script that throws.                  *)
(***************************************************************************)
(* Mutant: executes the popped recipe without the Complete check. *)
execute_without_complete_check ==
    /\ phase \in {"run1", "run2"}
    /\ cur = None
    /\ queue # <<>>
    /\ ~failed
    /\ LET t == Head(queue) IN
         /\ queue' = Tail(queue)
         /\ state' = [state EXCEPT ![t] = "Running"]
         /\ execCount' = Bump(execCount, t)
         /\ cur' = t
         /\ pc' = [pc EXCEPT ![t] = 0]
    /\ UNCHANGED <<script, throws, requestKey, declared, pending, waiting,
                   completed, failed, targetError, store, traceWrites, phase,
                   exitCode>>

(* Mutant: the loop keeps executing after a failure was recorded. *)
execute_ignores_failure ==
    /\ phase \in {"run1", "run2"}
    /\ cur = None
    /\ queue # <<>>
    /\ state[Head(queue)] # "Complete"
    /\ LET t == Head(queue) IN
         /\ queue' = Tail(queue)
         /\ state' = [state EXCEPT ![t] = "Running"]
         /\ execCount' = Bump(execCount, t)
         /\ cur' = t
         /\ pc' = [pc EXCEPT ![t] = 0]
    /\ UNCHANGED <<script, throws, requestKey, declared, pending, waiting,
                   completed, failed, targetError, store, traceWrites, phase,
                   exitCode>>

scheduler_execute_recipe ==
    /\ phase \in {"run1", "run2"}
    /\ cur = None
    /\ queue # <<>>
    /\ ~failed
    /\ state[Head(queue)] # "Complete"
    /\ LET t == Head(queue) IN
         /\ queue' = Tail(queue)
         /\ state' = [state EXCEPT ![t] = "Running"]
         /\ execCount' = Bump(execCount, t)
         /\ cur' = t
         /\ pc' = [pc EXCEPT ![t] = 0]
    /\ UNCHANGED <<script, throws, requestKey, declared, pending, waiting,
                   completed, failed, targetError, store, traceWrites, phase,
                   exitCode>>

(* The next host call of the executing fiber. *)
NextCall == script[cur][pc[cur] + 1]
HasNextCall == cur # None /\ pc[cur] < Len(script[cur])

(* recipe_add_dependency(r, x): x joins declared_deps and pending_deps. *)
recipe_add_dependency(r, x) ==
    /\ declared' = [declared EXCEPT ![r] = @ \cup {x}]
    /\ pending' = [pending EXCEPT ![r] = @ \cup {x}]

(* Mutant: register_dep treats its path as a target and queues it. *)
register_dep_queues_path ==
    /\ HasNextCall
    /\ NextCall.op = "register_dep"
    /\ declared' = [declared EXCEPT ![cur] = @ \cup {NextCall.arg}]
    /\ pending' = [pending EXCEPT ![cur] = @ \cup {NextCall.arg}]
    /\ pc' = [pc EXCEPT ![cur] = @ + 1]
    /\ queue' = Append(queue, NextCall.arg)
    /\ UNCHANGED <<script, throws, state, requestKey, waiting,
                   completed, failed, targetError, cur, store, traceWrites,
                   execCount, phase, exitCode>>

(* Mutant: the unwired host call does not return to the script. *)
depend_on_unwired_stalls ==
    /\ HasNextCall
    /\ NextCall.op = "depend_on"
    /\ ~CallbacksWired
    /\ UNCHANGED vars

(* umka_ffi_rebuild_register_dep -> recipe_add_dependency. *)
umka_ffi_rebuild_register_dep ==
    /\ HasNextCall
    /\ NextCall.op = "register_dep"
    /\ recipe_add_dependency(cur, NextCall.arg)
    /\ pc' = [pc EXCEPT ![cur] = @ + 1]
    /\ UNCHANGED <<script, throws, state, requestKey, queue, waiting,
                   completed, failed, targetError, cur, store, traceWrites,
                   execCount, phase, exitCode>>

(* umka_ffi_rebuild_depend_on with no depend_on callback installed: it    *)
(* returns NULL to the script and changes nothing.                       *)
umka_ffi_rebuild_depend_on_unwired ==
    /\ HasNextCall
    /\ NextCall.op = "depend_on"
    /\ ~CallbacksWired
    /\ pc' = [pc EXCEPT ![cur] = @ + 1]
    /\ UNCHANGED <<script, throws, state, requestKey, declared, pending, queue,
                   waiting, completed, failed, targetError, cur, store,
                   traceWrites, execCount, phase, exitCode>>

(* Mutant: a Pending dependency is waited on but never queued. *)
depend_request_no_enqueue ==
    /\ HasNextCall
    /\ NextCall.op = "depend_on"
    /\ CallbacksWired
    /\ LET d == NextCall.arg IN
         /\ declared' = [declared EXCEPT ![cur] = @ \cup {d}]
         /\ pending' = [pending EXCEPT ![cur] = @ \cup {d}]
         /\ pc' = [pc EXCEPT ![cur] = @ + 1]
         /\ \/ /\ d \in completed \/ state[d] = "Complete"
               /\ UNCHANGED <<state, waiting>>
            \/ /\ d \notin completed
               /\ state[d] # "Complete"
               /\ state' = [state EXCEPT ![cur] = "Suspended"]
               /\ waiting' = [waiting EXCEPT ![d] = <<cur>> \o @]
    /\ UNCHANGED <<script, throws, requestKey, completed, failed, targetError,
                   cur, store, traceWrites, execCount, phase, exitCode, queue>>

(***************************************************************************)
(* scheduler_on_depend_request(cur, d), reached through depend_on: the    *)
(* dependency is recorded; a completed one returns its path; a Pending    *)
(* one suspends the caller, enlists it as a waiter and is queued; one     *)
(* that is Running or Suspended (only cur itself can be) only enlists the *)
(* caller.  In every case the script goes on with its next call.          *)
(***************************************************************************)
scheduler_on_depend_request ==
    /\ HasNextCall
    /\ NextCall.op = "depend_on"
    /\ CallbacksWired
    /\ LET d == NextCall.arg IN
         /\ recipe_add_dependency(cur, d)
         /\ pc' = [pc EXCEPT ![cur] = @ + 1]
         /\ \/ /\ d \in completed \/ state[d] = "Complete"
               /\ UNCHANGED <<state, queue, waiting>>
            \/ /\ d \notin completed
               /\ state[d] = "Pending"
               /\ state' = [state EXCEPT ![cur] = "Suspended"]
               /\ waiting' = [waiting EXCEPT ![d] = <<cur>> \o @]
               /\ queue' = Append(queue, d)
            \/ /\ d \notin completed
               /\ state[d] \notin {"Pending", "Complete"}
               /\ state' = [state EXCEPT ![cur] = "Suspended"]
               /\ waiting' = [waiting EXCEPT ![d] = <<cur>> \o @]
               /\ UNCHANGED queue
    /\ UNCHANGED <<script, throws, requestKey, completed, failed, targetError,
                   cur, store, traceWrites, execCount, phase, exitCode>>

(* Mutant: the waiter list is notified but not removed from the map. *)
complete_keeps_waiters ==
    /\ cur # None
    /\ pc[cur] = Len(script[cur])
    /\ \/ /\ cur \notin throws
          /\ LET k == requestKey[cur]
                 w == waiting[cur]
             IN
             /\ state' = [t \in Targets |->
                            IF t = cur THEN "Complete"
                            ELSE IF t \in Elems(w) /\ state[t] = "Suspended"
                                 THEN "Pending" ELSE state[t]]
             /\ \E f \in {"full", "partial", store[k]} :
                   store' = [store EXCEPT ![k] = f]
             /\ traceWrites' = Bump(traceWrites, k)
             /\ completed' = completed \cup {cur}
             /\ queue' = queue \o w
          /\ UNCHANGED <<failed, targetError, waiting>>
       \/ /\ cur \in throws
          /\ state' = [state EXCEPT ![cur] = "Failed"]
          /\ failed' = TRUE
          /\ targetError' = cur
          /\ UNCHANGED <<store, traceWrites, completed, queue, waiting>>
    /\ cur' = None
    /\ UNCHANGED <<script, throws, requestKey, declared, pending, pc,
                   execCount, phase, exitCode>>

(***************************************************************************)
(* The fiber returns and scheduler_on_recipe_complete runs.  On success:  *)
(* Complete, a trace saved under the recipe's request key (trace_save may *)
(* fail after fopen truncated the file, or before it, leaving the old    *)
(* file), the target published, and every waiter resumed (a Suspended    *)
(* one back to Pending) and queued in waiter-list order, the list         *)
(* removed.  On error: Failed and the build-wide failure recorded.        *)
(***************************************************************************)
scheduler_on_recipe_complete ==
    /\ cur # None
    /\ pc[cur] = Len(script[cur])
    /\ \/ /\ cur \notin throws
          /\ LET k == requestKey[cur]
                 w == waiting[cur]
             IN
             /\ state' = [t \in Targets |->
                            IF t = cur THEN "Complete"
                            ELSE IF t \in Elems(w) /\ state[t] = "Suspended"
                                 THEN "Pending" ELSE state[t]]
             /\ \E f \in trace_save(k) : store' = [store EXCEPT ![k] = f]
             /\ traceWrites' = Bump(traceWrites, k)
             /\ completed' = completed \cup {cur}
             /\ queue' = queue \o w
             /\ waiting' = [waiting EXCEPT ![cur] = <<>>]
          /\ UNCHANGED <<failed, targetError>>
       \/ /\ cur \in throws
          /\ state' = [state EXCEPT ![cur] = "Failed"]
          /\ failed' = TRUE
          /\ targetError' = cur
          /\ UNCHANGED <<store, traceWrites, completed, queue, waiting>>
    /\ cur' = None
    /\ UNCHANGED <<script, throws, requestKey, declared, pending, pc,
                   execCount, phase, exitCode>>

(* The process has exited. *)
Terminated ==
    /\ phase = "done"
    /\ UNCHANGED vars

Next ==
    \/ scheduler_build
    \/ scheduler_run_exit
    \/ scheduler_run_skip
    \/ scheduler_execute_recipe
    \/ umka_ffi_rebuild_register_dep
    \/ umka_ffi_rebuild_depend_on_unwired
    \/ scheduler_on_depend_request
    \/ scheduler_on_recipe_complete
    \/ Terminated

(* The scheduler is one thread running its loop: it keeps taking steps.  *)
Spec == Init /\ [][Next]_vars /\ WF_vars(Next)

-----------------------------------------------------------------------------
(***************************************************************************)
(* Properties.                                                             *)
(***************************************************************************)

(* Diamond (spec section 8, scenario 5): a target is executed at most     *)
(* once per build, even when several recipes depend on it while it is     *)
(* still Pending and it is queued once per requester; the skip of a       *)
(* Complete recipe in scheduler_run is what keeps the copies from         *)
(* running.                                                               *)
ExecutedAtMostOnce == \A t \in Targets : execCount[t] <= 1

(* No lost wake-up: once a target is published in sched->completed, no   *)
(* recipe is still enlisted as waiting on it (scheduler_on_recipe_complete *)
(* resumed them all and removed the list, and scheduler_on_depend_request *)
(* never enlists a waiter on a completed target).                         *)
NoLostWakeup == \A t \in completed : waiting[t] = <<>>

(* The targets t's fiber has asked for through depend_on so far. *)
Requested(t) ==
    {script[t][i].arg : i \in {j \in 1..pc[t] : script[t][j].op = "depend_on"}}

(* A build main() reports as successful has published the top target and *)
(* every target that a published recipe's script asked for through       *)
(* depend_on.                                                             *)
SuccessfulBuildIsComplete ==
    exitCode = "ok" =>
        /\ Top \in completed
        /\ \A t \in completed : Requested(t) \subseteq completed

(* Spec section 5, cancellation: after the first failure the scheduler    *)
(* executes no further recipe, publishes nothing and writes no trace.     *)
NoWorkAfterFailure ==
    [][failed => /\ execCount' = execCount
                 /\ completed' \subseteq completed
                 /\ traceWrites' = traceWrites]_vars

(* Every invocation of the binary ends (the main loop cannot spin).       *)
BuildTerminates == <>(phase = "done")

(* Spec sections 4.7 and 5: depend_on on a dependency that is not         *)
(* complete suspends the caller until the dependency completes, so a     *)
(* recipe is Complete only after every target it depended on is.         *)
DependencyOrder ==
    \A t \in Targets :
        state[t] = "Complete" =>
            \A d \in Requested(t) : state[d] = "Complete"

(* Spec section 5, shared resources: trace writes are exclusive per       *)
(* request key, a key being written at most once per build.               *)
TraceKeyExclusive == \A k \in Keys : traceWrites[k] <= 1

(* The result main() reports, as the abstract build sees it. *)
Outcome == CASE exitCode = "ok"   -> "ok"
             [] exitCode = "exec" -> "error"
             [] OTHER             -> "running"

AbsBuild == INSTANCE AbstractBuild
                WITH done <- completed, failed <- failed, outcome <- Outcome

(* The scheduler implements the abstract build: every step publishes one  *)
(* target not yet published while no failure is recorded and main() has *)
(* not returned, records the first failure, reports success only with    *)
(* the top target published and no failure, reports an error only after *)
(* a failure, or leaves all of this alone.                                *)
AbstractBuildSpec == AbsBuild!Spec


=============================================================================
