--------------------------- MODULE SchedulerProofs ---------------------------
(***************************************************************************)
(* Proofs about Scheduler, for every set of targets, paths and scripts.   *)
(***************************************************************************)
EXTENDS Scheduler, TLAPS

(***************************************************************************)
(* The strengthening of ExecutedAtMostOnce.  ExecutedAtMostOnce alone is  *)
(* not inductive: scheduler_execute_recipe pops any recipe that is not    *)
(* Complete, and the queue may hold a target several times (once per      *)
(* requester), so the proof needs to know that such a recipe, popped with *)
(* no fiber running and no failure recorded, is one that never ran.       *)
(***************************************************************************)
(* A recipe that has been executed is never Pending again: resume only   *)
(* turns a Suspended waiter Pending, and the only Suspended recipe is the *)
(* one whose fiber is running, which is never its own waiter's waiter.   *)
RanNotPending ==
    \A t \in Targets : execCount[t] # 0 => state[t] # "Pending"

(* Running or Suspended is exactly the recipe of the executing fiber. *)
CurIsActive ==
    \A t \in Targets : state[t] \in {"Running", "Suspended"} <=> cur = t

(* A Failed recipe implies the build-wide failure flag. *)
FailedFlagged == \A t \in Targets : state[t] = "Failed" => failed

(* After a failure no fiber runs; before scheduler_run none runs and no  *)
(* failure is recorded.                                                   *)
Idle ==
    /\ (failed \/ phase = "build") => cur = None
    /\ phase = "build" => ~failed

IInv ==
    /\ TypeOK
    /\ ExecutedAtMostOnce
    /\ RanNotPending
    /\ CurIsActive
    /\ FailedFlagged
    /\ Idle

-----------------------------------------------------------------------------
(* What a host call of a script carries: a target for depend_on, a path  *)
(* for register_dep.                                                      *)
LEMMA CallArgType ==
    ASSUME NEW c \in Calls
    PROVE  /\ c.op \in {"depend_on", "register_dep"}
           /\ c.op = "depend_on" => c.arg \in Targets
           /\ c.op = "register_dep" => c.arg \in Paths
BY DEF Calls, DependCall, RegisterCall

(* The next call of the running fiber is a call of the script's alphabet. *)
LEMMA NextCallType ==
    ASSUME TypeOK, HasNextCall
    PROVE  NextCall \in Calls
<1>1. cur \in Targets
    BY DEF HasNextCall, TypeOK
<1>2. script[cur] \in Seq(Calls)
    BY <1>1, ScriptAssumption DEF TypeOK
<1>3. pc[cur] + 1 \in 1..Len(script[cur])
    BY <1>1 DEF HasNextCall, TypeOK
<1>. QED
    BY <1>2, <1>3 DEF NextCall

(* The elements of a sequence of targets are targets. *)
LEMMA ElemsType ==
    ASSUME NEW s \in Seq(Targets)
    PROVE  Elems(s) \subseteq Targets
BY DEF Elems

(***************************************************************************)
(* Type correctness.                                                      *)
(***************************************************************************)
(* Init establishes the type invariant. *)
LEMMA TypeInit == Init => TypeOK
<1> SUFFICES ASSUME Init PROVE TypeOK
    OBVIOUS
<1>1. PICK f \in TraceFile :
             store = [k \in Keys |-> IF k = Top THEN f ELSE "absent"]
    BY DEF Init
<1>2. store \in [Keys -> TraceFile]
    BY <1>1 DEF TraceFile
<1>3. traceWrites \in [Keys -> 0..MaxCount] /\
      execCount \in [Targets -> 0..MaxCount]
    BY DEF Init, MaxCount
<1>4. requestKey \in [Targets -> Keys]
    BY DEF Init, Keys
<1>5. state \in [Targets -> States] /\ phase \in Phases
    BY DEF Init, States, Phases
<1>6. targetError \in Targets \cup {None} /\ cur \in Targets \cup {None}
    BY DEF Init
<1>7. script \in [Targets -> ScriptSet]
    BY DEF Init
<1>8. throws \subseteq Targets
    BY DEF Init
<1>9. declared \in [Targets -> SUBSET (Targets \cup Paths)]
    BY DEF Init
<1>10. pending \in [Targets -> SUBSET (Targets \cup Paths)]
    BY DEF Init
<1>11. queue \in Seq(Targets)
    BY DEF Init
<1>12. waiting \in [Targets -> Seq(Targets)]
    BY DEF Init
<1>13. completed \subseteq Targets
    BY DEF Init
<1>14. failed \in BOOLEAN
    BY DEF Init
<1>15. pc \in [Targets -> Nat]
    BY DEF Init
<1>16. exitCode \in {"none", "ok", "exec"}
    BY DEF Init
<1>. QED
    BY <1>2, <1>3, <1>4, <1>5, <1>6, <1>7, <1>8, <1>9, <1>10, <1>11,
       <1>12, <1>13, <1>14, <1>15, <1>16 DEF TypeOK
(* Every step of the scheduler, the fibers and main() preserves it. *)
LEMMA TypeStep == TypeOK /\ [Next]_vars => TypeOK'
<1> SUFFICES ASSUME TypeOK, [Next]_vars PROVE TypeOK'
    OBVIOUS
<1>1. CASE scheduler_build
    <2>1. requestKey' \in [Targets -> Keys]
        BY <1>1, TargetsAssumption DEF scheduler_build, scheduler_check_cache, trace_load, TypeOK, Keys
    <2>2. state' \in [Targets -> States] /\ completed' \subseteq Targets
        BY <1>1, TargetsAssumption DEF scheduler_build, scheduler_check_cache, trace_load, TypeOK, States
    <2>3. queue' \in Seq(Targets)
        <3>1. CASE store[Top] = "full"
            BY <1>1, <3>1 DEF scheduler_build, scheduler_check_cache, trace_load, TypeOK
        <3>2. CASE store[Top] # "full"
            <4>1. queue' = Append(queue, Top)
                BY <1>1, <3>2 DEF scheduler_build, scheduler_check_cache, trace_load
            <4>. QED
                BY <4>1, TargetsAssumption DEF TypeOK
        <3>. QED
            BY <3>1, <3>2
    <2>4. phase' \in Phases
        BY <1>1 DEF scheduler_build, scheduler_check_cache, trace_load, Phases
    <2>. QED
        BY <1>1, <2>1, <2>2, <2>3, <2>4 DEF scheduler_build, scheduler_check_cache, trace_load, TypeOK
<1>2. CASE scheduler_run_exit
    BY <1>2 DEF scheduler_run_exit, TypeOK, Phases
<1>3. CASE scheduler_run_skip
    <2>1. /\ queue # <<>> /\ queue' = Tail(queue)
          /\ UNCHANGED <<script, throws, state, requestKey, declared, pending,
                         waiting, completed, failed, targetError, cur, pc,
                         store, traceWrites, execCount, phase, exitCode>>
        BY <1>3 DEF scheduler_run_skip
    <2>2. queue' \in Seq(Targets)
        BY <2>1 DEF TypeOK
    <2>. QED
        BY <2>1, <2>2 DEF TypeOK
<1>4. CASE scheduler_execute_recipe
    <2> DEFINE t == Head(queue)
    <2>1. t \in Targets
        BY <1>4 DEF scheduler_execute_recipe, TypeOK
    <2>2. execCount' \in [Targets -> 0..MaxCount]
        <3>1. execCount' = Bump(execCount, t)
            BY <1>4 DEF scheduler_execute_recipe
        <3>2. execCount[t] \in 0..2
            BY <2>1 DEF TypeOK, MaxCount
        <3>. QED
            BY <3>1, <3>2, <2>1 DEF Bump, TypeOK, MaxCount
    <2>3. state' \in [Targets -> States] /\ pc' \in [Targets -> Nat]
        BY <1>4, <2>1 DEF scheduler_execute_recipe, TypeOK, States
    <2>4. queue' \in Seq(Targets) /\ cur' \in Targets \cup {None}
        BY <1>4, <2>1 DEF scheduler_execute_recipe, TypeOK
    <2>. QED
        BY <1>4, <2>2, <2>3, <2>4 DEF scheduler_execute_recipe, TypeOK
<1>5. CASE umka_ffi_rebuild_register_dep
    <2>1. NextCall.arg \in Paths
        BY <1>5, NextCallType, CallArgType DEF umka_ffi_rebuild_register_dep, recipe_add_dependency
    <2>2. cur \in Targets
        BY <1>5 DEF umka_ffi_rebuild_register_dep, recipe_add_dependency, HasNextCall, TypeOK
    <2>3. /\ declared' \in [Targets -> SUBSET (Targets \cup Paths)]
          /\ pending' \in [Targets -> SUBSET (Targets \cup Paths)]
        BY <1>5, <2>1, <2>2 DEF umka_ffi_rebuild_register_dep, recipe_add_dependency, TypeOK
    <2>4. pc' \in [Targets -> Nat]
        BY <1>5, <2>2 DEF umka_ffi_rebuild_register_dep, recipe_add_dependency, TypeOK
    <2>. QED
        BY <1>5, <2>3, <2>4 DEF umka_ffi_rebuild_register_dep, recipe_add_dependency, TypeOK
<1>6. CASE umka_ffi_rebuild_depend_on_unwired
    <2>1. cur \in Targets
        BY <1>6 DEF umka_ffi_rebuild_depend_on_unwired, HasNextCall, TypeOK
    <2>2. pc' \in [Targets -> Nat]
        BY <1>6, <2>1 DEF umka_ffi_rebuild_depend_on_unwired, TypeOK
    <2>. QED
        BY <1>6, <2>2 DEF umka_ffi_rebuild_depend_on_unwired, TypeOK
<1>7. CASE scheduler_on_depend_request
    <2> DEFINE d == NextCall.arg
    <2>1. d \in Targets
        BY <1>7, NextCallType, CallArgType DEF scheduler_on_depend_request, recipe_add_dependency
    <2>2. cur \in Targets
        BY <1>7 DEF scheduler_on_depend_request, recipe_add_dependency, HasNextCall, TypeOK
    <2>3. /\ declared' \in [Targets -> SUBSET (Targets \cup Paths)]
          /\ pending' \in [Targets -> SUBSET (Targets \cup Paths)]
          /\ pc' \in [Targets -> Nat]
        <3>1. declared' \in [Targets -> SUBSET (Targets \cup Paths)]
            BY <1>7, <2>1, <2>2 DEF scheduler_on_depend_request, recipe_add_dependency, TypeOK
        <3>2. pending' \in [Targets -> SUBSET (Targets \cup Paths)]
            BY <1>7, <2>1, <2>2 DEF scheduler_on_depend_request, recipe_add_dependency, TypeOK
        <3>3. pc' \in [Targets -> Nat]
            BY <1>7, <2>2 DEF scheduler_on_depend_request, recipe_add_dependency, TypeOK
        <3>. QED
            BY <3>1, <3>2, <3>3
    <2>4. state' \in [Targets -> States]
        BY <1>7, <2>2 DEF scheduler_on_depend_request, recipe_add_dependency, TypeOK, States
    <2>5. waiting' \in [Targets -> Seq(Targets)]
        <3>1. CASE waiting' = waiting
            BY <3>1 DEF TypeOK
        <3>2. CASE waiting' = [waiting EXCEPT ![d] = <<cur>> \o @]
            <4>1. <<cur>> \o waiting[d] \in Seq(Targets)
                BY <2>1, <2>2 DEF TypeOK
            <4>. QED
                BY <3>2, <4>1 DEF TypeOK
        <3>. QED
            BY <1>7, <3>1, <3>2 DEF scheduler_on_depend_request, recipe_add_dependency
    <2>6. queue' \in Seq(Targets)
        <3>1. CASE queue' = queue
            BY <3>1 DEF TypeOK
        <3>2. CASE queue' = Append(queue, d)
            BY <2>1, <3>2 DEF TypeOK
        <3>. QED
            BY <1>7, <3>1, <3>2 DEF scheduler_on_depend_request, recipe_add_dependency
    <2>. QED
        BY <1>7, <2>3, <2>4, <2>5, <2>6
        DEF scheduler_on_depend_request, recipe_add_dependency, TypeOK
<1>8. CASE scheduler_on_recipe_complete
    <2>1. cur \in Targets
        BY <1>8 DEF scheduler_on_recipe_complete, TypeOK
    <2>2. requestKey[cur] \in Keys /\ waiting[cur] \in Seq(Targets)
        BY <2>1 DEF TypeOK
    <2>3. CASE cur \notin throws
        <3>1. state' \in [Targets -> States]
            BY <1>8, <2>3 DEF scheduler_on_recipe_complete, TypeOK, States
        <3>2. store' \in [Keys -> TraceFile]
            BY <1>8, <2>2, <2>3 DEF scheduler_on_recipe_complete, TypeOK,
                                    TraceFile, trace_save
        <3>3. traceWrites' \in [Keys -> 0..MaxCount]
            <4>1. traceWrites' = Bump(traceWrites, requestKey[cur])
                BY <1>8, <2>3 DEF scheduler_on_recipe_complete
            <4>2. traceWrites[requestKey[cur]] \in 0..2
                BY <2>2 DEF TypeOK, MaxCount
            <4>. QED
                BY <4>1, <4>2, <2>2 DEF Bump, TypeOK, MaxCount
        <3>4. /\ completed' = completed \cup {cur}
              /\ queue' = queue \o waiting[cur]
              /\ waiting' = [waiting EXCEPT ![cur] = <<>>]
            BY <1>8, <2>3 DEF scheduler_on_recipe_complete
        <3>6. /\ completed' \subseteq Targets
              /\ queue' \in Seq(Targets)
              /\ waiting' \in [Targets -> Seq(Targets)]
            BY <2>1, <2>2, <3>4 DEF TypeOK
        <3>5. cur' \in Targets \cup {None}
            BY <1>8 DEF scheduler_on_recipe_complete
        <3>. QED
            BY <1>8, <2>3, <3>1, <3>2, <3>3, <3>6, <3>5
            DEF scheduler_on_recipe_complete, TypeOK
    <2>4. CASE cur \in throws
        <3>1. state' \in [Targets -> States]
            BY <1>8, <2>4 DEF scheduler_on_recipe_complete, TypeOK, States
        <3>2. targetError' \in Targets \cup {None} /\ failed' \in BOOLEAN
            BY <1>8, <2>1, <2>4 DEF scheduler_on_recipe_complete
        <3>3. cur' \in Targets \cup {None}
            BY <1>8 DEF scheduler_on_recipe_complete
        <3>. QED
            BY <1>8, <2>4, <3>1, <3>2, <3>3
            DEF scheduler_on_recipe_complete, TypeOK
    <2>. QED
        BY <2>3, <2>4
<1>9. CASE Terminated
    BY <1>9 DEF Terminated, vars, TypeOK
<1>10. CASE UNCHANGED vars
    BY <1>10 DEF vars, TypeOK
<1>. QED
    BY <1>1, <1>2, <1>3, <1>4, <1>5, <1>6, <1>7, <1>8, <1>9, <1>10
    DEF Next
(* Type correctness: every variable of the scheduler, its recipes, the   *)
(* running fiber, the trace store and main() stays in its declared range *)
(* in every reachable state, for every set of targets, paths and scripts. *)
THEOREM TypeCorrect == Spec => []TypeOK
BY TypeInit, TypeStep, PTL DEF Spec

-----------------------------------------------------------------------------
(***************************************************************************)
(* At most one execution per target, and no work after a failure.        *)
(***************************************************************************)
(* Init establishes the strengthened invariant. *)
LEMMA IInvInit == Init => IInv
<1> SUFFICES ASSUME Init PROVE IInv
    OBVIOUS
<1>1. TypeOK
    BY TypeInit
<1>2. ExecutedAtMostOnce /\ RanNotPending
    BY DEF Init, ExecutedAtMostOnce, RanNotPending
<1>3. CurIsActive /\ FailedFlagged /\ Idle
    BY TargetsAssumption DEF Init, CurIsActive, FailedFlagged, Idle
<1>. QED
    BY <1>1, <1>2, <1>3 DEF IInv

(* Every step preserves the strengthened invariant. *)
LEMMA IInvStep == IInv /\ [Next]_vars => IInv'
<1> SUFFICES ASSUME IInv, [Next]_vars PROVE IInv'
    OBVIOUS
<1>0. TypeOK /\ TypeOK'
    BY TypeStep DEF IInv
<1> USE DEF IInv
<1>1. CASE scheduler_build
    <2>1. cur = None /\ cur' = None
        BY <1>1 DEF scheduler_build, scheduler_check_cache, trace_load, Idle
    <2>2. CurIsActive'
        BY <1>0, <1>1, <2>1, TargetsAssumption
        DEF scheduler_build, scheduler_check_cache, trace_load, CurIsActive, TypeOK
    <2>3. RanNotPending' /\ FailedFlagged'
        BY <1>0, <1>1 DEF scheduler_build, scheduler_check_cache, trace_load, RanNotPending, FailedFlagged, TypeOK
    <2>4. ExecutedAtMostOnce' /\ Idle'
        BY <1>1, <2>1 DEF scheduler_build, scheduler_check_cache, trace_load, ExecutedAtMostOnce, Idle
    <2>. QED
        BY <1>0, <2>2, <2>3, <2>4
<1>2. CASE scheduler_run_exit
    BY <1>0, <1>2 DEF scheduler_run_exit, ExecutedAtMostOnce, RanNotPending,
                      CurIsActive, FailedFlagged, Idle
<1>3. CASE scheduler_run_skip
    BY <1>0, <1>3 DEF scheduler_run_skip, ExecutedAtMostOnce, RanNotPending,
                      CurIsActive, FailedFlagged, Idle
<1>4. CASE scheduler_execute_recipe
    <2> DEFINE t == Head(queue)
    <2>1. t \in Targets /\ cur = None /\ ~failed /\ state[t] # "Complete"
        BY <1>0, <1>4 DEF scheduler_execute_recipe, TypeOK
    <2>2. state[t] = "Pending"
        BY <1>0, <2>1, TargetsAssumption DEF CurIsActive, FailedFlagged,
                                             TypeOK, States
    <2>3. execCount[t] = 0
        BY <2>1, <2>2 DEF RanNotPending
    <2>4. /\ state' = [state EXCEPT ![t] = "Running"]
          /\ execCount' = [execCount EXCEPT ![t] = 1]
          /\ cur' = t
          /\ UNCHANGED <<failed, phase>>
        BY <1>4, <2>3 DEF scheduler_execute_recipe, Bump, MaxCount
    <2>5. ExecutedAtMostOnce' /\ RanNotPending'
        BY <1>0, <2>1, <2>4 DEF ExecutedAtMostOnce, RanNotPending, TypeOK
    <2>6. CurIsActive'
        BY <1>0, <2>1, <2>4, TargetsAssumption DEF CurIsActive, TypeOK
    <2>7. FailedFlagged' /\ Idle'
        BY <1>0, <1>4, <2>1, <2>4 DEF scheduler_execute_recipe, FailedFlagged,
                                      Idle, TypeOK
    <2>. QED
        BY <1>0, <2>5, <2>6, <2>7
<1>5. CASE umka_ffi_rebuild_register_dep
    BY <1>0, <1>5 DEF umka_ffi_rebuild_register_dep, recipe_add_dependency, ExecutedAtMostOnce,
                      RanNotPending, CurIsActive, FailedFlagged, Idle
<1>6. CASE umka_ffi_rebuild_depend_on_unwired
    BY <1>0, <1>6 DEF umka_ffi_rebuild_depend_on_unwired, ExecutedAtMostOnce,
                      RanNotPending, CurIsActive, FailedFlagged, Idle
<1>7. CASE scheduler_on_depend_request
    <2>1. cur \in Targets /\ UNCHANGED <<cur, failed, phase, execCount>>
        BY <1>0, <1>7 DEF scheduler_on_depend_request, recipe_add_dependency, HasNextCall, TypeOK
    <2>2. state[cur] = "Running" \/ state[cur] = "Suspended"
        BY <2>1 DEF CurIsActive
    <2>3. \/ state' = state
          \/ state' = [state EXCEPT ![cur] = "Suspended"]
        BY <1>7 DEF scheduler_on_depend_request, recipe_add_dependency
    <2>4. ExecutedAtMostOnce' /\ RanNotPending'
        BY <1>0, <2>1, <2>2, <2>3 DEF ExecutedAtMostOnce, RanNotPending,
                                      TypeOK
    <2>5. CurIsActive' /\ FailedFlagged'
        BY <1>0, <2>1, <2>2, <2>3 DEF CurIsActive, FailedFlagged, TypeOK
    <2>6. Idle'
        BY <2>1 DEF Idle
    <2>. QED
        BY <1>0, <2>4, <2>5, <2>6
<1>8. CASE scheduler_on_recipe_complete
    <2>1. cur \in Targets /\ cur' = None /\ ~failed
        BY <1>0, <1>8 DEF scheduler_on_recipe_complete, Idle, TypeOK
    <2>2. UNCHANGED <<execCount, phase>>
        BY <1>8 DEF scheduler_on_recipe_complete
    <2>3. \A t \in Targets \ {cur} : state[t] \notin {"Running", "Suspended"}
        BY <2>1 DEF CurIsActive
    <2>4. ExecutedAtMostOnce'
        BY <2>2 DEF ExecutedAtMostOnce
    <2>5. CASE cur \notin throws
        <3>1. state' = [t \in Targets |->
                          IF t = cur THEN "Complete"
                          ELSE IF t \in Elems(waiting[cur]) /\
                                  state[t] = "Suspended"
                               THEN "Pending" ELSE state[t]]
            BY <1>8, <2>5 DEF scheduler_on_recipe_complete
        <3>2. state' = [t \in Targets |->
                          IF t = cur THEN "Complete" ELSE state[t]]
            BY <2>3, <3>1
        <3>3. failed' = failed
            BY <1>8, <2>5 DEF scheduler_on_recipe_complete
        <3>4. RanNotPending'
            BY <1>0, <2>1, <2>2, <3>2 DEF RanNotPending, TypeOK
        <3>5. CurIsActive'
            BY <1>0, <2>1, <2>3, <3>2, TargetsAssumption DEF CurIsActive,
                                                              TypeOK
        <3>6. FailedFlagged' /\ Idle'
            BY <1>0, <2>1, <3>2, <3>3 DEF FailedFlagged, Idle, TypeOK
        <3>. QED
            BY <1>0, <2>4, <3>4, <3>5, <3>6
    <2>6. CASE cur \in throws
        <3>1. state' = [state EXCEPT ![cur] = "Failed"] /\ failed'
            BY <1>8, <2>6 DEF scheduler_on_recipe_complete
        <3>2. RanNotPending' /\ FailedFlagged'
            BY <1>0, <2>1, <2>2, <3>1 DEF RanNotPending, FailedFlagged, TypeOK
        <3>3. CurIsActive'
            BY <1>0, <2>1, <2>3, <3>1, TargetsAssumption DEF CurIsActive,
                                                              TypeOK
        <3>4. Idle'
            BY <2>1, <2>2, TargetsAssumption DEF Idle
        <3>. QED
            BY <1>0, <2>4, <3>2, <3>3, <3>4
    <2>. QED
        BY <2>5, <2>6
<1>9. CASE Terminated \/ UNCHANGED vars
    BY <1>0, <1>9 DEF Terminated, vars, ExecutedAtMostOnce, RanNotPending,
                      CurIsActive, FailedFlagged, Idle
<1>. QED
    BY <1>1, <1>2, <1>3, <1>4, <1>5, <1>6, <1>7, <1>8, <1>9 DEF Next

(* The inductive invariant holds in every reachable state. *)
LEMMA IInvHolds == Spec => []IInv
BY IInvInit, IInvStep, PTL DEF Spec

(* Diamond dependencies (spec section 8, scenario 5): however many        *)
(* recipes request a target while it is Pending, and so queue it once    *)
(* each, scheduler_execute_recipe runs it at most once in an invocation. *)
THEOREM ExecutedOnce == Spec => []ExecutedAtMostOnce
BY IInvHolds, PTL DEF IInv

(* Once a step records a failure, no later step executes a recipe,       *)
(* publishes a target or writes a trace: the loop stops popping and no   *)
(* fiber is left to complete.                                             *)
LEMMA FailureStep ==
    IInv /\ [Next]_vars => [failed => /\ execCount' = execCount
                                      /\ completed' \subseteq completed
                                      /\ traceWrites' = traceWrites]_vars
<1> SUFFICES ASSUME IInv, [Next]_vars, failed
             PROVE  /\ execCount' = execCount
                    /\ completed' \subseteq completed
                    /\ traceWrites' = traceWrites
    OBVIOUS
<1>1. cur = None
    BY DEF IInv, Idle
<1>2. ~scheduler_execute_recipe /\ ~scheduler_on_recipe_complete
    BY <1>1 DEF scheduler_execute_recipe, scheduler_on_recipe_complete
<1>3. CASE scheduler_build \/ scheduler_run_exit \/ scheduler_run_skip
    BY <1>3 DEF IInv, Idle, scheduler_build, scheduler_run_exit,
                scheduler_run_skip
<1>4. CASE \/ umka_ffi_rebuild_register_dep
           \/ umka_ffi_rebuild_depend_on_unwired
           \/ scheduler_on_depend_request
    BY <1>4 DEF umka_ffi_rebuild_register_dep, recipe_add_dependency,
                umka_ffi_rebuild_depend_on_unwired, scheduler_on_depend_request
<1>5. CASE Terminated \/ UNCHANGED vars
    BY <1>5 DEF Terminated, vars
<1>. QED
    BY <1>2, <1>3, <1>4, <1>5 DEF Next

(* NoWorkAfterFailure holds of every behaviour of the scheduler. *)
THEOREM NoWorkAfterFailureHolds == Spec => NoWorkAfterFailure
BY IInvHolds, FailureStep, PTL DEF Spec, NoWorkAfterFailure

=============================================================================
