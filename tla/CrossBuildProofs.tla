-------------------------- MODULE CrossBuildProofs --------------------------
(***************************************************************************)
(* Proofs about CrossBuild, for every bound on edits and invocations: the *)
(* two action properties the cross_build run checks on five invocations. *)
(***************************************************************************)
EXTENDS CrossBuild, TLAPS

(***************************************************************************)
(* Type correctness, which the step proofs use for the arithmetic on the  *)
(* invocation counter.                                                     *)
(***************************************************************************)
(* The numeric and the enumerated parts of the type invariant, which the *)
(* provers take one at a time.                                            *)
TypeNum ==
    /\ src \in 0..MaxEdits
    /\ traceSrc \in 0..MaxEdits \cup {-1}
    /\ runs \in 0..MaxRuns

TypeEnum ==
    /\ file \in {"absent", "partial", "full"}
    /\ last \in {"none", "hit", "built", "failed", "crashed"}
    /\ dirty \in BOOLEAN

LEMMA TypeSplit == TypeOK <=> TypeNum /\ TypeEnum
BY DEF TypeOK, TypeNum, TypeEnum

(* Init establishes the type invariant. *)
LEMMA TypeInit == Init => TypeOK
<1> SUFFICES ASSUME Init PROVE TypeNum /\ TypeEnum
    BY TypeSplit
<1>1. TypeNum
    <2>1. src \in 0..MaxEdits /\ runs \in 0..MaxRuns
        BY CrossBuildAssumption DEF Init
    <2>2. traceSrc \in 0..MaxEdits \cup {-1}
        BY DEF Init
    <2>. QED
        BY <2>1, <2>2 DEF TypeNum
<1>2. TypeEnum
    BY DEF Init, TypeEnum
<1>. QED
    BY <1>1, <1>2

(* Every step preserves it. *)
LEMMA TypeStep == TypeOK /\ [Next]_vars => TypeOK'
<1> SUFFICES ASSUME TypeNum, TypeEnum, [Next]_vars
             PROVE  TypeNum' /\ TypeEnum'
    BY DEF TypeOK, TypeNum, TypeEnum
<1>1. CASE Edit
    <2>1. TypeNum'
        BY <1>1, CrossBuildAssumption DEF Edit, TypeNum
    <2>2. TypeEnum'
        BY <1>1 DEF Edit, TypeEnum
    <2>. QED
        BY <2>1, <2>2
<1>2. CASE scheduler_check_cache_hit
    <2>1. TypeNum'
        BY <1>2, CrossBuildAssumption DEF scheduler_check_cache_hit, TypeNum
    <2>2. TypeEnum'
        BY <1>2 DEF scheduler_check_cache_hit, TypeEnum
    <2>. QED
        BY <2>1, <2>2
<1>3. CASE scheduler_on_recipe_complete
    <2>1. TypeNum'
        BY <1>3, CrossBuildAssumption DEF scheduler_on_recipe_complete, TypeNum
    <2>2. TypeEnum'
        BY <1>3 DEF scheduler_on_recipe_complete, TraceSaveOutcomes, TypeEnum
    <2>. QED
        BY <2>1, <2>2
<1>4. CASE trace_save_crash
    <2>1. TypeNum'
        BY <1>4, CrossBuildAssumption DEF trace_save_crash, TypeNum
    <2>2. TypeEnum'
        BY <1>4 DEF trace_save_crash, TypeEnum
    <2>. QED
        BY <2>1, <2>2
<1>5. CASE UNCHANGED vars
    BY <1>5 DEF vars, TypeNum, TypeEnum
<1>. QED
    BY <1>1, <1>2, <1>3, <1>4, <1>5 DEF Next

(* Type correctness for every bound. *)
THEOREM TypeCorrect == Spec => []TypeOK
BY TypeInit, TypeStep, PTL DEF Spec

(***************************************************************************)
(* CrashForcesRebuild is about the step after a crash, so it needs a      *)
(* state invariant: after an invocation that died in trace_save the trace *)
(* file is not complete.  It holds because trace_save_crash is only taken *)
(* on a miss (the file was not complete) and leaves the old file or a     *)
(* short one, and an edit does not touch the file.                        *)
(***************************************************************************)
CrashedNoTrace == last = "crashed" => file # "full"

(* Init establishes the invariant: no invocation has run. *)
LEMMA CrashedInit == Init => CrashedNoTrace
BY DEF Init, CrashedNoTrace

(* Every step preserves it. *)
LEMMA CrashedStep == CrashedNoTrace /\ [Next]_vars => CrashedNoTrace'
<1> SUFFICES ASSUME CrashedNoTrace, [Next]_vars PROVE CrashedNoTrace'
    OBVIOUS
<1>1. CASE Edit
    BY <1>1 DEF Edit, CrashedNoTrace
<1>2. CASE scheduler_check_cache_hit
    BY <1>2 DEF scheduler_check_cache_hit, CrashedNoTrace
<1>3. CASE scheduler_on_recipe_complete
    BY <1>3 DEF scheduler_on_recipe_complete, CrashedNoTrace
<1>4. CASE trace_save_crash
    \* The miss guard says the old file was not complete.
    <2>1. file # "full"
        BY <1>4 DEF trace_save_crash, trace_load, trace_validate
    <2>. QED
        BY <1>4, <2>1 DEF trace_save_crash, CrashedNoTrace
<1>5. CASE UNCHANGED vars
    BY <1>5 DEF vars, CrashedNoTrace
<1>. QED
    BY <1>1, <1>2, <1>3, <1>4, <1>5 DEF Next

(* The invariant holds in every reachable state. *)
THEOREM CrashedInvariant == Spec => []CrashedNoTrace
BY CrashedInit, CrashedStep, PTL DEF Spec

(***************************************************************************)
(* Crash recovery (recipe.c trace_save truncates with fopen "wb" and then *)
(* writes field by field): for every number of invocations and edits, the *)
(* invocation after one that died while saving the trace never takes the *)
(* cache hit.                                                             *)
(***************************************************************************)
THEOREM CrashForcesRebuildHolds == Spec => CrashForcesRebuild
<1>1. CrashedNoTrace /\ [Next]_vars
        => [(Invocation /\ last = "crashed") => last' # "hit"]_vars
    <2> SUFFICES ASSUME CrashedNoTrace, [Next]_vars,
                        Invocation, last = "crashed"
                 PROVE  last' # "hit"
        BY DEF vars
    \* Only scheduler_check_cache_hit sets last to "hit", and it needs a
    \* complete file.
    <2>1. file # "full"
        BY DEF CrashedNoTrace
    <2>2. ~scheduler_check_cache_hit
        BY <2>1 DEF scheduler_check_cache_hit, trace_load
    <2>. QED
        BY <2>2 DEF Next, Edit, scheduler_on_recipe_complete,
                    trace_save_crash, vars
<1>. QED
    BY <1>1, CrashedInvariant, PTL DEF Spec, CrashForcesRebuild

(***************************************************************************)
(* Spec section 8, idempotent build: for every bound, an invocation that *)
(* follows a build which saved a complete trace, with no edit in between, *)
(* takes the cache hit: scheduler_check_cache accepts the complete file,  *)
(* and the two execution paths are taken only on a miss.  No invariant is *)
(* needed, only the step itself.                                          *)
(***************************************************************************)
THEOREM IdempotentBuildHolds == Spec => IdempotentBuild
<1>1. TypeOK /\ [Next]_vars
        => [(Invocation /\ last = "built" /\ file = "full" /\ ~dirty)
              => last' = "hit"]_vars
    <2> SUFFICES ASSUME TypeOK, [Next]_vars, Invocation, file = "full"
                 PROVE  last' = "hit"
        BY DEF vars
    <2>1. trace_load(file) /\ trace_validate
        BY DEF trace_load, trace_validate
    <2>2. ~Edit /\ ~scheduler_on_recipe_complete /\ ~trace_save_crash
        BY <2>1 DEF Edit, Invocation, scheduler_on_recipe_complete,
                    trace_save_crash
    <2>3. ~UNCHANGED vars
        BY DEF Invocation, vars, TypeOK
    <2>. QED
        BY <2>2, <2>3 DEF Next, scheduler_check_cache_hit
<1>. QED
    BY <1>1, TypeCorrect, PTL DEF Spec, IdempotentBuild

=============================================================================
