----------------------------- MODULE CrossBuild -----------------------------
(***************************************************************************)
(* Successive invocations of rebuild on one target whose script reads a   *)
(* source file, with the user editing that file between invocations and  *)
(* the process possibly dying while it writes the trace.  One invocation *)
(* is one step: scheduler_build's cache probe (scheduler_check_cache,    *)
(* trace_load, trace_validate) and then either the hit, or the recipe's  *)
(* execution and scheduler_on_recipe_complete's trace_save.  The trace   *)
(* file is the one of the target's request key (hash of its name); its   *)
(* bytes are abstracted to what trace_load makes of them: absent, short  *)
(* (a truncated write) or complete.  Within one invocation the Scheduler *)
(* module has the detail.                                                 *)
(***************************************************************************)
EXTENDS Integers

CONSTANTS
    MaxEdits,  \* bound on the edits of the source file
    MaxRuns    \* bound on the invocations

ASSUME CrossBuildAssumption == MaxEdits \in Nat /\ MaxRuns \in Nat

VARIABLES
    src,       \* the version of the source file on disk
    file,      \* the trace file: "absent", "partial" or "full"
    traceSrc,  \* the source version the complete trace was written after
    last,      \* how the last invocation ended
    dirty,     \* the source was edited since the last invocation
    runs       \* invocations so far

vars == <<src, file, traceSrc, last, dirty, runs>>

TypeOK ==
    /\ src \in 0..MaxEdits
    /\ file \in {"absent", "partial", "full"}
    /\ traceSrc \in 0..MaxEdits \cup {-1}
    /\ last \in {"none", "hit", "built", "failed", "crashed"}
    /\ dirty \in BOOLEAN
    /\ runs \in 0..MaxRuns

Init ==
    /\ src = 0
    /\ file = "absent"
    /\ traceSrc = -1
    /\ last = "none"
    /\ dirty = FALSE
    /\ runs = 0

(* Mutant: a read that does not check its length accepts a short file. *)
trace_load_accepts_short(f) == f # "absent"

(* Mutant: the version check compares with the wrong constant. *)
trace_load_rejects_all(f) == FALSE

(* trace_load: fopen fails on an absent file and read_all fails on a   *)
(* short one; only a complete file (magic, version, key) is a trace.    *)
trace_load(f) == f = "full"

(* trace_validate of the loaded trace: it loops over the recorded       *)
(* dependencies, and scheduler_on_recipe_complete records none (the     *)
(* set_iterate over declared_deps is left as a TODO), so it is true.    *)
trace_validate == TRUE

(* What trace_save leaves: fopen "wb" truncates and the fields are       *)
(* written one by one; a failed fopen keeps the old file, a failed write *)
(* leaves a short one, else the file is complete.                       *)
TraceSaveOutcomes(f) == {"full", "partial", f}

(* The user edits the source file. *)
Edit ==
    /\ src < MaxEdits
    /\ src' = src + 1
    /\ dirty' = TRUE
    /\ UNCHANGED <<file, traceSrc, last, runs>>

(* An invocation whose cache probe hits: scheduler_check_cache marks    *)
(* the target Complete and nothing runs.                                *)
scheduler_check_cache_hit ==
    /\ runs < MaxRuns
    /\ trace_load(file) /\ trace_validate
    /\ last' = "hit"
    /\ runs' = runs + 1
    /\ dirty' = FALSE
    /\ UNCHANGED <<src, file, traceSrc>>

(* An invocation that misses and runs the recipe on the current source: *)
(* on success scheduler_on_recipe_complete saves the trace (a failed    *)
(* save is only logged and the build still succeeds); a script that    *)
(* throws saves nothing.                                                *)
scheduler_on_recipe_complete ==
    /\ runs < MaxRuns
    /\ ~(trace_load(file) /\ trace_validate)
    /\ \/ /\ \E f \in TraceSaveOutcomes(file) :
               /\ file' = f
               /\ traceSrc' = IF f = "full" THEN src ELSE traceSrc
          /\ last' = "built"
       \/ /\ last' = "failed"
          /\ UNCHANGED <<file, traceSrc>>
    /\ runs' = runs + 1
    /\ dirty' = FALSE
    /\ UNCHANGED src

(* An invocation that misses, runs the recipe and dies before trace_save *)
(* returns: before fopen (the old file stays) or after it truncated the  *)
(* file (a short file stays).                                            *)
trace_save_crash ==
    /\ runs < MaxRuns
    /\ ~(trace_load(file) /\ trace_validate)
    /\ file' \in {"partial", file}
    /\ last' = "crashed"
    /\ runs' = runs + 1
    /\ dirty' = FALSE
    /\ UNCHANGED <<src, traceSrc>>

Next == Edit \/ scheduler_check_cache_hit \/ scheduler_on_recipe_complete
        \/ trace_save_crash

Spec == Init /\ [][Next]_vars

-----------------------------------------------------------------------------
(* A new invocation. *)
Invocation == runs' = runs + 1

(* Crash recovery (recipe.c trace_save truncates, then writes field by  *)
(* field): the invocation after one that died while saving the trace     *)
(* never takes the cache hit, whatever the file was left holding.        *)
CrashForcesRebuild ==
    [][(Invocation /\ last = "crashed") => last' # "hit"]_vars

(* Spec section 8, idempotent build: after an invocation that built the *)
(* target and saved its trace completely, an invocation with no edit in  *)
(* between executes nothing.                                             *)
IdempotentBuild ==
    [][(Invocation /\ last = "built" /\ file = "full" /\ ~dirty)
         => last' = "hit"]_vars

(* Spec section 8, incremental soundness, and scenario 4: a cached      *)
(* result is reused only when the source it was built from is the one  *)
(* on disk.                                                             *)
IncrementalSoundness == last = "hit" => traceSrc = src

=============================================================================
