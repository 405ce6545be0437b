---------------------------- MODULE AbstractBuild ----------------------------
(***************************************************************************)
(* What one invocation of the rebuild binary promises about the targets   *)
(* it publishes and the result it reports (spec sections 4 and 5): each   *)
(* target is published at most once, nothing is published after the     *)
(* first failure or after the result is fixed, success is reported only  *)
(* when the top target is published and no failure happened, and an     *)
(* error is reported only after a failure.                                *)
(***************************************************************************)
CONSTANTS Targets, Top

VARIABLES done,     \* the published targets (sched->completed)
          failed,   \* a recipe has failed
          outcome   \* "running", then main()'s result "ok" or "error"

Init ==
    /\ done = {}
    /\ failed = FALSE
    /\ outcome = "running"

(* A target is built or found in the cache, and published. *)
Publish(t) ==
    /\ outcome = "running"
    /\ ~failed
    /\ t \notin done
    /\ done' = done \cup {t}
    /\ UNCHANGED <<failed, outcome>>

(* A recipe fails; the build is cancelled. *)
Fail ==
    /\ outcome = "running"
    /\ ~failed
    /\ failed' = TRUE
    /\ UNCHANGED <<done, outcome>>

(* The invocation reports success. *)
FinishOk ==
    /\ outcome = "running"
    /\ ~failed
    /\ Top \in done
    /\ outcome' = "ok"
    /\ UNCHANGED <<done, failed>>

(* The invocation reports the failure. *)
FinishError ==
    /\ outcome = "running"
    /\ failed
    /\ outcome' = "error"
    /\ UNCHANGED <<done, failed>>

Next == (\E t \in Targets : Publish(t)) \/ Fail \/ FinishOk \/ FinishError

Spec == Init /\ [][Next]_<<done, failed, outcome>>

=============================================================================
