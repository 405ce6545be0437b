------------------------ MODULE SchedulerWakeupProofs ------------------------
(***************************************************************************)
(* Proofs of the two scheduler invariants about publication: no waiter is *)
(* left on a published target (NoLostWakeup), and a build main() reports  *)
(* as successful has published everything its published recipes asked for *)
(* (SuccessfulBuildIsComplete).  Both rest on the invariant IInv of       *)
(* SchedulerProofs and on the strengthening WInv below.                   *)
(***************************************************************************)
EXTENDS SchedulerProofs

(***************************************************************************)
(* The strengthening.                                                     *)
(***************************************************************************)
(* Before scheduler_build nothing has run: no target published, no       *)
(* waiter enlisted, no host call made.                                    *)
BuildFresh ==
    phase = "build" =>
        /\ completed = {}
        /\ \A t \in Targets : waiting[t] = <<>> /\ pc[t] = 0

(* recipe->state is Complete exactly for the targets in sched->completed: *)
(* scheduler_build's hit and scheduler_on_recipe_complete set both.      *)
CompleteIffPublished ==
    \A t \in Targets : state[t] = "Complete" <=> t \in completed

(* A fiber never makes more host calls than its script has. *)
PcBound == \A t \in Targets : pc[t] <= Len(script[t])

(* A target the loop will still get to, or has finished: published,       *)
(* waiting in the ready queue, or the recipe whose fiber is running.      *)
Tracked(d) == d \in completed \/ d \in Elems(queue) \/ d = cur

(* With depend_on wired and no failure, nothing requested is forgotten: *)
(* every target a script asked for is tracked.                            *)
ReqTracked ==
    (CallbacksWired /\ ~failed) =>
        \A t \in Targets : \A d \in Requested(t) : Tracked(d)

(* With or without the callbacks, the top target is tracked from         *)
(* scheduler_build on while no failure is recorded: it is published by   *)
(* the cache hit or queued by the miss, and the loop only moves it from  *)
(* the queue to cur and from cur to sched->completed.                     *)
TopTracked == (~failed /\ phase # "build") => Tracked(Top)

(* main() returns "ok" only from scheduler_run's exit with an empty     *)
(* queue, no fiber and no failure, after which nothing changes.          *)
OkFinal ==
    exitCode = "ok" =>
        /\ phase = "done" /\ ~failed /\ queue = <<>> /\ cur = None

(* main() has a result only once scheduler_run has returned for the last *)
(* time: the process is done and no fiber runs.                           *)
ExitFinal == exitCode # "none" => phase = "done" /\ cur = None

WInv ==
    /\ IInv
    /\ BuildFresh
    /\ CompleteIffPublished
    /\ PcBound
    /\ NoLostWakeup
    /\ ReqTracked
    /\ TopTracked
    /\ OkFinal
    /\ ExitFinal

-----------------------------------------------------------------------------
(***************************************************************************)
(* The elements of the ready queue and of the waiter lists under the      *)
(* sequence operations the scheduler applies to them.                     *)
(***************************************************************************)
LEMMA ElemsEmpty == Elems(<<>>) = {}
BY DEF Elems

LEMMA ElemsAppend ==
    ASSUME NEW S, NEW s \in Seq(S), NEW e
    PROVE  Elems(Append(s, e)) = Elems(s) \cup {e}
BY DEF Elems

LEMMA ElemsConcat ==
    ASSUME NEW S, NEW s \in Seq(S), NEW w \in Seq(S)
    PROVE  Elems(s \o w) = Elems(s) \cup Elems(w)
<1>1. Elems(s \o w) \subseteq Elems(s) \cup Elems(w)
    <2> SUFFICES ASSUME NEW i \in 1..Len(s \o w)
                 PROVE  (s \o w)[i] \in Elems(s) \cup Elems(w)
        BY DEF Elems
    <2>1. CASE i <= Len(s)
        BY <2>1 DEF Elems
    <2>2. CASE i > Len(s)
        <3>1. i - Len(s) \in 1..Len(w) /\ (s \o w)[i] = w[i - Len(s)]
            BY <2>2
        <3>. QED
            BY <3>1 DEF Elems
    <2>. QED
        BY <2>1, <2>2
<1>2. Elems(s) \subseteq Elems(s \o w)
    <2> SUFFICES ASSUME NEW i \in 1..Len(s) PROVE s[i] \in Elems(s \o w)
        BY DEF Elems
    <2>1. i \in 1..Len(s \o w) /\ (s \o w)[i] = s[i]
        OBVIOUS
    <2>. QED
        BY <2>1 DEF Elems
<1>3. Elems(w) \subseteq Elems(s \o w)
    <2> SUFFICES ASSUME NEW i \in 1..Len(w) PROVE w[i] \in Elems(s \o w)
        BY DEF Elems
    <2>1. Len(s) + i \in 1..Len(s \o w) /\ (s \o w)[Len(s) + i] = w[i]
        OBVIOUS
    <2>. QED
        BY <2>1 DEF Elems
<1>. QED
    BY <1>1, <1>2, <1>3

LEMMA ElemsTail ==
    ASSUME NEW S, NEW s \in Seq(S), s # <<>>
    PROVE  Elems(s) = {Head(s)} \cup Elems(Tail(s))
<1>1. Len(s) >= 1
    OBVIOUS
<1>2. Elems(s) \subseteq {Head(s)} \cup Elems(Tail(s))
    <2> SUFFICES ASSUME NEW i \in 1..Len(s)
                 PROVE  s[i] \in {Head(s)} \cup Elems(Tail(s))
        BY DEF Elems
    <2>1. CASE i = 1
        BY <2>1
    <2>2. CASE i > 1
        <3>1. i - 1 \in 1..Len(Tail(s)) /\ Tail(s)[i - 1] = s[i]
            BY <1>1, <2>2
        <3>. QED
            BY <3>1 DEF Elems
    <2>. QED
        BY <2>1, <2>2
<1>3. {Head(s)} \cup Elems(Tail(s)) \subseteq Elems(s)
    <2>1. Head(s) \in Elems(s)
        BY <1>1 DEF Elems
    <2>2. ASSUME NEW i \in 1..Len(Tail(s)) PROVE Tail(s)[i] \in Elems(s)
        <3>1. i + 1 \in 1..Len(s) /\ Tail(s)[i] = s[i + 1]
            BY <1>1
        <3>. QED
            BY <3>1 DEF Elems
    <2>. QED
        BY <2>1, <2>2 DEF Elems
<1>. QED
    BY <1>2, <1>3

(***************************************************************************)
(* What a host call adds to the targets a script has requested.          *)
(***************************************************************************)
(* Every requested target is a target: the fiber never goes past its     *)
(* script, and depend_on's argument is a target.                          *)
LEMMA RequestedType ==
    ASSUME TypeOK, PcBound, NEW t \in Targets
    PROVE  Requested(t) \subseteq Targets
<1> SUFFICES ASSUME NEW j \in 1..pc[t], script[t][j].op = "depend_on"
             PROVE  script[t][j].arg \in Targets
    BY DEF Requested
<1>1. script[t] \in Seq(Calls) /\ j \in 1..Len(script[t])
    BY ScriptAssumption DEF TypeOK, PcBound
<1>2. script[t][j] \in Calls
    BY <1>1
<1>. QED
    BY <1>2, CallArgType

(* A host call of cur's fiber: cur's requested targets grow by the       *)
(* argument of a depend_on and by nothing else; no other fiber's change. *)
LEMMA RequestedStep ==
    ASSUME TypeOK, HasNextCall,
           pc' = [pc EXCEPT ![cur] = @ + 1], script' = script, cur' = cur
    PROVE  /\ Requested(cur)' =
                Requested(cur) \cup (IF NextCall.op = "depend_on"
                                     THEN {NextCall.arg} ELSE {})
           /\ \A t \in Targets \ {cur} : Requested(t)' = Requested(t)
<1> DEFINE c == cur
           n == pc[c] + 1
           Dep(t, k) == {j \in 1..k : script[t][j].op = "depend_on"}
<1>1. c \in Targets /\ pc[c] \in Nat
    BY DEF HasNextCall, TypeOK
<1>2. pc'[c] = n
    BY <1>1 DEF TypeOK
<1>3. Requested(c)' = {script[c][j].arg : j \in Dep(c, n)}
    BY <1>2 DEF Requested
<1>4. Requested(c) = {script[c][j].arg : j \in Dep(c, pc[c])}
    BY DEF Requested
<1>5. Dep(c, n) = Dep(c, pc[c]) \cup
                  (IF script[c][n].op = "depend_on" THEN {n} ELSE {})
    BY <1>1
<1>6. NextCall = script[c][n]
    BY DEF NextCall
<1>7. Requested(cur)' =
        Requested(cur) \cup (IF NextCall.op = "depend_on"
                             THEN {NextCall.arg} ELSE {})
    BY <1>3, <1>4, <1>5, <1>6
<1>8. \A t \in Targets \ {cur} : Requested(t)' = Requested(t)
    BY DEF Requested, TypeOK
<1>. QED
    BY <1>7, <1>8

(* A fiber that has made no host call has requested nothing. *)
LEMMA RequestedZero ==
    ASSUME NEW t, pc[t] = 0
    PROVE  Requested(t) = {}
<1>1. 1..pc[t] = {}
    OBVIOUS
<1>. QED
    BY <1>1 DEF Requested

(* The same after a step that restarts t's fiber. *)
LEMMA RequestedZeroNext ==
    ASSUME NEW t, pc'[t] = 0
    PROVE  Requested(t)' = {}
<1>1. 1..pc'[t] = {}
    OBVIOUS
<1>. QED
    BY <1>1 DEF Requested

(* A step that leaves t's script and call count leaves what it requested. *)
LEMMA RequestedFrame ==
    ASSUME NEW t, script'[t] = script[t], pc'[t] = pc[t]
    PROVE  Requested(t)' = Requested(t)
BY DEF Requested

-----------------------------------------------------------------------------
(***************************************************************************)
(* The strengthening is inductive.                                        *)
(***************************************************************************)
(* Init establishes it: nothing has run. *)
LEMMA WInvInit == Init => WInv
<1> SUFFICES ASSUME Init PROVE WInv
    OBVIOUS
<1>1. IInv /\ TypeOK
    BY IInvInit DEF IInv
<1>2. BuildFresh /\ NoLostWakeup /\ TopTracked /\ OkFinal /\ ExitFinal
    BY DEF Init, BuildFresh, NoLostWakeup, TopTracked, OkFinal, ExitFinal
<1>3. CompleteIffPublished
    BY DEF Init, CompleteIffPublished
<1>4. PcBound
    <2> SUFFICES ASSUME NEW t \in Targets PROVE pc[t] <= Len(script[t])
        BY DEF PcBound
    <2>1. script[t] \in Seq(Calls) /\ pc[t] = 0
        BY ScriptAssumption DEF Init
    <2>. QED
        BY <2>1
<1>5. \A t \in Targets : Requested(t) = {}
    BY RequestedZero DEF Init
<1>6. ReqTracked
    BY <1>5 DEF Init, ReqTracked
<1>. QED
    BY <1>1, <1>2, <1>3, <1>4, <1>6 DEF WInv

(* Tracked targets stay tracked under a step that neither records a      *)
(* failure nor changes completed, the queue's elements or cur except by  *)
(* growing them.                                                          *)
LEMMA TrackedGrow ==
    ASSUME completed \subseteq completed', Elems(queue) \subseteq Elems(queue'),
           cur' = cur, NEW x, Tracked(x)
    PROVE  Tracked(x)'
BY DEF Tracked

(* Every step preserves it. *)
LEMMA WInvStep == WInv /\ [Next]_vars => WInv'
<1> SUFFICES ASSUME WInv, [Next]_vars PROVE WInv'
    OBVIOUS
<1>0. /\ IInv /\ IInv' /\ TypeOK /\ TypeOK'
      /\ BuildFresh /\ CompleteIffPublished /\ PcBound /\ NoLostWakeup
      /\ ReqTracked /\ TopTracked /\ OkFinal /\ ExitFinal
    BY IInvStep, TypeStep DEF WInv, IInv
<1>1. CASE scheduler_build
    <2>1. /\ phase = "build" /\ phase' # "build" /\ cur = None
          /\ completed = {} /\ \A t \in Targets : waiting[t] = <<>> /\ pc[t] = 0
        BY <1>0, <1>1 DEF scheduler_build, BuildFresh, IInv, Idle
    <2>2. UNCHANGED <<script, pc, waiting, cur, exitCode, failed>>
        BY <1>1 DEF scheduler_build
    <2>3. \/ /\ state' = [state EXCEPT ![Top] = "Complete"]
             /\ completed' = {Top} /\ queue' = queue
          \/ /\ queue' = Append(queue, Top)
             /\ UNCHANGED <<state, completed>>
        BY <1>1, <2>1 DEF scheduler_build
    <2>4. CompleteIffPublished'
        BY <1>0, <2>1, <2>3, TargetsAssumption DEF CompleteIffPublished, TypeOK
    <2>5. BuildFresh' /\ PcBound' /\ NoLostWakeup'
        BY <1>0, <2>1, <2>2, <2>3, TargetsAssumption
        DEF BuildFresh, PcBound, NoLostWakeup
    <2>6. Tracked(Top)'
        <3>1. CASE completed' = {Top}
            BY <3>1 DEF Tracked
        <3>2. CASE queue' = Append(queue, Top)
            BY <1>0, <3>2, ElemsAppend DEF Tracked, TypeOK
        <3>. QED
            BY <2>3, <3>1, <3>2
    <2>7. \A t \in Targets : Requested(t)' = {}
        BY <2>1, <2>2, RequestedZero, RequestedFrame
    <2>8. ReqTracked' /\ TopTracked'
        BY <2>6, <2>7 DEF ReqTracked, TopTracked
    <2>9. OkFinal' /\ ExitFinal'
        BY <1>0, <2>1, <2>2 DEF OkFinal, ExitFinal
    <2>. QED
        BY <1>0, <2>4, <2>5, <2>8, <2>9 DEF WInv
<1>2. CASE scheduler_run_exit
    <2>1. /\ phase \in {"run1", "run2"} /\ cur = None
          /\ (queue = <<>> \/ failed)
          /\ phase' = IF phase = "run1" /\ ~failed THEN "run2" ELSE "done"
          /\ exitCode' = IF failed THEN "exec"
                         ELSE IF phase = "run2" THEN "ok" ELSE "none"
          /\ UNCHANGED <<script, state, queue, waiting, completed, failed,
                         cur, pc>>
        BY <1>2 DEF scheduler_run_exit
    <2>2. BuildFresh' /\ CompleteIffPublished' /\ PcBound' /\ NoLostWakeup'
        BY <1>0, <2>1 DEF BuildFresh, CompleteIffPublished, PcBound,
                          NoLostWakeup
    <2>3. ReqTracked' /\ TopTracked'
        BY <1>0, <2>1 DEF ReqTracked, TopTracked, Requested, Tracked
    <2>4. OkFinal' /\ ExitFinal'
        BY <2>1 DEF OkFinal, ExitFinal
    <2>. QED
        BY <1>0, <2>2, <2>3, <2>4 DEF WInv
<1>3. CASE scheduler_run_skip
    <2>1. /\ phase \in {"run1", "run2"} /\ queue # <<>>
          /\ state[Head(queue)] = "Complete" /\ queue' = Tail(queue)
          /\ UNCHANGED <<script, state, waiting, completed, failed, cur, pc,
                         phase, exitCode>>
        BY <1>3 DEF scheduler_run_skip
    <2>2. Head(queue) \in completed
        BY <1>0, <2>1 DEF CompleteIffPublished, TypeOK
    <2>3. Elems(queue) = {Head(queue)} \cup Elems(queue')
        BY <1>0, <2>1, ElemsTail DEF TypeOK
    <2>4. ASSUME NEW x, Tracked(x) PROVE Tracked(x)'
        BY <2>1, <2>2, <2>3, <2>4 DEF Tracked
    <2>5. ReqTracked' /\ TopTracked'
        BY <1>0, <2>1, <2>4 DEF ReqTracked, TopTracked, Requested
    <2>6. BuildFresh' /\ CompleteIffPublished' /\ PcBound' /\ NoLostWakeup'
          /\ OkFinal' /\ ExitFinal'
        BY <1>0, <2>1 DEF BuildFresh, CompleteIffPublished, PcBound,
                          NoLostWakeup, OkFinal, ExitFinal
    <2>. QED
        BY <1>0, <2>5, <2>6 DEF WInv
<1>4. CASE scheduler_execute_recipe
    <2> DEFINE h == Head(queue)
    <2>1. /\ phase \in {"run1", "run2"} /\ cur = None /\ queue # <<>>
          /\ h \in Targets /\ state[h] # "Complete"
          /\ queue' = Tail(queue) /\ cur' = h
          /\ state' = [state EXCEPT ![h] = "Running"]
          /\ pc' = [pc EXCEPT ![h] = 0]
          /\ UNCHANGED <<script, waiting, completed, failed, phase, exitCode>>
        BY <1>0, <1>4 DEF scheduler_execute_recipe, TypeOK
    <2>2. h \notin completed
        BY <1>0, <2>1 DEF CompleteIffPublished
    <2>3. CompleteIffPublished'
        BY <1>0, <2>1, <2>2 DEF CompleteIffPublished, TypeOK
    <2>4. PcBound'
        BY <1>0, <2>1 DEF PcBound, TypeOK
    <2>5. BuildFresh' /\ NoLostWakeup' /\ OkFinal' /\ ExitFinal'
        BY <1>0, <2>1 DEF BuildFresh, NoLostWakeup, OkFinal, ExitFinal
    <2>6. Elems(queue) = {h} \cup Elems(queue')
        BY <1>0, <2>1, ElemsTail DEF TypeOK
    <2>7. ASSUME NEW x \in Targets, Tracked(x) PROVE Tracked(x)'
        BY <2>1, <2>6, <2>7, TargetsAssumption DEF Tracked
    <2>8. \A t \in Targets : /\ t = h => Requested(t)' = {}
                             /\ t # h => Requested(t)' = Requested(t)
        <3> SUFFICES ASSUME NEW t \in Targets
                     PROVE  /\ t = h => Requested(t)' = {}
                            /\ t # h => Requested(t)' = Requested(t)
            OBVIOUS
        <3>1. t = h => pc'[t] = 0
            BY <1>0, <2>1 DEF TypeOK
        <3>2. t # h => pc'[t] = pc[t] /\ script'[t] = script[t]
            BY <1>0, <2>1 DEF TypeOK
        <3>. QED
            BY <3>1, <3>2, RequestedZeroNext, RequestedFrame
    <2>9. ReqTracked'
        <3> SUFFICES ASSUME CallbacksWired, ~failed'
                     PROVE  \A t \in Targets : \A d \in Requested(t)' :
                                Tracked(d)'
            BY DEF ReqTracked
        <3>1. \A t \in Targets : \A d \in Requested(t) : Tracked(d)
            BY <1>0, <2>1 DEF ReqTracked
        <3>2. \A t \in Targets : Requested(t) \subseteq Targets
            BY <1>0, RequestedType
        <3>3. ASSUME NEW t \in Targets, NEW y \in Requested(t)'
              PROVE  Tracked(y)'
            <4>0. t # h
                BY <2>8, <3>3
            <4>1. y \in Requested(t)
                BY <2>8, <3>3, <4>0
            <4>2. y \in Targets /\ Tracked(y)
                BY <3>1, <3>2, <4>1
            <4>. QED
                BY <2>7, <4>2
        <3>. QED
            BY <3>3
    <2>10. TopTracked'
        BY <1>0, <2>1, <2>7, TargetsAssumption DEF TopTracked
    <2>. QED
        BY <1>0, <2>3, <2>4, <2>5, <2>9, <2>10 DEF WInv
<1>5. CASE umka_ffi_rebuild_register_dep
    <2>1. /\ HasNextCall /\ NextCall.op = "register_dep"
          /\ pc' = [pc EXCEPT ![cur] = @ + 1]
          /\ UNCHANGED <<script, state, queue, waiting, completed, failed,
                         cur, phase, exitCode>>
        BY <1>5 DEF umka_ffi_rebuild_register_dep
    <2>2. cur \in Targets /\ pc[cur] < Len(script[cur])
        BY <1>0, <2>1 DEF HasNextCall, TypeOK
    <2>3. PcBound'
        BY <1>0, <2>1, <2>2 DEF PcBound, TypeOK
    <2>4. \A t \in Targets : Requested(t)' = Requested(t)
        BY <1>0, <2>1, RequestedStep
    <2>5. ReqTracked' /\ TopTracked'
        BY <1>0, <2>1, <2>4 DEF ReqTracked, TopTracked, Tracked
    <2>6. BuildFresh' /\ CompleteIffPublished' /\ NoLostWakeup' /\ OkFinal'
          /\ ExitFinal'
        BY <1>0, <2>1, <2>2, TargetsAssumption
        DEF BuildFresh, CompleteIffPublished, NoLostWakeup, OkFinal, ExitFinal,
            IInv, Idle
    <2>. QED
        BY <1>0, <2>3, <2>5, <2>6 DEF WInv
<1>6. CASE umka_ffi_rebuild_depend_on_unwired
    <2>1. /\ HasNextCall /\ ~CallbacksWired
          /\ pc' = [pc EXCEPT ![cur] = @ + 1]
          /\ UNCHANGED <<script, state, queue, waiting, completed, failed,
                         cur, phase, exitCode>>
        BY <1>6 DEF umka_ffi_rebuild_depend_on_unwired
    <2>2. cur \in Targets /\ pc[cur] < Len(script[cur])
        BY <1>0, <2>1 DEF HasNextCall, TypeOK
    <2>3. PcBound'
        BY <1>0, <2>1, <2>2 DEF PcBound, TypeOK
    <2>4. ReqTracked' /\ TopTracked'
        BY <1>0, <2>1 DEF ReqTracked, TopTracked, Tracked
    <2>5. BuildFresh' /\ CompleteIffPublished' /\ NoLostWakeup' /\ OkFinal'
          /\ ExitFinal'
        BY <1>0, <2>1, <2>2, TargetsAssumption
        DEF BuildFresh, CompleteIffPublished, NoLostWakeup, OkFinal, ExitFinal,
            IInv, Idle
    <2>. QED
        BY <1>0, <2>3, <2>4, <2>5 DEF WInv
<1>7. CASE scheduler_on_depend_request
    <2> DEFINE d == NextCall.arg
    <2>1. /\ HasNextCall /\ NextCall.op = "depend_on"
          /\ pc' = [pc EXCEPT ![cur] = @ + 1]
          /\ UNCHANGED <<script, completed, failed, cur, phase, exitCode>>
        BY <1>7 DEF scheduler_on_depend_request, recipe_add_dependency
    <2>2. /\ cur \in Targets /\ pc[cur] < Len(script[cur]) /\ d \in Targets
          /\ ~failed /\ phase # "build"
          /\ state[cur] \in {"Running", "Suspended"}
        BY <1>0, <2>1, NextCallType, CallArgType
        DEF HasNextCall, TypeOK, IInv, Idle, CurIsActive
    <2>3. \/ /\ d \in completed
             /\ UNCHANGED <<state, queue, waiting>>
          \/ /\ d \notin completed /\ state[d] = "Pending"
             /\ state' = [state EXCEPT ![cur] = "Suspended"]
             /\ waiting' = [waiting EXCEPT ![d] = <<cur>> \o @]
             /\ queue' = Append(queue, d)
          \/ /\ d \notin completed /\ state[d] \notin {"Pending", "Complete"}
             /\ d = cur
             /\ state' = [state EXCEPT ![cur] = "Suspended"]
             /\ waiting' = [waiting EXCEPT ![d] = <<cur>> \o @]
             /\ UNCHANGED queue
        <3>1. state[d] = "Complete" => d \in completed
            BY <1>0, <2>2 DEF CompleteIffPublished
        <3>2. state[d] \notin {"Pending", "Complete"} => d = cur
            <4>1. state[d] # "Failed"
                BY <1>0, <2>2 DEF IInv, FailedFlagged
            <4>. QED
                BY <1>0, <2>2, <4>1 DEF IInv, CurIsActive, TypeOK, States
        <3>. QED
            BY <1>7, <3>1, <3>2
            DEF scheduler_on_depend_request, recipe_add_dependency
    <2>4. PcBound'
        BY <1>0, <2>1, <2>2 DEF PcBound, TypeOK
    <2>5. CompleteIffPublished'
        BY <1>0, <2>1, <2>2, <2>3 DEF CompleteIffPublished, TypeOK
    <2>6. NoLostWakeup'
        BY <1>0, <2>1, <2>2, <2>3 DEF NoLostWakeup, TypeOK
    <2>7. BuildFresh' /\ OkFinal' /\ ExitFinal'
        BY <1>0, <2>1, <2>2, TargetsAssumption DEF BuildFresh, OkFinal, ExitFinal
    <2>8. Elems(queue) \subseteq Elems(queue') /\ d \in completed \cup Elems(queue') \cup {cur}
        <3>1. CASE queue' = Append(queue, d)
            <4>1. queue \in Seq(Targets)
                BY <1>0 DEF TypeOK
            <4>2. Elems(queue') = Elems(queue) \cup {d}
                BY <3>1, <4>1, ElemsAppend
            <4>. QED
                BY <4>2
        <3>2. CASE queue' = queue
            BY <2>3, <3>2
        <3>. QED
            BY <2>3, <3>1, <3>2
    <2>9. /\ Requested(cur)' = Requested(cur) \cup {d}
          /\ \A t \in Targets \ {cur} : Requested(t)' = Requested(t)
        BY <1>0, <2>1, RequestedStep
    <2>10. \A y : Tracked(y) => Tracked(y)'
        BY <2>1, <2>8, TrackedGrow
    <2>11. TopTracked'
        BY <1>0, <2>1, <2>10 DEF TopTracked
    <2>12. ReqTracked'
        <3> SUFFICES ASSUME CallbacksWired, ~failed'
                     PROVE  \A t \in Targets : \A y \in Requested(t)' :
                                Tracked(y)'
            BY DEF ReqTracked
        <3>1. \A y : Tracked(y) => Tracked(y)'
            BY <2>10
        <3>2. ASSUME NEW y, y = d PROVE Tracked(y)'
            BY <2>1, <2>8, <3>2 DEF Tracked
        <3>3. \A t \in Targets : \A y \in Requested(t) : Tracked(y)
            BY <1>0, <2>1 DEF ReqTracked
        <3>5. ASSUME NEW t \in Targets, NEW y \in Requested(t)'
              PROVE  Tracked(y)'
            <4>1. CASE t = cur /\ y = d
                BY <3>2, <4>1
            <4>2. CASE t = cur /\ y # d
                <5>1. y \in Requested(cur)
                    BY <2>1, <2>9, <3>5, <4>2
                <5>. QED
                    BY <2>2, <3>1, <3>3, <5>1
            <4>3. CASE t # cur
                BY <2>9, <3>1, <3>3, <3>5, <4>3
            <4>. QED
                BY <4>1, <4>2, <4>3
        <3>. QED
            BY <3>5
    <2>. QED
        BY <1>0, <2>4, <2>5, <2>6, <2>7, <2>11, <2>12 DEF WInv
<1>8. CASE scheduler_on_recipe_complete
    <2>1. /\ cur \in Targets /\ cur' = None /\ ~failed /\ phase # "build"
          /\ state[cur] \in {"Running", "Suspended"}
          /\ UNCHANGED <<script, pc, phase, exitCode>>
        BY <1>0, <1>8 DEF scheduler_on_recipe_complete, TypeOK, IInv, Idle,
                          CurIsActive
    <2>2. cur \notin completed
        BY <1>0, <2>1 DEF CompleteIffPublished
    <2>3. \A t \in Targets \ {cur} : state[t] \notin {"Running", "Suspended"}
        BY <1>0, <2>1 DEF IInv, CurIsActive
    <2>4. BuildFresh' /\ PcBound' /\ OkFinal' /\ ExitFinal'
        BY <1>0, <2>1, TargetsAssumption
        DEF BuildFresh, PcBound, OkFinal, ExitFinal
    <2>5. CASE cur \notin throws
        <3>1. /\ state' = [t \in Targets |->
                             IF t = cur THEN "Complete"
                             ELSE IF t \in Elems(waiting[cur]) /\
                                     state[t] = "Suspended"
                                  THEN "Pending" ELSE state[t]]
              /\ completed' = completed \cup {cur}
              /\ queue' = queue \o waiting[cur]
              /\ waiting' = [waiting EXCEPT ![cur] = <<>>]
            BY <1>8, <2>5 DEF scheduler_on_recipe_complete
        <3>2. state' = [t \in Targets |->
                          IF t = cur THEN "Complete" ELSE state[t]]
            BY <2>3, <3>1
        <3>3. CompleteIffPublished'
            BY <1>0, <2>1, <3>1, <3>2 DEF CompleteIffPublished, TypeOK
        <3>4. NoLostWakeup'
            BY <1>0, <3>1 DEF NoLostWakeup, TypeOK
        <3>5. Elems(queue') = Elems(queue) \cup Elems(waiting[cur])
            BY <1>0, <2>1, <3>1, ElemsConcat DEF TypeOK
        <3>6. ASSUME NEW x, Tracked(x) PROVE Tracked(x)'
            BY <3>1, <3>5, <3>6 DEF Tracked
        <3>7. ReqTracked' /\ TopTracked'
            BY <1>0, <2>1, <3>1, <3>6 DEF ReqTracked, TopTracked, Requested
        <3>. QED
            BY <1>0, <2>4, <3>3, <3>4, <3>7 DEF WInv
    <2>6. CASE cur \in throws
        <3>1. /\ state' = [state EXCEPT ![cur] = "Failed"] /\ failed'
              /\ UNCHANGED <<completed, queue, waiting>>
            BY <1>8, <2>6 DEF scheduler_on_recipe_complete
        <3>2. CompleteIffPublished'
            BY <1>0, <2>1, <2>2, <3>1 DEF CompleteIffPublished, TypeOK
        <3>3. NoLostWakeup' /\ ReqTracked' /\ TopTracked'
            BY <1>0, <3>1 DEF NoLostWakeup, ReqTracked, TopTracked
        <3>. QED
            BY <1>0, <2>4, <3>2, <3>3 DEF WInv
    <2>. QED
        BY <2>5, <2>6
<1>9. CASE Terminated \/ UNCHANGED vars
    BY <1>0, <1>9 DEF Terminated, vars, WInv, BuildFresh, CompleteIffPublished,
                      PcBound, NoLostWakeup, ReqTracked, TopTracked, OkFinal,
                      ExitFinal, Requested, Tracked
<1>. QED
    BY <1>1, <1>2, <1>3, <1>4, <1>5, <1>6, <1>7, <1>8, <1>9 DEF Next

(* The strengthening holds in every reachable state. *)
LEMMA WInvHolds == Spec => []WInv
BY WInvInit, WInvStep, PTL DEF Spec

-----------------------------------------------------------------------------
(***************************************************************************)
(* No lost wake-up: for every set of targets and scripts, with or without *)
(* the depend_on callback, a target published in sched->completed has no *)
(* waiter left enlisted: scheduler_on_recipe_complete removes the list    *)
(* when it publishes, scheduler_on_depend_request never enlists a waiter  *)
(* on a published target, and scheduler_build's cache hit publishes the   *)
(* top target before anything could wait on it.                          *)
(***************************************************************************)
THEOREM NoLostWakeupHolds == Spec => []NoLostWakeup
BY WInvHolds, PTL DEF WInv

(* With the callbacks wired, a state in which main() reports success has *)
(* the top target and everything a published recipe requested published. *)
LEMMA OkMeansComplete ==
    ASSUME WInv, CallbacksWired
    PROVE  SuccessfulBuildIsComplete
<1> SUFFICES ASSUME exitCode = "ok"
             PROVE  /\ Top \in completed
                    /\ \A t \in completed : Requested(t) \subseteq completed
    BY DEF SuccessfulBuildIsComplete
<1>1. /\ phase = "done" /\ ~failed /\ queue = <<>> /\ cur = None
      /\ TypeOK /\ PcBound
    BY DEF WInv, OkFinal, IInv
<1>2. \A x \in Targets : Tracked(x) => x \in completed
    BY <1>1, ElemsEmpty, TargetsAssumption DEF Tracked
<1>3. Tracked(Top) /\ \A t \in Targets : \A d \in Requested(t) : Tracked(d)
    BY <1>1 DEF WInv, ReqTracked, TopTracked
<1>4. \A t \in Targets : Requested(t) \subseteq Targets
    BY <1>1, RequestedType
<1>. QED
    BY <1>1, <1>2, <1>3, <1>4, TargetsAssumption DEF TypeOK

(***************************************************************************)
(* A successful build is complete: when umka_bridge_set_callbacks has     *)
(* installed depend_on, for every set of targets and scripts, main()      *)
(* exits 0 only after the top target and every target a published         *)
(* recipe's script asked for through depend_on have been published.      *)
(* Every depend_on either finds its target published, queues it, or      *)
(* meets the running recipe itself, and scheduler_run exits cleanly only *)
(* with an empty queue and no fiber.  Without the callback the theorem   *)
(* is false (the shipped_dependencies run).                                *)
(***************************************************************************)
THEOREM SuccessfulBuildComplete ==
    ASSUME CallbacksWired
    PROVE  Spec => []SuccessfulBuildIsComplete
<1>1. WInv => SuccessfulBuildIsComplete
    BY OkMeansComplete
<1>. QED
    BY <1>1, WInvHolds, PTL


-----------------------------------------------------------------------------
(***************************************************************************)
(* The scheduler implements AbstractBuild under the mapping of Scheduler: *)
(* sched->completed is the published set, the failure flag is the abstract *)
(* one and main()'s exit code is the outcome.  Every step either publishes *)
(* one unpublished target while no failure is recorded and main() has no *)
(* result (the cache hit, scheduler_on_recipe_complete), records the first *)
(* failure, fixes the result, or leaves the three alone.                  *)
(***************************************************************************)
(* While main() has no result its outcome is "running"; it has none while *)
(* the process is not done or a fiber runs.                               *)
LEMMA RunningOutcome ==
    ASSUME ExitFinal, phase # "done" \/ cur # None
    PROVE  exitCode = "none" /\ Outcome = "running"
BY DEF ExitFinal, Outcome

(* A step that does not touch the published set, the failure flag or the *)
(* exit code is an abstract stutter.                                      *)
LEMMA AbsStutter ==
    ASSUME UNCHANGED <<completed, failed, exitCode>>
    PROVE  UNCHANGED <<completed, failed, Outcome>>
BY DEF Outcome

(* Every step of the scheduler is a step of the abstract build or leaves *)
(* its variables alone.                                                   *)
LEMMA RefinementStep ==
    WInv /\ [Next]_vars => [AbsBuild!Next]_<<completed, failed, Outcome>>
<1> SUFFICES ASSUME WInv, [Next]_vars
             PROVE  [AbsBuild!Next]_<<completed, failed, Outcome>>
    OBVIOUS
<1>0. /\ TypeOK /\ Idle /\ CurIsActive /\ BuildFresh /\ CompleteIffPublished
      /\ TopTracked /\ ExitFinal
    BY DEF WInv, IInv
<1>1. CASE scheduler_build
    <2>1. /\ phase = "build" /\ ~failed /\ completed = {}
          /\ UNCHANGED <<failed, exitCode>>
        BY <1>0, <1>1 DEF scheduler_build, Idle, BuildFresh
    <2>2. Outcome = "running"
        BY <1>0, <2>1, RunningOutcome
    <2>3. CASE scheduler_check_cache
        <3>1. completed' = completed \cup {Top} /\ Top \notin completed
            BY <1>1, <2>1, <2>3 DEF scheduler_build
        <3>. QED
            BY <2>1, <2>2, <3>1, TargetsAssumption
            DEF AbsBuild!Next, AbsBuild!Publish, Outcome
    <2>4. CASE ~scheduler_check_cache
        BY <1>1, <2>1, <2>4, AbsStutter DEF scheduler_build
    <2>. QED
        BY <2>3, <2>4
<1>2. CASE scheduler_run_exit
    <2>1. /\ phase \in {"run1", "run2"} /\ cur = None
          /\ (queue = <<>> \/ failed)
          /\ exitCode' = IF failed THEN "exec"
                         ELSE IF phase = "run2" THEN "ok" ELSE "none"
          /\ UNCHANGED <<completed, failed>>
        BY <1>2 DEF scheduler_run_exit
    <2>2. Outcome = "running"
        BY <1>0, <2>1, RunningOutcome
    <2>3. CASE failed
        BY <2>1, <2>2, <2>3 DEF AbsBuild!Next, AbsBuild!FinishError, Outcome
    <2>4. CASE ~failed /\ phase = "run2"
        <3>1. queue = <<>> /\ Tracked(Top)
            BY <1>0, <2>1, <2>4 DEF TopTracked
        <3>2. Top \in completed
            BY <2>1, <3>1, ElemsEmpty, TargetsAssumption DEF Tracked
        <3>. QED
            BY <2>1, <2>2, <2>4, <3>2 DEF AbsBuild!Next, AbsBuild!FinishOk,
                                          Outcome
    <2>5. CASE ~failed /\ phase = "run1"
        BY <2>1, <2>5, <2>2 DEF Outcome
    <2>. QED
        BY <2>1, <2>3, <2>4, <2>5
<1>3. CASE \/ scheduler_run_skip \/ scheduler_execute_recipe
           \/ umka_ffi_rebuild_register_dep
           \/ umka_ffi_rebuild_depend_on_unwired
           \/ scheduler_on_depend_request
           \/ Terminated \/ UNCHANGED vars
    <2>1. UNCHANGED <<completed, failed, exitCode>>
        BY <1>3 DEF scheduler_run_skip, scheduler_execute_recipe,
                    umka_ffi_rebuild_register_dep,
                    umka_ffi_rebuild_depend_on_unwired,
                    scheduler_on_depend_request, recipe_add_dependency,
                    Terminated, vars
    <2>. QED
        BY <2>1, AbsStutter
<1>4. CASE scheduler_on_recipe_complete
    <2>1. /\ cur \in Targets /\ ~failed /\ UNCHANGED exitCode
          /\ state[cur] \in {"Running", "Suspended"}
        BY <1>0, <1>4 DEF scheduler_on_recipe_complete, TypeOK, Idle,
                          CurIsActive
    <2>2. cur \notin completed
        BY <1>0, <2>1 DEF CompleteIffPublished
    <2>3. Outcome = "running" /\ Outcome' = "running"
        BY <1>0, <2>1, RunningOutcome, TargetsAssumption DEF Outcome
    <2>4. CASE cur \notin throws
        <3>1. completed' = completed \cup {cur} /\ UNCHANGED failed
            BY <1>4, <2>4 DEF scheduler_on_recipe_complete
        <3>. QED
            BY <2>1, <2>2, <2>3, <3>1 DEF AbsBuild!Next, AbsBuild!Publish
    <2>5. CASE cur \in throws
        <3>1. failed' = TRUE /\ UNCHANGED completed
            BY <1>4, <2>5 DEF scheduler_on_recipe_complete
        <3>. QED
            BY <2>1, <2>3, <3>1 DEF AbsBuild!Next, AbsBuild!Fail
    <2>. QED
        BY <2>4, <2>5
<1>. QED
    BY <1>1, <1>2, <1>3, <1>4 DEF Next

(***************************************************************************)
(* Refinement: for every set of targets and scripts, with or without the  *)
(* depend_on callback, the scheduler and main() implement the abstract    *)
(* build.  No target is published twice, nothing is published after the *)
(* first failure or after main() has its result, exit 0 is reported only *)
(* with the top target published and no failure, and REBUILD_ERROR_EXEC  *)
(* only after a failure.                                                  *)
(***************************************************************************)
THEOREM RefinesAbstractBuild == Spec => AbstractBuildSpec
<1>1. Init => AbsBuild!Init
    BY DEF Init, AbsBuild!Init, Outcome
<1>2. WInv /\ [Next]_vars => [AbsBuild!Next]_<<completed, failed, Outcome>>
    BY RefinementStep
<1>. QED
    BY <1>1, <1>2, WInvHolds, PTL DEF Spec, AbstractBuildSpec, AbsBuild!Spec

=============================================================================
