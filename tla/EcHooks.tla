------------------------------ MODULE EcHooks ------------------------------
(***************************************************************************)
(* The hook task (common/hooks.c): periodic hooks and deferred calls.      *)
(*                                                                         *)
(* HOOKS is the task of lowest priority.  hook_call_deferred is called by  *)
(* the tasks above it, by interrupts, and by the routines it runs: for the *)
(* hook task a call is one step, which comes between any two of its own    *)
(* except where it has disabled interrupts.  Time passes at any moment.    *)
(* The task's wait and event are those of EcTask.                          *)
(***************************************************************************)
EXTENDS Integers

CONSTANTS
  DEFERRED_FUNCS_COUNT,   \* routines, in the order of __deferred_funcs
  HOOK_TICK_INTERVAL, SECOND,
  MaxTime,                \* bound: ticks of the clock
  MaxDelay,               \* bound: delay of a call
  MaxCalls                \* bound: calls of hook_call_deferred

Funcs == 1 .. DEFERRED_FUNCS_COUNT

ASSUME HooksAssumption ==
  /\ DEFERRED_FUNCS_COUNT \in Nat \ {0}
  /\ HOOK_TICK_INTERVAL \in Nat \ {0} /\ SECOND \in Nat \ {0}
  /\ MaxTime \in Nat \ {0} /\ MaxDelay \in Nat /\ MaxCalls \in Nat

VARIABLES
  now,                    \* get_time().val
  deferred_until,         \* 0: not scheduled
  hook_task_started,
  last_tick, last_second,
  hook_pc, t, i, next,    \* hook_task: step, time it read, routine, sleep
  event,                  \* TASK_EVENT_WAKE is pending for the hook task
  wakeAt, lag,            \* its wait: the deadline, and the time since t
  owed,                   \* history: routines scheduled and not called since
  calls

clocks == <<last_tick, last_second>>
locals == <<t, i, next, wakeAt, lag>>
hooks_vars ==
  <<now, deferred_until, hook_task_started, clocks, hook_pc, locals, event, owed, calls>>

HooksInit ==
  /\ now = 1                            \* the counter runs before any call
  /\ deferred_until = [d \in Funcs |-> 0]
  /\ hook_task_started = FALSE
  /\ last_tick = 1 - HOOK_TICK_INTERVAL /\ last_second = 1 - SECOND
  /\ hook_pc = "start" /\ t = 0 /\ i = 0 /\ next = 0
  /\ event = FALSE /\ wakeAt = 0 /\ lag = 0
  /\ owed = {} /\ calls = 0

-----------------------------------------------------------------------------
Clock ==
  /\ now < MaxTime
  /\ now' = now + 1
  /\ UNCHANGED <<deferred_until, hook_task_started, clocks, hook_pc, locals, event, owed, calls>>

\* Mutant: the hook task is not woken.
CallWithoutWake(d, us) ==
  /\ calls < MaxCalls
  /\ calls' = calls + 1
  /\ deferred_until' = [deferred_until EXCEPT ![d] = IF us = -1 THEN 0 ELSE now + us]
  /\ owed' = IF us = -1 THEN owed \ {d} ELSE owed \union {d}
  /\ UNCHANGED <<now, hook_task_started, clocks, hook_pc, locals, event>>

hook_call_deferred(d, us) ==
  /\ calls < MaxCalls
  /\ calls' = calls + 1
  /\ deferred_until' = [deferred_until EXCEPT ![d] = IF us = -1 THEN 0 ELSE now + us]
  /\ owed' = IF us = -1 THEN owed \ {d} ELSE owed \union {d}
  /\ event' = (event \/ (us # -1 /\ hook_task_started))
  /\ UNCHANGED <<now, hook_task_started, clocks, hook_pc, locals>>

-----------------------------------------------------------------------------
(***************************************************************************)
(* hook_task.                                                              *)
(***************************************************************************)
hook_task_start ==
  /\ hook_pc = "start"
  /\ hook_task_started' = TRUE
  /\ hook_pc' = "top"
  /\ UNCHANGED <<now, deferred_until, clocks, locals, event, owed, calls>>

loop_top ==
  /\ hook_pc = "top"
  /\ t' = now /\ i' = 0
  /\ hook_pc' = "scan"
  /\ UNCHANGED <<now, deferred_until, hook_task_started, clocks, next, wakeAt, lag,
                 event, owed, calls>>

\* Routines after the last one called whose time is before t.
Due == {d \in Funcs : d > i /\ deferred_until[d] # 0 /\ deferred_until[d] < t}

\* With interrupts disabled: the timer is cleared first, so the routine can
\* request itself to be called later.
call_deferred ==
  /\ hook_pc = "scan"
  /\ \E d \in Due :
       /\ \A e \in Due : d <= e
       /\ i' = d
       /\ deferred_until' = [deferred_until EXCEPT ![d] = 0]
       /\ owed' = owed \ {d}
  /\ hook_pc' = "call"
  /\ UNCHANGED <<now, hook_task_started, clocks, t, next, wakeAt, lag, event, calls>>

\* Mutant: the timer is cleared when the routine is back.
ReturnClears ==
  /\ hook_pc = "call"
  /\ deferred_until' = [deferred_until EXCEPT ![i] = 0]
  /\ hook_pc' = "scan"
  /\ UNCHANGED <<now, hook_task_started, clocks, locals, event, owed, calls>>

call_returns ==
  /\ hook_pc = "call"
  /\ hook_pc' = "scan"
  /\ UNCHANGED <<now, deferred_until, hook_task_started, clocks, locals, event, owed, calls>>

\* Nothing is due: the periodic hooks, if it is their time.
notify_tick ==
  /\ hook_pc = "scan" /\ Due = {}
  /\ last_tick' = IF t - last_tick >= HOOK_TICK_INTERVAL THEN t ELSE last_tick
  /\ i' = 0
  /\ hook_pc' = "second"
  /\ UNCHANGED <<now, deferred_until, hook_task_started, last_second, t, next,
                 wakeAt, lag, event, owed, calls>>

notify_second ==
  /\ hook_pc = "second"
  /\ last_second' = IF t - last_second >= SECOND THEN t ELSE last_second
  /\ hook_pc' = "time"
  /\ UNCHANGED <<now, deferred_until, hook_task_started, last_tick, locals, event,
                 owed, calls>>

read_time ==
  /\ hook_pc = "time"
  /\ t' = now
  /\ hook_pc' = "next"
  /\ UNCHANGED <<now, deferred_until, hook_task_started, clocks, i, next, wakeAt,
                 lag, event, owed, calls>>

\* The time to each thing to be done, none below zero.
Sleeps == {IF u > t THEN u - t ELSE 0 :
             u \in {last_tick + HOOK_TICK_INTERVAL}
                     \union {deferred_until[d] : d \in {f \in Funcs : deferred_until[f] # 0}}}

\* With interrupts disabled: how long until the next tick or deferred call.
compute_next ==
  /\ hook_pc = "next"
  /\ next' \in {s \in Sleeps : \A r \in Sleeps : s <= r}
  /\ hook_pc' = (IF next' > 0 THEN "arm" ELSE "top")
  /\ UNCHANGED <<now, deferred_until, hook_task_started, clocks, t, i, wakeAt, lag,
                 event, owed, calls>>

\* task_wait_event(next): the deadline counts from the time of this call.
wait_arm ==
  /\ hook_pc = "arm"
  /\ wakeAt' = now + next /\ lag' = now - t
  /\ hook_pc' = "wait"
  /\ UNCHANGED <<now, deferred_until, hook_task_started, clocks, t, i, next, event,
                 owed, calls>>

wait_returns ==
  /\ hook_pc = "wait"
  /\ event \/ now >= wakeAt
  /\ event' = FALSE
  /\ wakeAt' = 0 /\ lag' = 0 /\ next' = 0
  /\ hook_pc' = "top"
  /\ UNCHANGED <<now, deferred_until, hook_task_started, clocks, t, i, owed, calls>>

hook_task == \/ hook_task_start \/ loop_top \/ call_deferred \/ call_returns
             \/ notify_tick \/ notify_second \/ read_time \/ compute_next
             \/ wait_arm \/ wait_returns

HooksNext ==
  \/ Clock
  \/ \E d \in Funcs, us \in {-1} \union 0 .. MaxDelay : hook_call_deferred(d, us)
  \/ hook_task

HooksSpec == HooksInit /\ [][HooksNext]_hooks_vars

-----------------------------------------------------------------------------
\* Every variable has its type; the sleep is never longer than a tick.
HooksTypeOK ==
  /\ now \in 1 .. MaxTime
  /\ deferred_until \in [Funcs -> 0 .. MaxTime + MaxDelay]
  /\ hook_task_started \in BOOLEAN
  /\ last_tick \in 1 - HOOK_TICK_INTERVAL .. MaxTime
  /\ last_second \in 1 - SECOND .. MaxTime
  /\ hook_pc \in {"start", "top", "scan", "call", "second", "time", "next", "arm", "wait"}
  /\ t \in 0 .. MaxTime /\ i \in 0 .. DEFERRED_FUNCS_COUNT
  /\ next \in 0 .. HOOK_TICK_INTERVAL
  /\ event \in BOOLEAN /\ wakeAt \in 0 .. MaxTime + HOOK_TICK_INTERVAL
  /\ lag \in 0 .. MaxTime /\ owed \subseteq Funcs /\ calls \in 0 .. MaxCalls

\* A routine that was scheduled and neither called nor cancelled since keeps
\* its timer, although the routine and others schedule it again while it runs.
NoCallLost == \A d \in owed : deferred_until[d] # 0

\* The hook task does not sleep through a deferred call or a tick, whoever
\* scheduled it and at whichever step of the loop: unless its wake event is
\* pending, it is back at the time of each, late at most by what passed between
\* its look at the clock and the start of its wait.
NoOversleep ==
  hook_pc = "wait" /\ ~event =>
    /\ \A d \in owed : wakeAt <= deferred_until[d] + lag
    /\ wakeAt <= last_tick + HOOK_TICK_INTERVAL + lag
=============================================================================
