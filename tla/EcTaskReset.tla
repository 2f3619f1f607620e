---------------------------- MODULE EcTaskReset ----------------------------
(***************************************************************************)
(* Task reset (CONFIG_TASK_RESET_LIST, core/cortex-m/task.c): a task in    *)
(* Resettable may be started anew by others while it has resets enabled.   *)
(* Its reset lock is held while it has them disabled, by whoever is about  *)
(* to reset it, and after a reset until task_reset_cleanup has told the    *)
(* tasks that wait for it.                                                 *)
(*                                                                         *)
(* Tasks preempt each other by priority (their number) between any two     *)
(* accesses to shared memory.  HOOKS, the lowest, runs the deferred call;  *)
(* a call that is scheduled is run (EcHooks, NoCallLost).                  *)
(***************************************************************************)
EXTENDS Integers, FiniteSets

CONSTANTS
  Resettable,             \* tasks in CONFIG_TASK_RESET_LIST
  Callers,                \* tasks that call task_reset
  TASK_ID_COUNT,
  MaxCalls                \* bound: calls of task_reset

HOOKS == 0
Tasks == {HOOKS} \union Resettable \union Callers
NoTask == -1
\* waiter_id of a request that does not block is the invalid TASK_ID_COUNT.
Waiters == Callers \union {TASK_ID_COUNT}

ASSUME EcTaskResetAssumption ==
  /\ TASK_ID_COUNT \in Nat /\ MaxCalls \in Nat
  /\ Resettable \union Callers \subseteq 1 .. TASK_ID_COUNT - 1

VARIABLES
  lock, waiters,          \* the bits of task_reset_state
  deferred_reset_task_ids,
  deferred,               \* the call of deferred_task_reset is scheduled
  pc, notify_id,          \* per resettable task
  call, events,           \* per caller: its task_reset; TASK_EVENT_RESET_DONE
  hooks,                  \* deferred_task_reset: its step and reset_id
  calls                   \* number of calls of task_reset

state == <<lock, waiters>>
vars == <<state, deferred_reset_task_ids, deferred, pc, notify_id, call, events, hooks, calls>>

NoCall == [step |-> "none", id |-> NoTask]

Init ==
  /\ lock = [r \in Resettable |-> FALSE] /\ waiters = [r \in Resettable |-> {}]
  /\ deferred_reset_task_ids = {} /\ deferred = FALSE
  /\ pc = [r \in Resettable |-> "start"] /\ notify_id = [r \in Resettable |-> NoTask]
  /\ call = [c \in Callers |-> NoCall] /\ events = [c \in Callers |-> FALSE]
  /\ hooks = [step |-> "wait", id |-> NoTask]
  /\ calls = 0

-----------------------------------------------------------------------------
(***************************************************************************)
(* Scheduling: in its own code a task sleeps and wakes as it likes, in the *)
(* functions below it runs unless a task of higher priority does.          *)
(***************************************************************************)
Runs(t) ==
  \/ t \in Resettable /\ pc[t] \in {"start", "cleanup", "notify", "request", "call"}
  \/ /\ t \in Callers
     /\ call[t].step = "reset" \/ (call[t].step = "wait" /\ events[t])

MayRun(t) == \A u \in Tasks : u > t => ~Runs(u)

InOwnCode(t) ==
  /\ t \in Resettable => pc[t] \in {"enabled", "disabled"}
  /\ t \in Callers => call[t].step = "none"

\* __fls: the member, if there is one.
Highest(S) == {id \in S : \A other \in S : other <= id}

At(r, step) == MayRun(r) /\ pc[r] = step
Goto(r, step) == pc' = [pc EXCEPT ![r] = step]

\* A task that is reset loses its stack and what it was doing.
do_task_reset(r) ==
  /\ Goto(r, "start")
  /\ notify_id' = [notify_id EXCEPT ![r] = NoTask]

-----------------------------------------------------------------------------
(***************************************************************************)
(* The calls of a resettable task.                                         *)
(***************************************************************************)
task_reset_cleanup(r) ==
  /\ At(r, "start")
  /\ Goto(r, IF lock[r] THEN "cleanup" ELSE "enabled")
  /\ UNCHANGED <<state, deferred_reset_task_ids, deferred, notify_id, call, events, hooks, calls>>

cleanup_release(r) ==
  /\ At(r, "cleanup") /\ waiters[r] = {}
  /\ lock' = [lock EXCEPT ![r] = FALSE]
  /\ Goto(r, "enabled")
  /\ UNCHANGED <<waiters, deferred_reset_task_ids, deferred, notify_id, call, events, hooks, calls>>

\* Mutant: the waiters are taken for one.
RemoveAll(r) ==
  /\ At(r, "cleanup")
  /\ \E id \in Highest(waiters[r]) : notify_id' = [notify_id EXCEPT ![r] = id]
  /\ waiters' = [waiters EXCEPT ![r] = {}]
  /\ Goto(r, "notify")
  /\ UNCHANGED <<lock, deferred_reset_task_ids, deferred, call, events, hooks, calls>>

cleanup_remove(r) ==
  /\ At(r, "cleanup")
  /\ \E id \in Highest(waiters[r]) :
       /\ waiters' = [waiters EXCEPT ![r] = @ \ {id}]
       /\ notify_id' = [notify_id EXCEPT ![r] = id]
  /\ Goto(r, "notify")
  /\ UNCHANGED <<lock, deferred_reset_task_ids, deferred, call, events, hooks, calls>>

cleanup_notify(r) ==
  /\ At(r, "notify")
  /\ events' = [c \in Callers |-> events[c] \/ c = notify_id[r]]
  /\ notify_id' = [notify_id EXCEPT ![r] = NoTask]
  /\ Goto(r, "cleanup")
  /\ UNCHANGED <<state, deferred_reset_task_ids, deferred, call, hooks, calls>>

\* Mutant: the task does not wait to be reset when it fails to get the lock.
DisableAnyway(r) ==
  /\ At(r, "enabled") /\ InOwnCode(r)
  /\ lock' = [lock EXCEPT ![r] = TRUE]
  /\ Goto(r, "disabled")
  /\ UNCHANGED <<waiters, deferred_reset_task_ids, deferred, notify_id, call, events, hooks, calls>>

task_disable_resets(r) ==
  /\ At(r, "enabled") /\ InOwnCode(r)
  /\ lock' = [lock EXCEPT ![r] = TRUE]
  /\ Goto(r, IF lock[r] THEN "sleep" ELSE "disabled")
  /\ UNCHANGED <<waiters, deferred_reset_task_ids, deferred, notify_id, call, events, hooks, calls>>

task_enable_resets(r) ==
  /\ At(r, "disabled") /\ InOwnCode(r)
  /\ IF waiters[r] = {}
     THEN lock' = [lock EXCEPT ![r] = FALSE] /\ Goto(r, "enabled")
     ELSE UNCHANGED lock /\ Goto(r, "request")
  /\ UNCHANGED <<waiters, deferred_reset_task_ids, deferred, notify_id, call, events, hooks, calls>>

request_reset(r) ==
  /\ At(r, "request")
  /\ deferred_reset_task_ids' = deferred_reset_task_ids \union {r}
  /\ Goto(r, "call")
  /\ UNCHANGED <<state, deferred, notify_id, call, events, hooks, calls>>

\* Mutant: the task sleeps before it schedules the call.
SleepUncalled(r) ==
  /\ At(r, "call")
  /\ Goto(r, "sleep")
  /\ UNCHANGED <<state, deferred_reset_task_ids, deferred, notify_id, call, events, hooks, calls>>

sleep_forever(r) ==
  /\ At(r, "call")
  /\ deferred' = TRUE
  /\ Goto(r, "sleep")
  /\ UNCHANGED <<state, deferred_reset_task_ids, notify_id, call, events, hooks, calls>>

-----------------------------------------------------------------------------
(***************************************************************************)
(* task_reset, and the deferred call.                                      *)
(***************************************************************************)
task_reset(c, r, wait) ==
  /\ MayRun(c) /\ InOwnCode(c) /\ r # c /\ calls < MaxCalls
  /\ IF lock[r]
     THEN /\ waiters' = [waiters EXCEPT ![r] = @ \union {IF wait THEN c ELSE TASK_ID_COUNT}]
          /\ call' = [call EXCEPT ![c] = IF wait THEN [step |-> "wait", id |-> r] ELSE NoCall]
          /\ UNCHANGED lock
     ELSE /\ lock' = [lock EXCEPT ![r] = TRUE]
          /\ call' = [call EXCEPT ![c] = [step |-> "reset", id |-> r]]
          /\ UNCHANGED waiters
  /\ calls' = calls + 1
  /\ UNCHANGED <<deferred_reset_task_ids, deferred, pc, notify_id, events, hooks>>

\* What a task that is reset was calling is over.
Calls(r, but) == [c \in Callers |-> IF c \in {r, but} THEN NoCall ELSE call[c]]

reset_now(c) ==
  /\ MayRun(c) /\ call[c].step = "reset"
  /\ do_task_reset(call[c].id)
  /\ call' = Calls(call[c].id, c)
  /\ UNCHANGED <<state, deferred_reset_task_ids, deferred, events, hooks, calls>>

reset_done(c) ==
  /\ MayRun(c) /\ call[c].step = "wait" /\ events[c]
  /\ events' = [events EXCEPT ![c] = FALSE]
  /\ call' = [call EXCEPT ![c] = NoCall]
  /\ UNCHANGED <<state, deferred_reset_task_ids, deferred, pc, notify_id, hooks, calls>>

deferred_task_reset ==
  /\ MayRun(HOOKS) /\ hooks.step = "wait" /\ deferred
  /\ deferred' = FALSE
  /\ hooks' = [hooks EXCEPT !.step = "loop"]
  /\ UNCHANGED <<state, deferred_reset_task_ids, pc, notify_id, call, events, calls>>

deferred_loop ==
  /\ MayRun(HOOKS) /\ hooks.step = "loop"
  /\ \/ /\ deferred_reset_task_ids = {}
        /\ hooks' = [step |-> "wait", id |-> NoTask] /\ UNCHANGED deferred_reset_task_ids
     \/ \E id \in Highest(deferred_reset_task_ids) :
          /\ hooks' = [step |-> "reset", id |-> id]
          /\ deferred_reset_task_ids' = deferred_reset_task_ids \ {id}
  /\ UNCHANGED <<state, deferred, pc, notify_id, call, events, calls>>

deferred_reset ==
  /\ MayRun(HOOKS) /\ hooks.step = "reset"
  /\ do_task_reset(hooks.id)
  /\ call' = Calls(hooks.id, hooks.id)
  /\ hooks' = [step |-> "loop", id |-> NoTask]
  /\ UNCHANGED <<state, deferred_reset_task_ids, deferred, events, calls>>

-----------------------------------------------------------------------------
ResettableNext(r) ==
  \/ task_reset_cleanup(r) \/ cleanup_release(r) \/ cleanup_remove(r) \/ cleanup_notify(r)
  \/ task_disable_resets(r) \/ task_enable_resets(r) \/ request_reset(r) \/ sleep_forever(r)

CallerNext(c) ==
  \/ \E r \in Resettable, wait \in BOOLEAN : task_reset(c, r, wait)
  \/ reset_now(c) \/ reset_done(c)

HooksNext == deferred_task_reset \/ deferred_loop \/ deferred_reset

Next ==
  \/ \E r \in Resettable : ResettableNext(r)
  \/ \E c \in Callers : CallerNext(c)
  \/ HooksNext

Spec == Init /\ [][Next]_vars

\* Tasks run when they can; a resettable task enables resets again and again
\* (config.h:4313-4315), it need not disable them; nobody has to call.
Fairness ==
  /\ \A r \in Resettable :
       /\ WF_vars(task_reset_cleanup(r) \/ cleanup_release(r) \/ cleanup_remove(r)
                    \/ cleanup_notify(r) \/ request_reset(r) \/ sleep_forever(r))
       /\ SF_vars(task_enable_resets(r))
  /\ \A c \in Callers : WF_vars(reset_now(c) \/ reset_done(c))
  /\ SF_vars(HooksNext)

FairSpec == Spec /\ Fairness

-----------------------------------------------------------------------------
(***************************************************************************)
(* Properties.                                                             *)
(***************************************************************************)
Resetting(r) == {c \in Callers : call[c] = [step |-> "reset", id |-> r]}
Holders(r) ==
  Resetting(r) \union
    (IF pc[r] \in {"cleanup", "notify", "disabled", "request", "call"} THEN {r} ELSE {})

\* The values of the state.
Types ==
  /\ lock \in [Resettable -> BOOLEAN] /\ waiters \in [Resettable -> SUBSET Waiters]
  /\ deferred_reset_task_ids \subseteq Resettable /\ deferred \in BOOLEAN
  /\ pc \in [Resettable -> {"start", "cleanup", "notify", "enabled", "disabled",
                            "request", "call", "sleep"}]
  /\ notify_id \in [Resettable -> Waiters \union {NoTask}]
  /\ call \in [Callers -> [step : {"none", "reset", "wait"}, id : Resettable \union {NoTask}]]
  /\ events \in [Callers -> BOOLEAN]
  /\ hooks \in [step : {"wait", "loop", "reset"}, id : Resettable \union {NoTask}]
  /\ calls \in 0 .. MaxCalls

\* Types; and a reset lock has one holder: the task itself or the one that is
\* about to reset it (update_reset_state and task_reset, task.c:620-632 and
\* 827-833).
TypeOK ==
  /\ Types
  /\ \A r \in Resettable :
       /\ Cardinality(Holders(r)) <= 1
       /\ Holders(r) # {} => lock[r]

Section(r) ==
  IF ~lock[r] THEN "enabled"
  ELSE IF pc[r] = "disabled" THEN "disabled"
  ELSE IF pc[r] \in {"start", "cleanup", "notify"} /\ Resetting(r) = {} THEN "restart"
  ELSE "ending"
apiSection == [r \in Resettable |-> Section(r)]
apiWaiting == [c \in Callers |-> IF call[c].step = "wait" THEN call[c].id ELSE NoTask]
Api == INSTANCE TaskResetApi WITH
  Anyone <- TASK_ID_COUNT,
  section <- apiSection, queued <- waiters, waiting <- apiWaiting

\* No task is reset while it has resets disabled, requests that come then are
\* executed when it next enables them, and a caller that waits returns only
\* after the reset; neither a request nor the caller's wake-up is lost (task.h,
\* 351-387).
ImplementsApi == Api!Spec

\* A reset that is decided on is executed and a caller that waits for it
\* returns, if the tasks enable resets again and again (task.h, 374-387).
RequestsServed == Api!Served
=============================================================================
