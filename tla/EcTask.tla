------------------------------- MODULE EcTask -------------------------------
(***************************************************************************)
(* The task runtime of the EC on Cortex-M (core/cortex-m/task.c): the      *)
(* priority scheduler, task events, the wait calls with the task timers    *)
(* they arm (common/timer.c), mutexes, and the interrupts that preempt     *)
(* everything and nest.                                                    *)
(*                                                                         *)
(* One action is one access to shared memory.  A task is preempted between *)
(* any two of its steps, by an interrupt or, through the reschedule at the *)
(* end of an interrupt, by another task.  Merged in one action are:        *)
(*   - the steps of svc_handler, which runs with every interrupt masked    *)
(*     (cpsid f), and those of a section between interrupt_disable and     *)
(*     interrupt_enable;                                                   *)
(*   - in an interrupt handler, the two atomic_or and the flag store of    *)
(*     task_set_event: no task runs in between, and a nested handler only  *)
(*     does more of the same, which commutes.                              *)
(* The time is left out: an armed timer expires at any moment (EcTimer     *)
(* has the deadlines).  CONFIG_TASK_PROFILING is off.                      *)
(***************************************************************************)
EXTENDS Integers, FiniteSets

CONSTANTS
  TASK_ID_COUNT,  \* task IDs are 0 .. TASK_ID_COUNT - 1, the ID is the priority
  IRQ_COUNT,      \* interrupts are 1 .. IRQ_COUNT, the number is the priority
  TIMER_IRQ,      \* the hardware timer's interrupt
  Events,         \* TASK_EVENT_CUSTOM_BITs the tasks and interrupts post
  Mutexes,        \* mutexes, numbered in the order in which tasks nest them
  Calls,          \* the runtime calls the tasks of the image make
  MaxCalls,       \* bound: calls made by all tasks
  MaxIrqEvents    \* bound: task_set_event calls made by interrupt handlers

TASK_ID_IDLE  == 0
TASK_ID_HOOKS == 1
Tasks      == 0 .. TASK_ID_COUNT - 1
Irqs       == 1 .. IRQ_COUNT
Scratchpad == TASK_ID_COUNT  \* current_task before task_start
NoMutex    == -1
TIMER == "TASK_EVENT_TIMER"
MUTEX == "TASK_EVENT_MUTEX"
AllEvents == Events \union {TIMER, MUTEX}

AllCalls == {"set_event", "set_event_masked", "wait_event", "wait_event_mask",
             "usleep", "mutex_lock", "enable_task", "disable_task"}

ASSUME TasksAssumption  == TASK_ID_COUNT \in Nat /\ TASK_ID_COUNT >= 2
ASSUME IrqsAssumption   == IRQ_COUNT \in Nat /\ TIMER_IRQ \in Irqs
ASSUME EventsAssumption == TIMER \notin Events /\ MUTEX \notin Events
ASSUME MutexAssumption  == Mutexes \subseteq Nat
ASSUME BoundsAssumption == /\ Calls \subseteq AllCalls
                           /\ MaxCalls \in Nat
                           /\ MaxIrqEvents \in Nat

VARIABLES
  \* the scheduler
  current_task, tasks_ready, tasks_enabled, need_resched, start_called,
  booted,        \* HOOKS has called task_enable_all_tasks
  lateEnabled,   \* history: tasks enabled since the last svc_handler
  \* shared between tasks and interrupts
  events, timer_running,
  \* mutexes: those whose lock field is taken, and their waiters field
  locked, waiters,
  \* the interrupt controller: how far each handler is
  irq,
  \* per task: where it is and the locals of the call it is in
  pc,
  target,        \* receiver of the task_set_event in progress
  todo,          \* mutex_unlock: waiters not yet notified
  want,          \* mutex_lock: the mutex
  held,          \* mutexes the task's code holds
  timed, mask,   \* arguments of the wait call in progress
  evt,           \* events it has collected; its result once it has returned
  \* bounds
  calls, irqEvents

schedVars == <<current_task, tasks_ready, tasks_enabled, need_resched,
               start_called, booted, lateEnabled>>
mutexVars == <<locked, waiters>>
postVars  == <<target, todo>>
lockVars  == <<want, held>>
waitVars  == <<timed, mask, evt>>
callVars  == <<postVars, lockVars, waitVars>>
bounds    == <<calls, irqEvents>>
vars == <<schedVars, events, timer_running, mutexVars, irq, pc, callVars, bounds>>

(***************************************************************************)
(* A task inside a wait call is at one of WaitSteps; of those, a timer may *)
(* be armed for it at TimedSteps only.                                     *)
(***************************************************************************)
TimedSteps == {"check", "desched", "cancel", "clear_timer"}
WaitSteps  == {"arm", "return"} \union TimedSteps
PostSteps  == {"set_event_svc", "unlock_svc"}
Steps == {"run", "unlock", "try_lock", "clear_waiter", "all_ready", "resched"}
           \union WaitSteps \union PostSteps

Waiting(t) == pc[t] \in WaitSteps
Posting(t, r) == pc[t] \in PostSteps /\ target[t] = r

Init ==
  /\ current_task = Scratchpad
  /\ tasks_ready   = {TASK_ID_HOOKS}
  /\ tasks_enabled = {TASK_ID_HOOKS, TASK_ID_IDLE}
  /\ need_resched = FALSE
  /\ start_called = FALSE
  /\ booted = FALSE
  /\ lateEnabled = {}
  /\ events = [t \in Tasks |-> {}]
  /\ timer_running = {}
  /\ locked = {}
  /\ waiters = [m \in Mutexes |-> {}]
  /\ irq = [i \in Irqs |-> "idle"]
  /\ pc = [t \in Tasks |-> "run"]
  /\ target = [t \in Tasks |-> TASK_ID_IDLE]
  /\ todo = [t \in Tasks |-> {}]
  /\ want = [t \in Tasks |-> NoMutex]
  /\ held = [t \in Tasks |-> {}]
  /\ timed = [t \in Tasks |-> FALSE]
  /\ mask = [t \in Tasks |-> {}]
  /\ evt = [t \in Tasks |-> {}]
  /\ calls = 0
  /\ irqEvents = 0

-----------------------------------------------------------------------------
\* Mutant: the events are not looked at again before the task goes to sleep.
DescheduledBlindly(desched) ==
  IF desched THEN tasks_ready \ {current_task} ELSE tasks_ready

(***************************************************************************)
(* svc_handler(desched, resched): take the caller out of the ready set if  *)
(* it asks for it and has no event, put resched in, run the highest        *)
(* priority task that is ready and enabled.                                *)
(***************************************************************************)
Descheduled(desched) ==
  IF desched /\ events[current_task] = {} THEN tasks_ready \ {current_task}
                                          ELSE tasks_ready

Switch(candidates) ==
  \E next \in candidates :
     /\ \A t \in candidates : t <= next
     /\ current_task' = next

svc_handler(desched, resched) ==
  /\ tasks_ready' = Descheduled(desched) \union {resched}
  /\ Switch(tasks_ready' \intersect tasks_enabled)
  /\ need_resched' = FALSE
  /\ lateEnabled' = {}
  /\ UNCHANGED <<tasks_enabled, start_called, booted>>

ThreadMode == \A i \in Irqs : irq[i] = "idle"

\* Task t executes: the step at pc[t] is the next one of the CPU.
Executes(t, step) == /\ ThreadMode
                     /\ current_task = t
                     /\ pc[t] = step

\* The step of a task that ends in pc[t] = step and is not a task switch.
Goto(t, step) == /\ pc' = [pc EXCEPT ![t] = step]
                 /\ UNCHANGED <<irq, irqEvents>>

-----------------------------------------------------------------------------
(***************************************************************************)
(* Start: main() runs on the scratchpad stack, with interrupts on, until   *)
(* task_start switches to the hooks task, the only one ready.              *)
(***************************************************************************)
task_start ==
  /\ ThreadMode
  /\ ~start_called
  /\ tasks_ready' = tasks_ready \union {TASK_ID_IDLE}
  /\ Switch(tasks_ready' \intersect tasks_enabled)
  /\ start_called' = TRUE
  /\ need_resched' = FALSE
  /\ UNCHANGED <<tasks_enabled, booted, lateEnabled, events, timer_running,
                 mutexVars, irq, pc, callVars, bounds>>

\* A task may start a call: which ones is up to the image (Calls), how many
\* is a bound.  The idle task makes none.
MayCall(t, c) ==
  /\ Executes(t, "run")
  /\ t # TASK_ID_IDLE
  /\ c \in Calls
  /\ calls < MaxCalls
  /\ calls' = calls + 1

\* task_set_event(r, e) from a task: set the event bit, then __schedule(0, r).
task_set_event(t, r, e) ==
  /\ MayCall(t, "set_event")
  /\ events' = [events EXCEPT ![r] = @ \union {e}]
  /\ target' = [target EXCEPT ![t] = r]
  /\ Goto(t, "set_event_svc")
  /\ UNCHANGED <<schedVars, timer_running, mutexVars, todo, lockVars,
                 waitVars>>

set_event_svc(t) ==
  /\ Executes(t, "set_event_svc")
  /\ svc_handler(FALSE, target[t])
  /\ target' = [target EXCEPT ![t] = TASK_ID_IDLE]
  /\ Goto(t, "run")
  /\ UNCHANGED <<events, timer_running, mutexVars, todo, lockVars, waitVars,
                 calls>>

\* task_set_event with interrupts disabled: the task cannot be switched out,
\* the reschedule is left to the next interrupt or svc.
task_set_event_masked(t, r, e) ==
  /\ MayCall(t, "set_event_masked")
  /\ events' = [events EXCEPT ![r] = @ \union {e}]
  /\ tasks_ready' = tasks_ready \union {r}
  /\ need_resched' = TRUE
  /\ Goto(t, "run")
  /\ UNCHANGED <<current_task, tasks_enabled, start_called, booted,
                 lateEnabled, timer_running, mutexVars, callVars>>

-----------------------------------------------------------------------------
(***************************************************************************)
(* The wait calls.  task_wait_event, task_wait_event_mask and usleep are   *)
(* the same loop around __wait_evt, with every event, the caller's events  *)
(* or none in the mask (and TIMER in all of them): collect what arrives    *)
(* until it meets the mask or the time is over, put the rest back.         *)
(***************************************************************************)
StartWait(t, S, withTimeout) ==
  /\ mask'  = [mask EXCEPT ![t] = S \union {TIMER}]
  /\ timed' = [timed EXCEPT ![t] = withTimeout]
  /\ evt'   = [evt EXCEPT ![t] = {}]
  /\ Goto(t, IF withTimeout THEN "arm" ELSE "check")
  /\ UNCHANGED <<schedVars, events, timer_running, locked, postVars>>

\* The main loop of a task: task_wait_event(-1).  It is not bounded.  A task
\* that holds a mutex does not wait for ever, nor do the HOOK_INIT hooks.
main_loop_wait(t) ==
  /\ Executes(t, "run")
  /\ t # TASK_ID_IDLE
  /\ held[t] = {}
  /\ t = TASK_ID_HOOKS => booted
  /\ StartWait(t, AllEvents, FALSE)
  /\ UNCHANGED <<waiters, lockVars, calls>>

task_wait_event(t) ==
  /\ MayCall(t, "wait_event")
  /\ StartWait(t, AllEvents, TRUE)
  /\ UNCHANGED <<waiters, lockVars>>

task_wait_event_mask(t, S, withTimeout) ==
  /\ MayCall(t, "wait_event_mask")
  /\ withTimeout \/ (held[t] = {} /\ (t = TASK_ID_HOOKS => booted))
  /\ StartWait(t, S, withTimeout)
  /\ UNCHANGED <<waiters, lockVars>>

usleep(t) ==
  /\ MayCall(t, "usleep")
  /\ StartWait(t, {}, TRUE)
  /\ UNCHANGED <<waiters, lockVars>>

\* Mutant: the timer is not started.
ArmNothing(t) ==
  /\ Executes(t, "arm")
  /\ Goto(t, "check")
  /\ UNCHANGED <<schedVars, events, timer_running, mutexVars, callVars, calls>>

\* timer_arm, whose result the caller asserts (see TimerStaysInWait).
arm(t) ==
  /\ Executes(t, "arm")
  /\ timer_running' = timer_running \union {t}
  /\ Goto(t, "check")
  /\ UNCHANGED <<schedVars, events, mutexVars, callVars, calls>>

\* Mutant: the timer is cancelled only if it is what ended the wait.
CheckCancelsExpiredOnly(t) ==
  /\ Executes(t, "check")
  /\ evt' = [evt EXCEPT ![t] = @ \union events[t]]
  /\ events' = [events EXCEPT ![t] = {}]
  /\ Goto(t, IF events[t] = {} THEN "desched"
             ELSE IF timed[t] /\ TIMER \in events[t] THEN "cancel" ELSE "return")
  /\ UNCHANGED <<schedVars, timer_running, mutexVars, postVars, lockVars,
                 timed, mask, calls>>

\* evt = atomic_clear(&tsk->events)
check(t) ==
  /\ Executes(t, "check")
  /\ evt' = [evt EXCEPT ![t] = @ \union events[t]]
  /\ events' = [events EXCEPT ![t] = {}]
  /\ Goto(t, IF events[t] = {} THEN "desched"
             ELSE IF timed[t] THEN "cancel" ELSE "return")
  /\ UNCHANGED <<schedVars, timer_running, mutexVars, postVars, lockVars,
                 timed, mask, calls>>

\* __schedule(1, resched); the task looks at its events again when it is back.
desched(t) ==
  /\ Executes(t, "desched")
  /\ svc_handler(TRUE, TASK_ID_IDLE)
  /\ Goto(t, "check")
  /\ UNCHANGED <<events, timer_running, mutexVars, callVars, calls>>

cancel(t) ==
  /\ Executes(t, "cancel")
  /\ timer_running' = timer_running \ {t}
  /\ Goto(t, "clear_timer")
  /\ UNCHANGED <<schedVars, events, mutexVars, callVars, calls>>

clear_timer(t) ==
  /\ Executes(t, "clear_timer")
  /\ events' = [events EXCEPT ![t] = @ \ {TIMER}]
  /\ Goto(t, "return")
  /\ UNCHANGED <<schedVars, timer_running, mutexVars, callVars, calls>>

\* What is collected does not meet the mask, and there is time left.
wait_again(t) ==
  /\ Executes(t, "return")
  /\ evt[t] \intersect mask[t] = {}
  /\ Goto(t, IF timed[t] THEN "arm" ELSE "check")
  /\ UNCHANGED <<schedVars, events, timer_running, mutexVars, callVars, calls>>

\* Mutants: the other events are not put back; the caller is always mutex_lock.
ReturnDropsOthers(t, late) ==
  /\ Executes(t, "return")
  /\ late => timed[t] /\ mask[t] # AllEvents
  /\ evt[t] \intersect mask[t] # {} \/ late
  /\ evt' = [evt EXCEPT ![t] = (@ \intersect mask[t])
                                  \union (IF late THEN {TIMER} ELSE {})]
  /\ mask'  = [mask EXCEPT ![t] = {}]
  /\ timed' = [timed EXCEPT ![t] = FALSE]
  /\ Goto(t, IF want[t] = NoMutex THEN "run" ELSE "try_lock")
  /\ UNCHANGED <<schedVars, events, timer_running, mutexVars, postVars,
                 lockVars, calls>>

ReturnRetriesLock(t, late) ==
  /\ Executes(t, "return")
  /\ evt[t] \intersect mask[t] # {} \/ (late /\ timed[t])
  /\ Goto(t, "try_lock")
  /\ UNCHANGED <<schedVars, events, timer_running, mutexVars, callVars, calls>>

\* The mask is met, or the time is over: put the other events back.  When
\* the time is over the result has TIMER even if something else met the mask
\* (task_wait_event looks at no clock of its own).
wait_return(t, late) ==
  /\ Executes(t, "return")
  /\ late => timed[t] /\ mask[t] # AllEvents
  /\ evt[t] \intersect mask[t] # {} \/ late
  /\ events' = [events EXCEPT ![t] = @ \union (evt[t] \ mask[t])]
  /\ evt' = [evt EXCEPT ![t] = (@ \intersect mask[t])
                                  \union (IF late THEN {TIMER} ELSE {})]
  /\ mask'  = [mask EXCEPT ![t] = {}]
  /\ timed' = [timed EXCEPT ![t] = FALSE]
  /\ Goto(t, IF want[t] = NoMutex THEN "run" ELSE "try_lock")
  /\ UNCHANGED <<schedVars, timer_running, mutexVars, postVars, lockVars,
                 calls>>

-----------------------------------------------------------------------------
(***************************************************************************)
(* Mutexes.                                                                *)
(***************************************************************************)
\* Mutant: the task registers as a waiter only if it sees the mutex taken.
LockRegistersIfTaken(t, m) ==
  /\ MayCall(t, "mutex_lock")
  /\ \A h \in held[t] : h < m
  /\ waiters' = [waiters EXCEPT ![m] = IF m \in locked THEN @ \union {t} ELSE @]
  /\ want' = [want EXCEPT ![t] = m]
  /\ Goto(t, "try_lock")
  /\ UNCHANGED <<schedVars, events, timer_running, locked, postVars, held,
                 waitVars>>

mutex_lock(t, m) ==
  /\ MayCall(t, "mutex_lock")
  /\ \A h \in held[t] : h < m
  /\ waiters' = [waiters EXCEPT ![m] = @ \union {t}]
  /\ want' = [want EXCEPT ![t] = m]
  /\ Goto(t, "try_lock")
  /\ UNCHANGED <<schedVars, events, timer_running, locked, postVars, held,
                 waitVars>>

\* Mutant: the lock field is stored without a test.
TakeAnyway(t) ==
  /\ Executes(t, "try_lock")
  /\ locked' = locked \union {want[t]}
  /\ Goto(t, "clear_waiter")
  /\ UNCHANGED <<schedVars, events, timer_running, waiters, callVars, calls>>

\* ldrex/strex: the lock field was clear and is ours now.
take_lock(t) ==
  /\ Executes(t, "try_lock")
  /\ want[t] \notin locked
  /\ locked' = locked \union {want[t]}
  /\ Goto(t, "clear_waiter")
  /\ UNCHANGED <<schedVars, events, timer_running, waiters, callVars, calls>>

\* Somebody owns it: task_wait_event_mask(TASK_EVENT_MUTEX, 0).
contend(t) ==
  /\ Executes(t, "try_lock")
  /\ want[t] \in locked
  /\ StartWait(t, {MUTEX}, FALSE)
  /\ UNCHANGED <<waiters, lockVars, calls>>

clear_waiter(t) ==
  /\ Executes(t, "clear_waiter")
  /\ waiters' = [waiters EXCEPT ![want[t]] = @ \ {t}]
  /\ held' = [held EXCEPT ![t] = @ \union {want[t]}]
  /\ want' = [want EXCEPT ![t] = NoMutex]
  /\ Goto(t, "run")
  /\ UNCHANGED <<schedVars, events, timer_running, locked, postVars, waitVars,
                 calls>>

\* Mutant: nobody is notified.
UnlockNotifiesNobody(t, m) ==
  /\ Executes(t, "run")
  /\ m \in held[t]
  /\ locked' = locked \ {m}
  /\ todo' = [todo EXCEPT ![t] = {}]
  /\ held' = [held EXCEPT ![t] = @ \ {m}]
  /\ Goto(t, "unlock")
  /\ UNCHANGED <<schedVars, events, timer_running, waiters, target, want,
                 waitVars, calls>>

\* With interrupts disabled: note who waits and clear the lock field.
mutex_unlock(t, m) ==
  /\ Executes(t, "run")
  /\ m \in held[t]
  /\ locked' = locked \ {m}
  /\ todo' = [todo EXCEPT ![t] = waiters[m]]
  /\ held' = [held EXCEPT ![t] = @ \ {m}]
  /\ Goto(t, "unlock")
  /\ UNCHANGED <<schedVars, events, timer_running, waiters, target, want,
                 waitVars, calls>>

\* task_set_event(id, TASK_EVENT_MUTEX), highest id first.
notify_waiter(t) ==
  /\ Executes(t, "unlock")
  /\ \E id \in todo[t] :
       /\ \A w \in todo[t] : w <= id
       /\ events' = [events EXCEPT ![id] = @ \union {MUTEX}]
       /\ target' = [target EXCEPT ![t] = id]
       /\ todo' = [todo EXCEPT ![t] = @ \ {id}]
  /\ Goto(t, "unlock_svc")
  /\ UNCHANGED <<schedVars, timer_running, mutexVars, lockVars, waitVars,
                 calls>>

unlock_svc(t) ==
  /\ Executes(t, "unlock_svc")
  /\ svc_handler(FALSE, target[t])
  /\ target' = [target EXCEPT ![t] = TASK_ID_IDLE]
  /\ Goto(t, "unlock")
  /\ UNCHANGED <<events, timer_running, mutexVars, todo, lockVars, waitVars,
                 calls>>

unlock_done(t) ==
  /\ Executes(t, "unlock")
  /\ todo[t] = {}
  /\ events' = [events EXCEPT ![t] = @ \ {MUTEX}]
  /\ Goto(t, "run")
  /\ UNCHANGED <<schedVars, timer_running, mutexVars, callVars, calls>>

-----------------------------------------------------------------------------
(***************************************************************************)
(* Enabling and disabling tasks.                                           *)
(***************************************************************************)
task_enable_all_tasks ==
  /\ Executes(TASK_ID_HOOKS, "run")
  /\ ~booted
  /\ held[TASK_ID_HOOKS] = {}
  /\ tasks_enabled' = Tasks
  /\ booted' = TRUE
  /\ lateEnabled' = lateEnabled \union (Tasks \ tasks_enabled)
  /\ Goto(TASK_ID_HOOKS, "all_ready")
  /\ UNCHANGED <<current_task, tasks_ready, need_resched, start_called, events,
                 timer_running, mutexVars, callVars, calls>>

all_ready ==
  /\ Executes(TASK_ID_HOOKS, "all_ready")
  /\ tasks_ready' = Tasks
  /\ Goto(TASK_ID_HOOKS, "resched")
  /\ UNCHANGED <<current_task, tasks_enabled, need_resched, start_called,
                 booted, lateEnabled, events, timer_running, mutexVars,
                 callVars, calls>>

task_enable_task(t, u) ==
  /\ MayCall(t, "enable_task")
  /\ booted
  /\ tasks_enabled' = tasks_enabled \union {u}
  /\ lateEnabled' = lateEnabled \union ({u} \ tasks_enabled)
  /\ Goto(t, "run")
  /\ UNCHANGED <<current_task, tasks_ready, need_resched, start_called, booted,
                 events, timer_running, mutexVars, callVars>>

\* A task that disables itself gives up the CPU at once.
task_disable_task(t, u) ==
  /\ MayCall(t, "disable_task")
  /\ u # TASK_ID_IDLE
  /\ tasks_enabled' = tasks_enabled \ {u}
  /\ lateEnabled' = lateEnabled \ {u}
  /\ Goto(t, IF u = t THEN "resched" ELSE "run")
  /\ UNCHANGED <<current_task, tasks_ready, need_resched, start_called, booted,
                 events, timer_running, mutexVars, callVars>>

resched(t) ==
  /\ Executes(t, "resched")
  /\ svc_handler(FALSE, TASK_ID_IDLE)
  /\ Goto(t, "run")
  /\ UNCHANGED <<events, timer_running, mutexVars, callVars, calls>>

-----------------------------------------------------------------------------
(***************************************************************************)
(* Interrupts.  A handler preempts the thread and the handlers of lower    *)
(* priority.  DECLARE_IRQ runs the routine, then task_resched_if_needed,   *)
(* which tests need_resched, then returns; a nested interrupt may come     *)
(* between any two of these.                                               *)
(***************************************************************************)
Running(i) == /\ irq[i] # "idle"
              /\ \A j \in Irqs : j > i => irq[j] = "idle"

Outermost(i) == \A j \in Irqs \ {i} : irq[j] = "idle"

irq_enter(i) ==
  /\ \A j \in Irqs : j >= i => irq[j] = "idle"
  /\ irq' = [irq EXCEPT ![i] = "routine"]
  /\ UNCHANGED <<schedVars, events, timer_running, mutexVars, pc, callVars,
                 bounds>>

\* Mutants: the handler does not ask for a reschedule; it sets the event but
\* not the ready bit.
PostsWithoutResched(i, r, e) ==
  /\ Running(i)
  /\ irq[i] = "routine"
  /\ events' = [events EXCEPT ![r] = @ \union {e}]
  /\ tasks_ready' = tasks_ready \union {r}
  /\ UNCHANGED <<current_task, tasks_enabled, need_resched, start_called,
                 booted, lateEnabled, mutexVars, irq, pc, callVars, calls>>

PostsWithoutReady(i, r, e) ==
  /\ Running(i)
  /\ irq[i] = "routine"
  /\ events' = [events EXCEPT ![r] = @ \union {e}]
  /\ need_resched' = (need_resched \/ start_called)
  /\ UNCHANGED <<current_task, tasks_ready, tasks_enabled, start_called,
                 booted, lateEnabled, mutexVars, irq, pc, callVars, calls>>

\* task_set_event from a handler.
HandlerPosts(i, r, e) ==
  /\ Running(i)
  /\ irq[i] = "routine"
  /\ events' = [events EXCEPT ![r] = @ \union {e}]
  /\ tasks_ready' = tasks_ready \union {r}
  /\ need_resched' = (need_resched \/ start_called)
  /\ UNCHANGED <<current_task, tasks_enabled, start_called, booted,
                 lateEnabled, mutexVars, irq, pc, callVars, calls>>

irq_set_event(i, r, e) ==
  /\ irqEvents < MaxIrqEvents
  /\ irqEvents' = irqEvents + 1
  /\ HandlerPosts(i, r, e)
  /\ UNCHANGED timer_running

\* process_timers finds r's deadline in the past.
expire_timer(r) ==
  /\ r \in timer_running
  /\ timer_running' = timer_running \ {r}
  /\ HandlerPosts(TIMER_IRQ, r, TIMER)
  /\ UNCHANGED irqEvents

\* task_resched_if_needed: no event was set, or this handler is nested.
irq_no_resched(i) ==
  /\ Running(i)
  /\ irq[i] = "routine"
  /\ ~need_resched \/ ~Outermost(i)
  /\ irq' = [irq EXCEPT ![i] = "exit"]
  /\ UNCHANGED <<schedVars, events, timer_running, mutexVars, pc, callVars,
                 bounds>>

\* task_resched_if_needed: svc_handler(0, 0), masked until the return.
irq_resched(i) ==
  /\ Running(i)
  /\ irq[i] = "routine"
  /\ need_resched /\ Outermost(i)
  /\ svc_handler(FALSE, TASK_ID_IDLE)
  /\ irq' = [irq EXCEPT ![i] = "idle"]
  /\ UNCHANGED <<events, timer_running, mutexVars, pc, callVars, bounds>>

irq_exit(i) ==
  /\ Running(i)
  /\ irq[i] = "exit"
  /\ irq' = [irq EXCEPT ![i] = "idle"]
  /\ UNCHANGED <<schedVars, events, timer_running, mutexVars, pc, callVars,
                 bounds>>

-----------------------------------------------------------------------------
\* A step inside a call; the start of a call; the body of task t.
CallStep(t) ==
  \/ set_event_svc(t) \/ resched(t)
  \/ arm(t) \/ check(t) \/ desched(t) \/ cancel(t) \/ clear_timer(t)
  \/ wait_again(t) \/ \E late \in BOOLEAN : wait_return(t, late)
  \/ take_lock(t) \/ contend(t) \/ clear_waiter(t)
  \/ notify_waiter(t) \/ unlock_svc(t) \/ unlock_done(t)

CallStart(t) ==
  \/ \E r \in Tasks \ {TASK_ID_IDLE}, e \in Events :
       task_set_event(t, r, e) \/ task_set_event_masked(t, r, e)
  \/ main_loop_wait(t) \/ task_wait_event(t) \/ usleep(t)
  \/ \E S \in SUBSET Events, withTimeout \in BOOLEAN :
       task_wait_event_mask(t, S, withTimeout)
  \/ \E m \in Mutexes : mutex_lock(t, m) \/ mutex_unlock(t, m)
  \/ \E u \in Tasks : task_enable_task(t, u) \/ task_disable_task(t, u)

HooksInit == task_enable_all_tasks \/ all_ready

TaskNext(t) == CallStep(t) \/ CallStart(t) \/ (t = TASK_ID_HOOKS /\ HooksInit)

IrqStep(i) ==
  \/ irq_no_resched(i) \/ irq_resched(i) \/ irq_exit(i)
  \/ \E r \in Tasks \ {TASK_ID_IDLE}, e \in Events : irq_set_event(i, r, e)
  \/ i = TIMER_IRQ /\ \E r \in Tasks : expire_timer(r)

Next == \/ task_start
        \/ \E t \in Tasks : TaskNext(t)
        \/ \E i \in Irqs : irq_enter(i) \/ IrqStep(i)

Spec == Init /\ [][Next]_vars

(***************************************************************************)
(* Interrupts leave time to the thread, and a nested one to the handler    *)
(* below (strong fairness: both are preempted again and again); the timer  *)
(* interrupt recurs, at the latest when the counter overflows, and then    *)
(* finds the deadlines that have passed.                                   *)
(***************************************************************************)
HandlerEnds(i) == irq_no_resched(i) \/ irq_resched(i) \/ irq_exit(i)

Fairness == /\ SF_vars(task_start)
            /\ \A t \in Tasks \ {TASK_ID_IDLE} : SF_vars(TaskNext(t))
            /\ \A i \in Irqs : SF_vars(HandlerEnds(i))
            /\ SF_vars(irq_enter(TIMER_IRQ))
            /\ \A t \in Tasks \ {TASK_ID_IDLE} : SF_vars(expire_timer(t))

FairSpec == Spec /\ Fairness

-----------------------------------------------------------------------------
\* Every variable has its type; in particular a task is at a known step of a
\* known call, and only tasks that exist are ready, enabled or waiting.
TypeOK ==
  /\ current_task \in Tasks \union {Scratchpad}
  /\ tasks_ready \subseteq Tasks /\ tasks_enabled \subseteq Tasks
  /\ lateEnabled \subseteq Tasks
  /\ need_resched \in BOOLEAN /\ start_called \in BOOLEAN /\ booted \in BOOLEAN
  /\ events \in [Tasks -> SUBSET AllEvents]
  /\ timer_running \subseteq Tasks
  /\ locked \subseteq Mutexes
  /\ waiters \in [Mutexes -> SUBSET Tasks]
  /\ irq \in [Irqs -> {"idle", "routine", "exit"}]
  /\ pc \in [Tasks -> Steps]
  /\ target \in [Tasks -> Tasks]
  /\ todo \in [Tasks -> SUBSET Tasks]
  /\ want \in [Tasks -> Mutexes \union {NoMutex}]
  /\ held \in [Tasks -> SUBSET Mutexes]
  /\ timed \in [Tasks -> BOOLEAN]
  /\ mask \in [Tasks -> SUBSET AllEvents]
  /\ evt \in [Tasks -> SUBSET AllEvents]
  /\ calls \in 0 .. MaxCalls /\ irqEvents \in 0 .. MaxIrqEvents

\* A mutex is with at most one task, from the store that takes the lock field
\* to the one that clears it, whatever preempts the two (mutex_lock).
Has(t, m) == m \in held[t] \/ (pc[t] = "clear_waiter" /\ want[t] = m)

MutualExclusion ==
  \A m \in Mutexes : \A t, u \in Tasks : Has(t, m) /\ Has(u, m) => t = u

\* No wake-up of a mutex is lost: a task asleep in mutex_lock on a mutex that
\* is free has a wake-up coming, its own event or one that the unlocking task
\* is still to post (waiters is set before the lock is tried, and mutex_unlock
\* reads it with the store that frees the lock).
Notifying(u, t) == pc[u] \in {"unlock", "unlock_svc"} /\ t \in todo[u]
Asleep(t) == pc[t] \in {"check", "desched"} /\ want[t] # NoMutex

MutexWakeupComing ==
  \A t \in Tasks : Asleep(t) /\ want[t] \notin locked =>
     MUTEX \in events[t] \/ \E u \in Tasks : Notifying(u, t)

\* No event is lost by the scheduler: a task with an event is ready, or the
\* task that set it is about to make it ready (task_set_event sets the event
\* before the svc, svc_handler looks at the events before it clears the bit).
EventMakesReady ==
  \A t \in Tasks : events[t] # {} => t \in tasks_ready \/ \E u \in Tasks : Posting(u, t)

\* Unless a reschedule is owed, the thread is the highest priority task that is
\* ready and enabled, in every state between two svc_handlers.  task_enable_task does not
\* reschedule: the tasks it enabled since the last svc_handler do not count.
HighestPriorityRuns ==
  start_called /\ ~need_resched /\ pc[current_task] # "resched" =>
    /\ current_task \in tasks_ready \intersect tasks_enabled
    /\ \A t \in (tasks_ready \intersect tasks_enabled) \ lateEnabled : t <= current_task

\* A timer and its event stay within the timed wait that armed it: timer_arm
\* never finds the timer running (the ASSERT in __wait_evt), and no TIMER
\* event is left to be taken for the timeout of a later wait.
TimerStaysInWait ==
  \A t \in Tasks : t \in timer_running \/ TIMER \in events[t] =>
     timed[t] /\ pc[t] \in TimedSteps

-----------------------------------------------------------------------------
(***************************************************************************)
(* The inductive invariant behind these (EcTaskProofs).                    *)
(***************************************************************************)
\* A task in mutex_lock is trying the lock or in an untimed wait for MUTEX.
LockSteps  == {"try_lock", "clear_waiter"}
MutexSteps == {"check", "desched", "return"}

CallOK ==
  \A t \in Tasks :
     /\ pc[t] \in LockSteps => want[t] \in Mutexes
     /\ want[t] # NoMutex => \/ pc[t] \in LockSteps
                             \/ /\ pc[t] \in MutexSteps
                                /\ ~timed[t] /\ mask[t] = {MUTEX, TIMER}
     /\ Waiting(t) => TIMER \in mask[t]
     /\ pc[t] \in {"arm", "cancel", "clear_timer"} => timed[t]
     /\ t \in timer_running => timed[t] /\ pc[t] \in TimedSteps \ {"clear_timer"}
     /\ TIMER \in events[t] => timed[t] /\ pc[t] \in TimedSteps

\* The lock field of a mutex that is with a task is taken.
LockOK == /\ \A t \in Tasks, m \in Mutexes : Has(t, m) => m \in locked
          /\ MutualExclusion

\* The task that runs, or is preempted, is ready.
ReadyOK == /\ start_called => current_task \in tasks_ready
           /\ EventMakesReady

PriorityOK == /\ start_called <=> current_task \in Tasks
              /\ need_resched => start_called
              /\ HighestPriorityRuns

\* A task in mutex_lock stays in the waiters field and goes to sleep without a
\* MUTEX event in hand.  While it has not been woken and the mutex is free, a
\* wake-up is on its way.
WakeOK ==
  \A t \in Tasks : want[t] # NoMutex =>
     /\ t \in waiters[want[t]]
     /\ pc[t] \in {"check", "desched"} => MUTEX \notin evt[t]
     /\ pc[t] \in MutexSteps /\ MUTEX \notin evt[t] /\ want[t] \notin locked =>
          MUTEX \in events[t] \/ \E u \in Tasks : Notifying(u, t)

IInv == TypeOK /\ CallOK /\ LockOK /\ ReadyOK /\ PriorityOK /\ WakeOK

-----------------------------------------------------------------------------
(***************************************************************************)
(* Two statements of the sources that do not hold.                         *)
(***************************************************************************)
\* docs/core_runtime.md, "Scheduling and Preemption": an interrupt that is going
\* to return sees the bit and takes the slow path of a scheduling decision.
ReschedBeforeReturn == [][ThreadMode' /\ ~ThreadMode => ~need_resched']_vars

\* mutex_unlock: "Ensure no event is remaining from mutex wake-up".
NoMutexEventLeft ==
  \A t \in Tasks :
     held[t] = {} /\ want[t] = NoMutex /\ pc[t] \notin {"unlock", "unlock_svc"} =>
       MUTEX \notin events[t]

-----------------------------------------------------------------------------
(***************************************************************************)
(* EcTask implements TaskApi, for the custom events (MUTEX and TIMER are   *)
(* the runtime's own and may be dropped).                                  *)
(***************************************************************************)
apiPending   == [t \in Tasks |-> events[t] \intersect Events]
apiCollected == [t \in Tasks |-> IF Waiting(t) THEN evt[t] \intersect Events ELSE {}]
apiReturned  == [t \in Tasks |-> IF Waiting(t) THEN {} ELSE evt[t] \intersect Events]
apiHolders   == [m \in Mutexes |-> {t \in Tasks : Has(t, m)}]

Api == INSTANCE TaskApi WITH pending <- apiPending, collected <- apiCollected,
                             returned <- apiReturned, holders <- apiHolders

\* Every behaviour of the runtime is one of TaskApi: no event is dropped or
\* delivered twice, whatever the task, timer or interrupt interleaving.
ImplementsApi == Api!Spec

-----------------------------------------------------------------------------
\* Liveness: an event posted to a task is seen by one of its waits.
EventSeen == \A t \in Tasks : events[t] # {} ~> events[t] = {}

\* A task in mutex_lock gets the mutex.
LockGranted == \A t \in Tasks : want[t] # NoMutex ~> want[t] = NoMutex

\* A wait with a timeout comes back.
TimedWaitReturns == \A t \in Tasks : timed[t] ~> ~timed[t]
=============================================================================
