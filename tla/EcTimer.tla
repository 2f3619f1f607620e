------------------------------ MODULE EcTimer ------------------------------
(***************************************************************************)
(* The task timers (common/timer.c) on the STM32 hardware timer            *)
(* (chip/stm32/hwtimer32.c): one deadline per task, multiplexed on one     *)
(* compare register of a free-running counter whose width is a parameter;  *)
(* the high word of the time is counted in software by the overflow        *)
(* interrupt.                                                              *)
(*                                                                         *)
(* The counter ticks between any two steps of the interrupt handler and of *)
(* timer_arm.  A task does not execute while the interrupt is pending or   *)
(* active, and not while a task of higher priority is in timer_arm.        *)
(***************************************************************************)
EXTENDS Integers, FiniteSets

CONSTANTS
  Tasks,         \* task IDs, the number is the priority
  PERIOD,        \* ticks until the counter wraps: 2^32 in the code
  MaxTime,       \* bound: ticks
  MaxDelay,      \* bound: how far ahead a deadline may be
  StatusWindow   \* may the counter tick between the read and the clear of SR

ASSUME TimerAssumption == /\ Tasks \subseteq Nat
                          /\ PERIOD \in Nat /\ PERIOD >= 2
                          /\ MaxTime \in Nat /\ MaxDelay \in Nat
                          /\ StatusWindow \in BOOLEAN

VARIABLES
  ticks,          \* the time; the counter is its low word
  sr,             \* status register: "update" (overflow), "match"
  ccr, matchOn,   \* compare register, match interrupt enabled
  pended,         \* task_trigger_irq
  clksrc_high,    \* high word, in software
  timer_running, timer_deadline, next_deadline,
  isr, stat,      \* process_timers: step, status it read,
  next,           \* closest deadline it found
  pc, hi, now,    \* timer_arm of a task: step, high word read, time read
  since,          \* history: when the call in progress began
  straddles       \* history: timers whose timer_arm saw the counter wrap

hw   == <<ticks, sr, ccr, matchOn>>
soft == <<clksrc_high, timer_running, timer_deadline, next_deadline>>
armVars == <<pc, hi, now, since, straddles>>
isrVars == <<isr, stat, next>>
vars == <<hw, pended, soft, isrVars, armVars>>

Lo(v) == v % PERIOD
Hi(v) == v \div PERIOD
Counter == Lo(ticks)
LoMax == PERIOD - 1          \* 0xffffffff, also "no deadline" in next_deadline
NoDeadline == -1             \* next.val = -1ull

\* The interrupt is asserted: an enabled status bit, or set pending by software.
Asserted == pended \/ "update" \in sr \/ (matchOn /\ "match" \in sr)
Quiet == isr = "idle" /\ ~Asserted
Arming(t) == pc[t] # "idle"

Init ==
  /\ ticks = 0 /\ sr = {} /\ ccr = 0 /\ matchOn = FALSE
  /\ pended = FALSE
  /\ clksrc_high = 0
  /\ timer_running = {}
  /\ timer_deadline = [t \in Tasks |-> 0]
  /\ next_deadline = LoMax
  /\ isr = "idle" /\ stat = {} /\ next = NoDeadline
  /\ pc = [t \in Tasks |-> "idle"]
  /\ hi = [t \in Tasks |-> 0]
  /\ now = [t \in Tasks |-> 0]
  /\ since = [t \in Tasks |-> 0]
  /\ straddles = {}

-----------------------------------------------------------------------------
\* The counter counts.  An overflow is served before the next one, and a task
\* is not kept from finishing timer_arm for two of them (the watchdog is faster).
Tick ==
  /\ ticks < MaxTime
  /\ ticks' = ticks + 1
  /\ Lo(ticks') = 0 => "update" \notin sr /\ \A t \in straddles : ~Arming(t)
  /\ isr = "status" => StatusWindow
  /\ sr' = sr \union (IF Lo(ticks') = 0 THEN {"update"} ELSE {})
              \union (IF Lo(ticks') = ccr THEN {"match"} ELSE {})
  /\ straddles' = straddles \union {t \in Tasks : Arming(t) /\ Lo(ticks') = 0}
  /\ UNCHANGED <<ccr, matchOn, pended, soft, isrVars, pc, hi, now, since>>

-----------------------------------------------------------------------------
(***************************************************************************)
(* __hw_clock_source_irq and process_timers.  No task runs meanwhile, so   *)
(* no timer is new and the inner retry loop is one pass.                   *)
(***************************************************************************)
irq_enter ==
  /\ isr = "idle" /\ Asserted
  /\ pended' = FALSE
  /\ stat' = sr
  /\ isr' = "status"
  /\ UNCHANGED <<hw, soft, next, armVars>>

irq_clear_status ==
  /\ isr = "status"
  /\ sr' = {}
  /\ clksrc_high' = IF "update" \in stat THEN clksrc_high + 1 ELSE clksrc_high
  /\ stat' = {}
  /\ isr' = "scan"
  /\ UNCHANGED <<ticks, ccr, matchOn, pended, timer_running, timer_deadline,
                 next_deadline, next, armVars>>

\* get_time in the handler: the high word does not move under it.
IsrTime == clksrc_high * PERIOD + Counter

\* Deadlines that may be programmed: of this high word, low word not the maximum.
Programmable(t0) ==
  {timer_deadline[t] : t \in {u \in timer_running :
      /\ timer_deadline[u] > t0
      /\ Hi(timer_deadline[u]) = clksrc_high /\ Lo(timer_deadline[u]) < LoMax}}

\* Mutant: deadlines are compared by their low word.
ScanLowWord ==
  /\ isr = "scan"
  /\ timer_running' = {t \in timer_running : Lo(timer_deadline[t]) > Counter}
  /\ LET D == Programmable(IsrTime) IN
     next' = IF D = {} THEN NoDeadline ELSE CHOOSE d \in D : \A e \in D : d <= e
  /\ isr' = "program"
  /\ UNCHANGED <<hw, pended, clksrc_high, timer_deadline, next_deadline, stat, armVars>>

process_timers_scan ==
  /\ isr = "scan"
  /\ timer_running' = {t \in timer_running : timer_deadline[t] > IsrTime}
  /\ LET D == Programmable(IsrTime) IN
     next' = IF D = {} THEN NoDeadline ELSE CHOOSE d \in D : \A e \in D : d <= e
  /\ isr' = "program"
  /\ UNCHANGED <<hw, pended, clksrc_high, timer_deadline, next_deadline, stat, armVars>>

process_timers_none ==
  /\ isr = "program" /\ next = NoDeadline
  /\ matchOn' = FALSE
  /\ next_deadline' = LoMax
  /\ isr' = "idle"
  /\ UNCHANGED <<ticks, sr, ccr, pended, clksrc_high, timer_running,
                 timer_deadline, stat, next, armVars>>

\* Mutant: next_deadline keeps the high word too.
ProgramWholeTime ==
  /\ isr = "program" /\ next # NoDeadline
  /\ ccr' = Lo(next)
  /\ sr' = sr \ {"match"}
  /\ matchOn' = TRUE
  /\ next_deadline' = next
  /\ isr' = "verify"
  /\ UNCHANGED <<ticks, pended, clksrc_high, timer_running, timer_deadline,
                 stat, next, armVars>>

\* __hw_clock_event_set.
process_timers_program ==
  /\ isr = "program" /\ next # NoDeadline
  /\ ccr' = Lo(next)
  /\ sr' = sr \ {"match"}
  /\ matchOn' = TRUE
  /\ next_deadline' = Lo(next)
  /\ isr' = "verify"
  /\ UNCHANGED <<ticks, pended, clksrc_high, timer_running, timer_deadline,
                 stat, next, armVars>>

\* Mutant: no second look at the time.
NeverVerify ==
  /\ isr = "verify"
  /\ isr' = "idle"
  /\ next' = NoDeadline
  /\ UNCHANGED <<hw, pended, soft, stat, armVars>>

\* The deadline may have passed before it was in the compare register.
process_timers_verify ==
  /\ isr = "verify"
  /\ isr' = IF next <= IsrTime THEN "scan" ELSE "idle"
  /\ next' = NoDeadline
  /\ UNCHANGED <<hw, pended, soft, stat, armVars>>

Isr == \/ irq_enter \/ irq_clear_status \/ process_timers_scan
       \/ process_timers_none \/ process_timers_program \/ process_timers_verify

-----------------------------------------------------------------------------
(***************************************************************************)
(* timer_arm(event, t) and timer_cancel(t), from task t.                   *)
(***************************************************************************)
Executes(t, step) == /\ Quiet
                     /\ \A u \in Tasks : u > t => ~Arming(u)
                     /\ pc[t] = step

\* The call; get_time reads the high word.  (timer_deadline is written later,
\* but is not looked at before the running bit is set.)
arm_call(t) ==
  /\ Executes(t, "idle")
  /\ t \notin timer_running
  /\ \E delay \in 1 .. MaxDelay :
       timer_deadline' = [timer_deadline EXCEPT ![t] = ticks + delay]
  /\ hi' = [hi EXCEPT ![t] = clksrc_high]
  /\ pc' = [pc EXCEPT ![t] = "read_low"]
  /\ since' = [since EXCEPT ![t] = ticks]
  /\ straddles' = straddles \ {t}
  /\ UNCHANGED <<hw, pended, clksrc_high, timer_running, next_deadline, isrVars, now>>

get_time_low(t) ==
  /\ Executes(t, "read_low")
  /\ now' = [now EXCEPT ![t] = hi[t] * PERIOD + Counter]
  /\ pc' = [pc EXCEPT ![t] = "recheck_high"]
  /\ UNCHANGED <<hw, pended, soft, isrVars, hi, since, straddles>>

\* Mutant: the high word is not looked at again.
TrustHigh(t) ==
  /\ Executes(t, "recheck_high")
  /\ pc' = [pc EXCEPT ![t] = "set_running"]
  /\ UNCHANGED <<hw, pended, soft, isrVars, hi, now, since, straddles>>

\* It moved: read both again, once.
get_time_recheck(t) ==
  /\ Executes(t, "recheck_high")
  /\ hi' = [hi EXCEPT ![t] = clksrc_high]
  /\ pc' = [pc EXCEPT ![t] = IF hi[t] = clksrc_high THEN "set_running" ELSE "reread_low"]
  /\ UNCHANGED <<hw, pended, soft, isrVars, now, since, straddles>>

get_time_again(t) ==
  /\ Executes(t, "reread_low")
  /\ now' = [now EXCEPT ![t] = hi[t] * PERIOD + Counter]
  /\ pc' = [pc EXCEPT ![t] = "set_running"]
  /\ UNCHANGED <<hw, pended, soft, isrVars, hi, since, straddles>>

arm_set_running(t) ==
  /\ Executes(t, "set_running")
  /\ timer_running' = timer_running \union {t}
  /\ pc' = [pc EXCEPT ![t] = "compare"]
  /\ UNCHANGED <<hw, pended, clksrc_high, timer_deadline, next_deadline,
                 isrVars, hi, now, since, straddles>>

\* Modify the next event if needed.
arm_compare(t) ==
  /\ Executes(t, "compare")
  /\ pended' = LET event == timer_deadline[t] IN
                 \/ Hi(event) < Hi(now[t])
                 \/ Hi(event) = Hi(now[t]) /\ Lo(event) <= next_deadline
  /\ pc' = [pc EXCEPT ![t] = "idle"]
  /\ hi' = [hi EXCEPT ![t] = 0] /\ now' = [now EXCEPT ![t] = 0]
  /\ since' = [since EXCEPT ![t] = 0]
  /\ UNCHANGED <<hw, soft, isrVars, straddles>>

timer_cancel(t) ==
  /\ Executes(t, "idle")
  /\ t \in timer_running
  /\ timer_running' = timer_running \ {t}
  /\ UNCHANGED <<hw, pended, clksrc_high, timer_deadline, next_deadline,
                 isrVars, armVars>>

TaskStep(t) == \/ arm_call(t) \/ get_time_low(t) \/ get_time_recheck(t)
               \/ get_time_again(t) \/ arm_set_running(t) \/ arm_compare(t)
               \/ timer_cancel(t)

Next == Tick \/ Isr \/ \E t \in Tasks : TaskStep(t)

Spec == Init /\ [][Next]_vars

-----------------------------------------------------------------------------
\* Every variable has its type: next_deadline is a low word, and no timer is
\* programmed with more than the compare register holds.
TypeOK ==
  /\ ticks \in 0 .. MaxTime /\ sr \subseteq {"update", "match"}
  /\ ccr \in 0 .. LoMax /\ matchOn \in BOOLEAN /\ pended \in BOOLEAN
  /\ clksrc_high \in Nat
  /\ timer_running \subseteq Tasks /\ timer_deadline \in [Tasks -> Nat]
  /\ next_deadline \in 0 .. LoMax
  /\ isr \in {"idle", "status", "scan", "program", "verify"}
  /\ stat \subseteq {"update", "match"} /\ next \in Nat \union {NoDeadline}
  /\ pc \in [Tasks -> {"idle", "read_low", "recheck_high", "reread_low",
                    "set_running", "compare"}]
  /\ hi \in [Tasks -> Nat] /\ now \in [Tasks -> Nat] /\ since \in [Tasks -> Nat]
  /\ straddles \subseteq Tasks

\* get_time returns a time between its call and its return although it puts it
\* together from a hardware and a software word that an interrupt moves.
GetTimeCoherent ==
  \A t \in Tasks : pc[t] \in {"set_running", "compare"} => now[t] \in since[t] .. ticks

\* process_timers never expires a timer before its deadline.
NeverEarly ==
  [][isr = "scan" =>
       \A t \in timer_running \ timer_running' : ticks >= timer_deadline[t]]_vars

\* No timer is late: when nothing is pending and nobody is in timer_arm for it,
\* no deadline has passed.  A timer that was armed while the counter wrapped may
\* be late: the next_deadline it is compared with is of another high word than
\* its `now`.  The second wrap after its deadline is the latest.
Settled(t) == Quiet /\ t \in timer_running /\ ~Arming(t)

OnTime ==
  \A t \in Tasks : Settled(t) =>
     IF t \in straddles THEN Hi(ticks) <= Hi(timer_deadline[t]) + 1
                       ELSE ticks <= timer_deadline[t]

-----------------------------------------------------------------------------
(***************************************************************************)
(* Statements of docs/core_runtime.md that do not hold.                    *)
(***************************************************************************)
\* "Every time a timer is armed or expired, the runtime finds the task timer
\* having the closest deadline and programs it in hardware to raise the
\* interrupt": so none is ever late.
AlwaysProgrammed == \A t \in Tasks : Settled(t) => ticks <= timer_deadline[t]

\* "This word is incremented by the 32-bit timer rollback interrupt."
HighWordCountsRollbacks == Quiet => clksrc_high = Hi(ticks)
=============================================================================
