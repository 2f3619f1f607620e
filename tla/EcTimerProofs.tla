--------------------------- MODULE EcTimerProofs ---------------------------
(***************************************************************************)
(* Proofs about EcTimer for every number of tasks and every width of the   *)
(* counter: its types, that no timer expires early, that get_time is       *)
(* coherent, and that no timer is late.                                    *)
(***************************************************************************)
EXTENDS EcTimer, WellFoundedInduction, TLAPS

-----------------------------------------------------------------------------
(***************************************************************************)
(* The inductive invariant.                                                *)
(***************************************************************************)
\* The software high word lags behind the counter by the overflow that is not
\* served yet, and by the overflows that were lost.
Overflow == IF "update" \in sr THEN 1 ELSE 0

LagOK == /\ clksrc_high + Overflow <= Hi(ticks)
         /\ isr = "status" => stat \subseteq sr

\* When no overflow is lost, it lags by nothing else.
ClockOK == /\ clksrc_high + Overflow = Hi(ticks)
           /\ isr = "status" => stat = sr

\* A call of timer_arm sees one wrap at the most; what its get_time has read.
Began(t) == Hi(since[t])

CallOK(t) == Arming(t) => /\ since[t] <= ticks
                          /\ t \notin straddles => Hi(ticks) = Began(t)
                          /\ t \in straddles => Hi(ticks) = Began(t) + 1

HighOK(t) == /\ pc[t] \in {"read_low", "recheck_high"} => hi[t] = Began(t)
             /\ pc[t] = "reread_low" => hi[t] = Began(t) + 1 /\ t \in straddles

NowOK(t) == /\ pc[t] = "recheck_high" =>
                 \E v \in Nat : /\ since[t] <= v /\ v <= ticks
                                /\ now[t] = hi[t] * PERIOD + Lo(v)
            /\ pc[t] \in {"set_running", "compare"} => since[t] <= now[t] /\ now[t] <= ticks

ReadOK(t) == CallOK(t) /\ HighOK(t) /\ NowOK(t)

\* The compare register is ahead of the counter, and process_timers programs
\* deadlines of the present high word only.
HardwareOK ==
  /\ isr = "idle" => IF matchOn THEN ccr = next_deadline ELSE next_deadline = LoMax
  /\ Quiet /\ matchOn => Counter < ccr
  /\ isr = "verify" => matchOn /\ next_deadline = ccr /\ next = clksrc_high * PERIOD + ccr
  /\ isr = "program" /\ next # NoDeadline => Hi(next) = clksrc_high

\* What serves a deadline: an overflow, or the match that is programmed.
AtOverflow(d) == Hi(d) > clksrc_high \/ (Hi(d) = clksrc_high /\ Lo(d) = LoMax)
AtMatch(d) == matchOn /\ Hi(d) = clksrc_high /\ ccr <= Lo(d)
Found(d) == next # NoDeadline /\ Hi(d) = clksrc_high /\ next <= d

ScheduleOK(t) ==
  t \in timer_running =>
  /\ isr = "program" => AtOverflow(timer_deadline[t]) \/ Found(timer_deadline[t])
  /\ isr = "verify" => AtOverflow(timer_deadline[t]) \/ AtMatch(timer_deadline[t])
  /\ Quiet /\ ~Arming(t) /\ t \notin straddles =>
       AtOverflow(timer_deadline[t]) \/ AtMatch(timer_deadline[t])
  /\ Quiet /\ ~Arming(t) => clksrc_high <= Hi(timer_deadline[t]) + 1

IInv == /\ TypeOK /\ ClockOK /\ HardwareOK
        /\ \A t \in Tasks : ReadOK(t) /\ ScheduleOK(t)

-----------------------------------------------------------------------------
(***************************************************************************)
(* The words of a time.                                                    *)
(***************************************************************************)
\* The low and the high word of a time.
LEMMA DivMod ==
  ASSUME NEW v \in Nat
  PROVE  Lo(v) \in 0 .. LoMax /\ Hi(v) \in Nat /\ v = Hi(v) * PERIOD + Lo(v)
<1>1. PERIOD \in Nat /\ PERIOD > 0
  BY TimerAssumption
<1>2. Lo(v) \in 0 .. LoMax /\ Hi(v) \in Nat
  BY <1>1 DEF Lo, Hi, LoMax
<1>3. v = PERIOD * (v \div PERIOD) + (v % PERIOD)
  BY <1>1
<1>4. PERIOD * (v \div PERIOD) = (v \div PERIOD) * PERIOD
  BY <1>1, <1>2 DEF Hi
<1> QED BY <1>2, <1>3, <1>4 DEF Lo, Hi

\* A time of an earlier high word is an earlier time.
LEMMA Less ==
  ASSUME NEW h \in Nat, NEW k \in Nat, h < k, NEW l \in 0 .. LoMax, NEW m \in 0 .. LoMax
  PROVE  h * PERIOD + l < k * PERIOD + m
<1>1. ASSUME NEW p \in Nat PROVE h * p + p <= k * p
  <2>1. PICK d \in Nat : k = h + 1 + d
    <3>1. k - h - 1 \in Nat /\ k = h + 1 + (k - h - 1)
      OBVIOUS
    <3> QED BY <3>1
  <2>2. (h + 1 + d) * p = h * p + p + d * p
    OBVIOUS
  <2>3. d * p >= 0 /\ d * p \in Int /\ h * p \in Int
    OBVIOUS
  <2> QED BY <2>1, <2>2, <2>3
<1>2. h * PERIOD + PERIOD <= k * PERIOD /\ PERIOD \in Nat
  BY <1>1, TimerAssumption
<1>3. h * PERIOD \in Int /\ k * PERIOD \in Int
  BY <1>2
<1> QED BY <1>2, <1>3 DEF LoMax

\* Times are ordered by their high words, then by their low words.
LEMMA Order ==
  ASSUME NEW v \in Nat, NEW w \in Nat
  PROVE  /\ v <= w => Hi(v) <= Hi(w)
         /\ Hi(v) < Hi(w) => v < w
         /\ Hi(v) = Hi(w) => (v <= w <=> Lo(v) <= Lo(w))
<1>1. ASSUME NEW a \in Nat, NEW b \in Nat, Hi(a) < Hi(b) PROVE a < b
  BY <1>1, DivMod, Less
<1>2. ASSUME Hi(v) = Hi(w) PROVE v <= w <=> Lo(v) <= Lo(w)
  <2>1. Hi(v) * PERIOD \in Int /\ Lo(v) \in Int /\ Lo(w) \in Int
    BY DivMod, TimerAssumption DEF LoMax
  <2>2. v = Hi(v) * PERIOD + Lo(v) /\ w = Hi(v) * PERIOD + Lo(w)
    BY <1>2, DivMod
  <2> DEFINE x == Hi(v) * PERIOD
  <2> HIDE DEF x
  <2>3. x \in Int /\ v = x + Lo(v) /\ w = x + Lo(w)
    BY <2>1, <2>2 DEF x
  <2> QED BY <2>1, <2>3
<1>3. Hi(v) \in Nat /\ Hi(w) \in Nat
  BY DivMod
<1> QED BY <1>1, <1>2, <1>3

\* The time that is put together from a high and a low word has these words.
LEMMA Compose ==
  ASSUME NEW h \in Nat, NEW l \in 0 .. LoMax
  PROVE  /\ h * PERIOD + l \in Nat
         /\ Hi(h * PERIOD + l) = h /\ Lo(h * PERIOD + l) = l
<1> PERIOD \in Nat
  BY TimerAssumption
<1> DEFINE v == h * PERIOD + l
<1>1. v \in Nat /\ l \in Int /\ h * PERIOD \in Int
  BY DEF LoMax
<1>2. Lo(v) \in 0 .. LoMax /\ Hi(v) \in Nat /\ v = Hi(v) * PERIOD + Lo(v)
  BY <1>1, DivMod
<1> HIDE DEF v
<1>3. Hi(v) = h
  <2>1. ~(Hi(v) < h) /\ ~(h < Hi(v))
    <3>1. v = h * PERIOD + l
      BY DEF v
    <3>2. Hi(v) < h => v < v
      BY <1>2, <3>1, Less
    <3>3. h < Hi(v) => v < v
      BY <1>2, <3>1, Less
    <3> QED BY <1>1, <3>2, <3>3
  <2> QED BY <1>2, <2>1
<1>4. Lo(v) = l
  <2>1. Lo(v) \in Int
    BY <1>2 DEF LoMax
  <2>2. v = h * PERIOD + l /\ v = h * PERIOD + Lo(v)
    BY <1>2, <1>3 DEF v
  <2> QED BY <1>1, <2>1, <2>2
<1> QED BY <1>1, <1>3, <1>4 DEF v

\* A tick moves the low word, or clears it and moves the high word.
LEMMA Ticked ==
  ASSUME NEW v \in Nat
  PROVE  /\ Lo(v + 1) = 0 => Hi(v + 1) = Hi(v) + 1
         /\ Lo(v + 1) # 0 => Hi(v + 1) = Hi(v) /\ Lo(v + 1) = Lo(v) + 1
<1> PERIOD \in Nat /\ PERIOD >= 2
  BY TimerAssumption
<1>1. Lo(v) \in 0 .. LoMax /\ Hi(v) \in Nat /\ v = Hi(v) * PERIOD + Lo(v)
  BY DivMod
<1>2. CASE Lo(v) = LoMax
  <2>1. (Hi(v) + 1) * PERIOD = Hi(v) * PERIOD + PERIOD
    BY <1>1
  <2>2. Hi(v) * PERIOD \in Int
    BY <1>1
  <2>3. v + 1 = (Hi(v) + 1) * PERIOD + 0
    BY <1>1, <1>2, <2>1, <2>2 DEF LoMax
  <2>4. Hi(v) + 1 \in Nat /\ 0 \in 0 .. LoMax
    BY <1>1 DEF LoMax
  <2> QED BY <2>3, <2>4, Compose
<1>3. CASE Lo(v) # LoMax
  <2>1. Lo(v) + 1 \in 0 .. LoMax /\ Lo(v) + 1 # 0
    BY <1>1, <1>3 DEF LoMax
  <2>2. Hi(v) * PERIOD \in Int /\ Lo(v) \in Int
    BY <1>1 DEF LoMax
  <2>3. v + 1 = Hi(v) * PERIOD + (Lo(v) + 1)
    BY <1>1, <2>2
  <2> QED BY <1>1, <2>1, <2>3, Compose
<1> QED BY <1>2, <1>3
\* A set of deadlines has a closest one.
LEMMA Closest ==
  ASSUME NEW S \in SUBSET Nat, S # {}
  PROVE  \E x \in S : \A y \in S : x <= y
<1>1. PICK x \in S : \A y \in S : <<y, x>> \notin OpToRel(<, Nat)
  BY NatLessThanWellFounded, WFMin
<1>2. \A y \in S : <<y, x>> \notin OpToRel(<, Nat) => ~(y < x)
  BY DEF OpToRel
<1>3. \A y \in S : ~(y < x)
  BY <1>1, <1>2
<1>4. \A y \in S : y \in Int /\ x \in Int
  OBVIOUS
<1> QED BY <1>3, <1>4

-----------------------------------------------------------------------------
(***************************************************************************)
(* The types.                                                              *)
(***************************************************************************)
\* process_timers finds the closest of the deadlines that may be programmed.
LEMMA ScanFinds ==
  ASSUME TypeOK, process_timers_scan
  PROVE  \/ next' = NoDeadline /\ Programmable(IsrTime) = {}
         \/ /\ next' \in Programmable(IsrTime) /\ next' \in Nat
            /\ \A d \in Programmable(IsrTime) : next' <= d
<1> DEFINE D == Programmable(IsrTime)
<1>1. D \subseteq Nat
  BY DEF Programmable, TypeOK
<1>2. next' = IF D = {} THEN NoDeadline ELSE CHOOSE d \in D : \A e \in D : d <= e
  BY DEF process_timers_scan
<1> HIDE DEF D
<1>3. D # {} => \E d \in D : \A e \in D : d <= e
  BY <1>1, Closest
<1>4. D # {} => next' \in D /\ \A e \in D : next' <= e
  BY <1>2, <1>3
<1> QED BY <1>1, <1>2, <1>4 DEF D

\* get_time puts a time together, in the handler and in a task.
LEMMA TimeType ==
  ASSUME TypeOK, NEW h \in Nat
  PROVE  h * PERIOD + Counter \in Nat /\ Counter \in 0 .. LoMax
<1> ticks \in Nat
  BY TimerAssumption DEF TypeOK
<1> QED BY Compose, DivMod DEF Counter

\* The initial state is well typed.
LEMMA InitTypes == Init => TypeOK
<1>1. LoMax \in Nat /\ 0 \in 0 .. LoMax /\ LoMax \in 0 .. LoMax /\ 0 \in 0 .. MaxTime
  BY TimerAssumption DEF LoMax
<1>2. Init => /\ timer_deadline \in [Tasks -> Nat] /\ hi \in [Tasks -> Nat]
              /\ now \in [Tasks -> Nat] /\ since \in [Tasks -> Nat]
  BY DEF Init
<1>3. Init => pc \in [Tasks -> {"idle", "read_low", "recheck_high", "reread_low",
                               "set_running", "compare"}]
  BY DEF Init
<1>4. Init => /\ ticks \in 0 .. MaxTime /\ ccr \in 0 .. LoMax /\ next_deadline \in 0 .. LoMax
              /\ clksrc_high \in Nat
  BY <1>1 DEF Init
<1>5. Init => /\ sr \subseteq {"update", "match"} /\ stat \subseteq {"update", "match"}
              /\ timer_running \subseteq Tasks /\ straddles \subseteq Tasks
              /\ matchOn \in BOOLEAN /\ pended \in BOOLEAN
              /\ isr = "idle" /\ next = NoDeadline
  BY DEF Init
<1> QED BY <1>2, <1>3, <1>4, <1>5 DEF TypeOK

\* Every step keeps the types.
LEMMA TypeStep == TypeOK /\ [Next]_vars => TypeOK'
<1> SUFFICES ASSUME TypeOK, [Next]_vars PROVE TypeOK'
  OBVIOUS
<1>1. CASE UNCHANGED vars
  BY <1>1 DEF TypeOK, vars, hw, soft, isrVars, armVars
<1>2. CASE Tick
  <2>1. ticks' \in 0 .. MaxTime
    BY <1>2, TimerAssumption DEF Tick, TypeOK
  <2>2. sr' \subseteq {"update", "match"} /\ straddles' \subseteq Tasks
    BY <1>2 DEF Tick, TypeOK
  <2> QED BY <1>2, <2>1, <2>2 DEF Tick, TypeOK, soft, isrVars
<1>3. CASE irq_enter
  BY <1>3 DEF irq_enter, TypeOK, hw, soft, armVars
<1>4. CASE irq_clear_status
  BY <1>4 DEF irq_clear_status, TypeOK, armVars
<1>5. CASE process_timers_scan
  <2>1. next' \in Nat \union {NoDeadline}
    BY <1>5, ScanFinds
  <2> QED BY <1>5, <2>1 DEF process_timers_scan, TypeOK, hw, armVars
<1>6. CASE process_timers_none
  <2>1. LoMax \in 0 .. LoMax
    BY TimerAssumption DEF LoMax
  <2> QED BY <1>6, <2>1 DEF process_timers_none, TypeOK, armVars
<1>7. CASE process_timers_program
  <2>1. Lo(next) \in 0 .. LoMax
    BY <1>7, DivMod DEF process_timers_program, TypeOK
  <2> QED BY <1>7, <2>1 DEF process_timers_program, TypeOK, armVars
<1>8. CASE process_timers_verify
  BY <1>8 DEF process_timers_verify, TypeOK, hw, soft, armVars
<1>9. ASSUME NEW t \in Tasks, TaskStep(t) PROVE TypeOK'
  <2>1. CASE arm_call(t)
    <3>1. timer_deadline' \in [Tasks -> Nat]
      BY <2>1, TimerAssumption DEF arm_call, TypeOK
    <3> QED BY <2>1, <3>1 DEF arm_call, TypeOK, hw, isrVars
  <2>2. CASE get_time_low(t)
    BY <2>2, TimeType DEF get_time_low, TypeOK, hw, soft, isrVars
  <2>3. CASE get_time_recheck(t)
    BY <2>3 DEF get_time_recheck, TypeOK, hw, soft, isrVars
  <2>4. CASE get_time_again(t)
    BY <2>4, TimeType DEF get_time_again, TypeOK, hw, soft, isrVars
  <2>5. CASE arm_set_running(t)
    BY <2>5 DEF arm_set_running, TypeOK, hw, isrVars
  <2>6. CASE arm_compare(t)
    <3>1. pended' \in BOOLEAN
      BY <2>6, Zenon DEF arm_compare
    <3> QED BY <2>6, <3>1 DEF arm_compare, TypeOK, hw, soft, isrVars
  <2>7. CASE timer_cancel(t)
    BY <2>7 DEF timer_cancel, TypeOK, hw, isrVars, armVars
  <2> QED BY <1>9, <2>1, <2>2, <2>3, <2>4, <2>5, <2>6, <2>7 DEF TaskStep
<1> QED BY <1>1, <1>2, <1>3, <1>4, <1>5, <1>6, <1>7, <1>8, <1>9 DEF Next, Isr

-----------------------------------------------------------------------------
(***************************************************************************)
(* The high word.                                                          *)
(***************************************************************************)
\* A step that does not touch the clock.
SameClock == UNCHANGED <<ticks, sr, clksrc_high, isr, stat>>

\* Calls do not touch the clock.
LEMMA TaskClock ==
  ASSUME NEW t \in Tasks, TaskStep(t)
  PROVE  SameClock
BY DEF TaskStep, arm_call, get_time_low, get_time_recheck, get_time_again,
   arm_set_running,
   arm_compare, timer_cancel, SameClock, hw, soft, isrVars

\* Whatever is lost, the software high word is never ahead of the counter.
LEMMA LagStep == TypeOK /\ LagOK /\ [Next]_vars => LagOK'
<1> SUFFICES ASSUME TypeOK, LagOK, [Next]_vars PROVE LagOK'
  OBVIOUS
<1> ticks \in Nat /\ clksrc_high \in Nat /\ Hi(ticks) \in Nat
  BY DivMod DEF TypeOK
<1>1. CASE UNCHANGED vars
  BY <1>1 DEF LagOK, Overflow, vars, hw, soft, isrVars
<1>2. CASE Tick
  BY <1>2, Ticked DEF Tick, LagOK, Overflow, soft, isrVars
<1>3. CASE irq_enter
  BY <1>3 DEF irq_enter, LagOK, Overflow, hw, soft
<1>4. CASE irq_clear_status
  BY <1>4 DEF irq_clear_status, LagOK, Overflow
<1>5. CASE process_timers_scan \/ process_timers_none \/ process_timers_verify
  BY <1>5 DEF process_timers_scan, process_timers_none, process_timers_verify, LagOK,
     Overflow, hw, soft
<1>6. CASE process_timers_program
  BY <1>6 DEF process_timers_program, LagOK, Overflow
<1>7. ASSUME NEW t \in Tasks, TaskStep(t) PROVE LagOK'
  BY <1>7, TaskClock DEF SameClock, LagOK, Overflow
<1> QED BY <1>1, <1>2, <1>3, <1>4, <1>5, <1>6, <1>7 DEF Next, Isr

\* When no overflow is lost, it is behind by the pending one only.
LEMMA ClockStep ==
  ASSUME ~StatusWindow, TypeOK, ClockOK, [Next]_vars
  PROVE  ClockOK'
<1> ticks \in Nat /\ clksrc_high \in Nat /\ Hi(ticks) \in Nat
  BY DivMod DEF TypeOK
<1>1. CASE UNCHANGED vars
  BY <1>1 DEF ClockOK, Overflow, vars, hw, soft, isrVars
<1>2. CASE Tick
  BY <1>2, Ticked DEF Tick, ClockOK, Overflow, soft, isrVars
<1>3. CASE irq_enter
  BY <1>3 DEF irq_enter, ClockOK, Overflow, hw, soft
<1>4. CASE irq_clear_status
  BY <1>4 DEF irq_clear_status, ClockOK, Overflow
<1>5. CASE process_timers_scan \/ process_timers_none \/ process_timers_verify
  BY <1>5 DEF process_timers_scan, process_timers_none, process_timers_verify, ClockOK,
     Overflow, hw, soft
<1>6. CASE process_timers_program
  BY <1>6 DEF process_timers_program, ClockOK, Overflow
<1>7. ASSUME NEW t \in Tasks, TaskStep(t) PROVE ClockOK'
  BY <1>7, TaskClock DEF SameClock, ClockOK, Overflow
<1> QED BY <1>1, <1>2, <1>3, <1>4, <1>5, <1>6, <1>7 DEF Next, Isr

\* A task executes only when the high word is that of the counter.
LEMMA QuietClock ==
  ASSUME TypeOK, ClockOK, Quiet
  PROVE  /\ clksrc_high = Hi(ticks) /\ IsrTime = ticks
         /\ ticks = Hi(ticks) * PERIOD + Counter
<1>1. clksrc_high = Hi(ticks)
  BY DivMod DEF TypeOK, ClockOK, Overflow, Quiet, Asserted
<1> QED BY <1>1, DivMod DEF TypeOK, IsrTime, Counter

-----------------------------------------------------------------------------
(***************************************************************************)
(* get_time in timer_arm.                                                  *)
(***************************************************************************)
\* A step of another task changes nothing of a call or a timer.
LEMMA OtherTask ==
  ASSUME TypeOK, NEW t \in Tasks, NEW u \in Tasks, u # t, TaskStep(u)
  PROVE  /\ pc'[t] = pc[t] /\ hi'[t] = hi[t] /\ now'[t] = now[t] /\ since'[t] = since[t]
         /\ t \in straddles' <=> t \in straddles
         /\ t \in timer_running' <=> t \in timer_running
         /\ timer_deadline'[t] = timer_deadline[t]
BY DEF TypeOK, TaskStep, arm_call, get_time_low, get_time_recheck, get_time_again,
   arm_set_running, arm_compare, timer_cancel, soft, armVars

\* The interrupt handler changes nothing of a call.
LEMMA IsrCalls == Isr => UNCHANGED <<ticks, pc, hi, now, since, straddles>>
BY DEF Isr, irq_enter, irq_clear_status, process_timers_scan, process_timers_none,
   process_timers_program, process_timers_verify, hw, armVars

\* A task executes only with the interrupt idle, and leaves the hardware alone.
LEMMA TaskIsQuiet ==
  ASSUME NEW t \in Tasks, TaskStep(t)
  PROVE  /\ Quiet /\ isr' = "idle"
         /\ UNCHANGED <<hw, isrVars, clksrc_high, next_deadline>>
BY DEF TaskStep, arm_call, get_time_low, get_time_recheck, get_time_again,
   arm_set_running,
   arm_compare, timer_cancel, Executes, Quiet, soft, isrVars

\* What a call has read stays coherent.
LEMMA ReadStep ==
  ASSUME TypeOK, ClockOK, [Next]_vars, NEW t \in Tasks, ReadOK(t)
  PROVE  ReadOK(t)'
<1> /\ ticks \in Nat /\ since[t] \in Nat /\ Hi(ticks) \in Nat /\ Began(t) \in Nat
    /\ hi[t] \in Nat /\ now[t] \in Nat
  BY DivMod, TimerAssumption DEF TypeOK, Began
<1>1. CASE UNCHANGED <<ticks, pc, hi, now, since, straddles>>
  BY <1>1 DEF ReadOK, CallOK, HighOK, NowOK, Began, Arming
<1>2. CASE Tick
  <2>1. CallOK(t)'
    BY <1>2, Ticked DEF Tick, ReadOK, CallOK, Began, Arming
  <2>2. HighOK(t)'
    BY <1>2 DEF Tick, ReadOK, HighOK, Began
  <2>3. NowOK(t)'
    BY <1>2 DEF Tick, ReadOK, NowOK
  <2> QED BY <2>1, <2>2, <2>3 DEF ReadOK
<1>3. ASSUME NEW u \in Tasks, u # t, TaskStep(u) PROVE ReadOK(t)'
  <2>1. ticks' = ticks
    BY <1>3, TaskClock DEF SameClock
  <2> QED BY <1>3, <2>1, OtherTask DEF ReadOK, CallOK, HighOK, NowOK, Began, Arming
<1>4. CASE arm_call(t)
  <2>1. Quiet
    BY <1>4 DEF arm_call, Executes
  <2>2. clksrc_high = Hi(ticks)
    BY <2>1, QuietClock
  <2> QED BY <1>4, <2>2 DEF arm_call, TypeOK, ReadOK, CallOK, HighOK, NowOK, Began,
             Arming, hw
<1>5. CASE get_time_low(t)
  <2>1. CallOK(t)' /\ HighOK(t)'
    BY <1>5 DEF get_time_low, Executes, TypeOK, ReadOK, CallOK, HighOK, Began, Arming, hw
  <2>2. now'[t] = hi[t] * PERIOD + Lo(ticks) /\ pc'[t] = "recheck_high"
    BY <1>5 DEF get_time_low, TypeOK, Counter
  <2>3. since[t] <= ticks /\ ticks' = ticks /\ since' = since /\ hi' = hi
    BY <1>5 DEF get_time_low, Executes, ReadOK, CallOK, Arming, hw
  <2> QED BY <2>1, <2>2, <2>3 DEF ReadOK, NowOK
<1>6. CASE get_time_recheck(t)
  <2>1. clksrc_high = Hi(ticks) /\ hi'[t] = Hi(ticks) /\ ticks' = ticks /\ since' = since
        /\ now' = now /\ straddles' = straddles /\ pc[t] = "recheck_high"
    BY <1>6, QuietClock DEF get_time_recheck, Executes, TypeOK, hw
  <2>2. CallOK(t)'
    BY <1>6, <2>1 DEF get_time_recheck, TypeOK, ReadOK, CallOK, Began, Arming
  <2>3. CASE hi[t] = clksrc_high
    <3>1. pc'[t] = "set_running"
      BY <1>6, <2>3 DEF get_time_recheck, TypeOK
    <3>2. PICK v \in Nat : since[t] <= v /\ v <= ticks /\ now[t] = hi[t] * PERIOD + Lo(v)
      BY <2>1 DEF ReadOK, NowOK
    <3>3. Hi(v) = hi[t]
      <4>1. Began(t) <= Hi(v) /\ Hi(v) <= Hi(ticks) /\ Hi(v) \in Nat
        BY <3>2, Order, DivMod DEF Began, TypeOK
      <4> QED BY <2>1, <2>3, <4>1 DEF ReadOK, HighOK
    <3>4. now[t] = v
      BY <3>2, <3>3, DivMod
    <3> QED BY <2>1, <2>2, <3>1, <3>2, <3>4 DEF ReadOK, HighOK, NowOK
  <2>4. CASE hi[t] # clksrc_high
    <3>1. pc'[t] = "reread_low"
      BY <1>6, <2>4 DEF get_time_recheck, TypeOK
    <3>2. Hi(ticks) = Began(t) + 1 /\ t \in straddles
      BY <2>1, <2>4 DEF ReadOK, CallOK, HighOK, Arming
    <3> QED BY <2>1, <2>2, <3>1, <3>2 DEF ReadOK, HighOK, NowOK, Began
  <2> QED BY <2>3, <2>4
<1>7. CASE get_time_again(t)
  <2>1. Quiet /\ pc[t] = "reread_low" /\ ticks' = ticks /\ since' = since
        /\ straddles' = straddles /\ pc'[t] = "set_running"
    BY <1>7 DEF get_time_again, Executes, TypeOK, hw
  <2>2. CallOK(t)'
    BY <2>1 DEF ReadOK, CallOK, Began, Arming
  <2>3. since[t] <= ticks /\ hi[t] = Began(t) + 1 /\ t \in straddles
    BY <2>1 DEF ReadOK, CallOK, HighOK, Arming
  <2>4. hi[t] = Hi(ticks)
    BY <2>1, <2>3 DEF ReadOK, CallOK, Arming
  <2>5. now'[t] = ticks
    BY <1>7, <2>1, <2>4, QuietClock DEF get_time_again, TypeOK
  <2> QED BY <2>1, <2>2, <2>3, <2>5 DEF ReadOK, HighOK, NowOK
<1>8. CASE arm_set_running(t)
  BY <1>8 DEF arm_set_running, Executes, TypeOK, ReadOK, CallOK, HighOK, NowOK, Began,
     Arming, hw
<1>9. CASE arm_compare(t)
  BY <1>9 DEF arm_compare, TypeOK, ReadOK, CallOK, HighOK, NowOK, Arming
<1>10. CASE timer_cancel(t)
  BY <1>1, <1>10 DEF timer_cancel, hw, armVars
<1>11. CASE UNCHANGED vars
  BY <1>1, <1>11 DEF vars, hw, armVars
<1> QED BY <1>1, <1>2, <1>3, <1>4, <1>5, <1>6, <1>7, <1>8, <1>9, <1>10, <1>11, IsrCalls
        DEF Next, TaskStep

-----------------------------------------------------------------------------
(***************************************************************************)
(* The compare register.                                                   *)
(***************************************************************************)
\* What process_timers programs is ahead of the counter when it is done.
LEMMA HardwareStep ==
  ASSUME TypeOK, HardwareOK, [Next]_vars
  PROVE  HardwareOK'
<1> /\ ticks \in Nat /\ clksrc_high \in Nat /\ ccr \in Nat
    /\ Counter \in Nat /\ clksrc_high * PERIOD \in Int
  BY DivMod, TimerAssumption DEF TypeOK, Counter, LoMax
<1>1. CASE UNCHANGED vars
  BY <1>1 DEF HardwareOK, Quiet, Asserted, Counter, vars, hw, soft, isrVars
<1>2. CASE Tick
  <2>1. UNCHANGED <<isr, matchOn, ccr, next, next_deadline, clksrc_high, pended>>
    BY <1>2 DEF Tick, soft, isrVars
  <2>2. Quiet' /\ matchOn' => Counter' < ccr'
    <3> SUFFICES ASSUME Quiet', matchOn' PROVE Counter' < ccr'
      OBVIOUS
    <3>1. Lo(ticks + 1) # 0 /\ Lo(ticks + 1) # ccr /\ Quiet /\ ticks' = ticks + 1
      BY <1>2, <2>1 DEF Tick, Quiet, Asserted
    <3>2. Counter < ccr /\ Counter' = Counter + 1
      BY <2>1, <3>1, Ticked DEF HardwareOK, Counter
    <3> QED BY <2>1, <3>1, <3>2 DEF Counter
  <2> QED BY <2>1, <2>2 DEF HardwareOK
<1>3. CASE irq_enter \/ irq_clear_status
  BY <1>3 DEF irq_enter, irq_clear_status, HardwareOK, Quiet
<1>4. CASE process_timers_scan
  BY <1>4, ScanFinds DEF process_timers_scan, Programmable, HardwareOK, Quiet
<1>5. CASE process_timers_none
  BY <1>5 DEF process_timers_none, HardwareOK, Quiet
<1>6. CASE process_timers_program
  <2>1. next = clksrc_high * PERIOD + Lo(next)
    BY <1>6, DivMod DEF process_timers_program, HardwareOK, TypeOK
  <2> QED BY <1>6, <2>1 DEF process_timers_program, HardwareOK, Quiet
<1>7. CASE process_timers_verify
  <2>1. isr = "verify" /\ next = clksrc_high * PERIOD + ccr
    BY <1>7 DEF process_timers_verify, HardwareOK
  <2>2. ~(next <= IsrTime) => Counter < ccr
    BY <2>1 DEF IsrTime
  <2> QED BY <1>7, <2>1, <2>2 DEF process_timers_verify, HardwareOK, Quiet, Counter, hw,
             soft
<1>8. ASSUME NEW t \in Tasks, TaskStep(t) PROVE HardwareOK'
  BY <1>8, TaskIsQuiet DEF HardwareOK, Quiet, Counter, hw, isrVars
<1> QED BY <1>1, <1>2, <1>3, <1>4, <1>5, <1>6, <1>7, <1>8 DEF Next, Isr

-----------------------------------------------------------------------------
(***************************************************************************)
(* The deadlines.                                                          *)
(***************************************************************************)
\* A timer that timer_arm leaves to what is programmed is served in time; one
\* whose call saw a wrap has to wait for one wrap at the most.
LEMMA ArmSchedules ==
  ASSUME TypeOK, ClockOK, HardwareOK, NEW t \in Tasks, ReadOK(t), arm_compare(t), ~pended'
  PROVE  /\ t \notin straddles => AtOverflow(timer_deadline[t]) \/ AtMatch(timer_deadline[t])
         /\ clksrc_high <= Hi(timer_deadline[t]) + 1
<1> DEFINE d == timer_deadline[t]
<1>1. /\ ticks \in Nat /\ since[t] \in Nat /\ now[t] \in Nat /\ d \in Nat
      /\ next_deadline \in 0 .. LoMax
  BY TimerAssumption DEF TypeOK
<1>2. Quiet /\ isr = "idle" /\ pc[t] = "compare" /\ Arming(t)
  BY DEF arm_compare, Executes, Quiet, Arming
<1>3. clksrc_high = Hi(ticks)
  BY <1>2, QuietClock
<1>4. /\ ~(Hi(d) < Hi(now[t]))
      /\ Hi(d) = Hi(now[t]) => ~(Lo(d) <= next_deadline)
  BY DEF arm_compare
<1>5. /\ Hi(d) \in Nat /\ Lo(d) \in 0 .. LoMax /\ Hi(now[t]) \in Nat /\ Began(t) \in Nat
      /\ Hi(ticks) \in Nat
  BY <1>1, DivMod DEF Began
<1>6. Began(t) <= Hi(now[t]) /\ Hi(now[t]) <= Hi(ticks)
  BY <1>1, <1>2, Order DEF ReadOK, NowOK, Began
<1>7. IF matchOn THEN ccr = next_deadline ELSE next_deadline = LoMax
  BY <1>2 DEF HardwareOK
<1>8. clksrc_high <= Hi(d) + 1
  BY <1>2, <1>3, <1>4, <1>5, <1>6 DEF ReadOK, CallOK
<1>9. ASSUME t \notin straddles PROVE AtOverflow(d) \/ AtMatch(d)
  <2>1. Hi(now[t]) = clksrc_high
    BY <1>2, <1>3, <1>5, <1>6, <1>9 DEF ReadOK, CallOK
  <2>2. Hi(d) = clksrc_high => matchOn /\ ccr <= Lo(d)
    BY <1>1, <1>4, <1>5, <1>7, <2>1 DEF LoMax
  <2> QED BY <1>4, <1>5, <2>1, <2>2 DEF AtOverflow, AtMatch
<1> QED BY <1>8, <1>9

\* process_timers keeps the timers that are later, and finds their closest.
LEMMA ScanSchedules ==
  ASSUME TypeOK, process_timers_scan, NEW t \in timer_running'
  PROVE  (AtOverflow(timer_deadline[t]) \/ Found(timer_deadline[t]))'
<1> DEFINE d == timer_deadline[t]
<1>1. /\ t \in Tasks /\ t \in timer_running /\ d > IsrTime /\ d \in Nat /\ clksrc_high \in Nat
      /\ timer_deadline' = timer_deadline /\ clksrc_high' = clksrc_high
  BY DEF process_timers_scan, TypeOK
<1>2. IsrTime \in Nat /\ Hi(IsrTime) = clksrc_high
  BY <1>1, TimeType, Compose DEF IsrTime
<1>3. clksrc_high <= Hi(d) /\ Hi(d) \in Nat /\ Lo(d) \in 0 .. LoMax
  BY <1>1, <1>2, Order, DivMod
<1>4. ASSUME Hi(d) = clksrc_high, Lo(d) # LoMax PROVE Found(d)'
  <2>1. Lo(d) < LoMax
    BY <1>3, <1>4, TimerAssumption DEF LoMax
  <2>2. d \in Programmable(IsrTime)
    BY <1>1, <1>4, <2>1 DEF Programmable
  <2>3. next' \in Nat /\ next' <= d
    BY <2>2, ScanFinds
  <2> QED BY <1>1, <1>4, <2>3 DEF Found, NoDeadline
<1> QED BY <1>1, <1>3, <1>4 DEF AtOverflow

\* Every timer keeps being served.
LEMMA ScheduleStep ==
  ASSUME TypeOK, ClockOK, HardwareOK, [Next]_vars,
         NEW t \in Tasks, ReadOK(t), ScheduleOK(t)
  PROVE  ScheduleOK(t)'
<1> /\ clksrc_high \in Nat /\ Hi(timer_deadline[t]) \in Nat /\ timer_deadline[t] \in Nat
  BY DivMod DEF TypeOK
<1>1. CASE UNCHANGED vars
  BY <1>1 DEF vars, hw, soft, isrVars, armVars, ScheduleOK, AtOverflow, AtMatch, Found,
     Quiet,
     Asserted, Arming
<1>2. CASE Tick
  <2>1. /\ UNCHANGED <<isr, matchOn, ccr, next, clksrc_high, timer_running, timer_deadline, pc>>
        /\ Quiet' => Quiet
        /\ straddles \subseteq straddles'
    BY <1>2 DEF Tick, soft, isrVars, Quiet, Asserted
  <2> QED BY <2>1 DEF ScheduleOK, AtOverflow, AtMatch, Found, Arming
<1>3. CASE irq_enter \/ irq_clear_status
  BY <1>3 DEF irq_enter, irq_clear_status, ScheduleOK, Quiet
<1>4. CASE process_timers_scan
  <2>1. isr' = "program"
    BY <1>4 DEF process_timers_scan
  <2> QED BY <1>4, <2>1, ScanSchedules DEF ScheduleOK, Quiet
<1>5. CASE process_timers_none
  <2>1. t \in timer_running => AtOverflow(timer_deadline[t])
    BY <1>5 DEF process_timers_none, ScheduleOK, Found
  <2>2. UNCHANGED <<timer_running, timer_deadline, clksrc_high>> /\ isr' = "idle"
    BY <1>5 DEF process_timers_none
  <2> QED BY <2>1, <2>2 DEF ScheduleOK, AtOverflow
<1>6. CASE process_timers_program
  <2>1. /\ isr = "program" /\ next # NoDeadline /\ next \in Nat /\ Hi(next) = clksrc_high
        /\ matchOn' /\ ccr' = Lo(next) /\ isr' = "verify"
        /\ UNCHANGED <<timer_running, timer_deadline, clksrc_high>>
    BY <1>6 DEF process_timers_program, TypeOK, HardwareOK
  <2>2. Found(timer_deadline[t]) => AtMatch(timer_deadline[t])'
    BY <2>1, Order DEF Found, AtMatch
  <2> QED BY <2>1, <2>2 DEF ScheduleOK, AtOverflow, Quiet
<1>7. CASE process_timers_verify
  BY <1>7 DEF process_timers_verify, ScheduleOK, AtOverflow, AtMatch, hw, soft
<1>8. ASSUME NEW u \in Tasks, u # t, TaskStep(u) PROVE ScheduleOK(t)'
  BY <1>8, OtherTask, TaskIsQuiet DEF ScheduleOK, AtOverflow, AtMatch, Arming, hw
<1>9. CASE arm_call(t) \/ timer_cancel(t)
  BY <1>9 DEF arm_call, timer_cancel, ScheduleOK
<1>10. CASE get_time_low(t) \/ get_time_recheck(t) \/ get_time_again(t) \/ arm_set_running(t)
  <2>1. Arming(t)' /\ isr' = "idle"
    BY <1>10, TaskIsQuiet DEF TaskStep, get_time_low, get_time_recheck, get_time_again,
       arm_set_running, Arming, TypeOK
  <2> QED BY <2>1 DEF ScheduleOK
<1>11. CASE arm_compare(t)
  <2>1. /\ isr' = "idle"
        /\ Quiet' => ~pended'
        /\ UNCHANGED <<hw, clksrc_high, timer_running, timer_deadline, straddles>>
    BY <1>11, TaskIsQuiet DEF TaskStep, arm_compare, Quiet, Asserted, soft
  <2>2. ~pended' => /\ t \notin straddles => AtOverflow(timer_deadline[t]) \/ AtMatch(timer_deadline[t])
                    /\ clksrc_high <= Hi(timer_deadline[t]) + 1
    BY <1>11, ArmSchedules
  <2> QED BY <2>1, <2>2 DEF ScheduleOK, AtOverflow, AtMatch, hw
<1> QED BY <1>1, <1>2, <1>3, <1>4, <1>5, <1>6, <1>7, <1>8, <1>9, <1>10, <1>11
        DEF Next, Isr, TaskStep

-----------------------------------------------------------------------------
(***************************************************************************)
(* The theorems.                                                           *)
(***************************************************************************)
\* The initial state satisfies the invariants.
LEMMA InitIInv == Init => IInv /\ LagOK
<1> SUFFICES ASSUME Init PROVE IInv /\ LagOK
  OBVIOUS
<1>1. Hi(0) = 0 /\ Lo(0) = 0
  <2>1. 0 \in 0 .. LoMax /\ 0 * PERIOD + 0 = 0
    BY TimerAssumption DEF LoMax
  <2> QED BY <2>1, Compose
<1>2. ClockOK /\ LagOK
  BY <1>1 DEF Init, ClockOK, LagOK, Overflow
<1>3. HardwareOK
  BY DEF Init, HardwareOK
<1>4. ASSUME NEW t \in Tasks PROVE ReadOK(t) /\ ScheduleOK(t)
  BY DEF Init, ReadOK, CallOK, HighOK, NowOK, ScheduleOK, Arming
<1> QED BY <1>2, <1>3, <1>4, InitTypes DEF IInv

\* The state of timer.c and of hwtimer32.c keeps its types, and the software
\* high word is never ahead: also when an overflow is lost.
THEOREM LagInvariance == Spec => [](TypeOK /\ LagOK)
<1>1. Init => TypeOK /\ LagOK
  BY InitIInv DEF IInv
<1>2. TypeOK /\ LagOK /\ [Next]_vars => (TypeOK /\ LagOK)'
  BY TypeStep, LagStep
<1> QED BY <1>1, <1>2, PTL DEF Spec

\* The state keeps its types.
THEOREM TypeCorrect == Spec => []TypeOK
BY LagInvariance, PTL

\* process_timers never expires a timer before its deadline, also when an
\* overflow is lost.
THEOREM ExpiresNoneEarly == Spec => NeverEarly
<1>1. ASSUME TypeOK, LagOK, [Next]_vars, isr = "scan",
             NEW t \in timer_running \ timer_running'
      PROVE  ticks >= timer_deadline[t]
  <2>1. process_timers_scan
    <3>1. ~(UNCHANGED vars \/ Tick \/ irq_enter \/ irq_clear_status \/ process_timers_none
            \/ process_timers_program \/ process_timers_verify)
      BY <1>1 DEF vars, soft, Tick, irq_enter, irq_clear_status, process_timers_none,
         process_timers_program, process_timers_verify
    <3>2. ~ \E u \in Tasks : TaskStep(u)
      BY <1>1, TaskIsQuiet DEF Quiet
    <3> QED BY <1>1, <3>1, <3>2 DEF Next, Isr
  <2>2. timer_deadline[t] <= IsrTime
    <3>1. t \in Tasks /\ timer_deadline[t] \in Nat
      BY <1>1 DEF TypeOK
    <3>2. IsrTime \in Nat /\ ~(timer_deadline[t] > IsrTime)
      BY <1>1, <2>1, TimeType DEF process_timers_scan, IsrTime, TypeOK
    <3> QED BY <3>1, <3>2
  <2>3. IsrTime <= ticks
    <3>1. /\ ticks \in Nat /\ clksrc_high \in Nat /\ Counter \in 0 .. LoMax
          /\ clksrc_high <= Hi(ticks) /\ Hi(ticks) \in Nat /\ IsrTime \in Nat
          /\ ticks = Hi(ticks) * PERIOD + Counter
      <4>1. ticks \in Nat /\ clksrc_high \in Nat
        BY <1>1, TimerAssumption DEF TypeOK
      <4>2. /\ Counter \in 0 .. LoMax /\ Hi(ticks) \in Nat /\ IsrTime \in Nat
            /\ ticks = Hi(ticks) * PERIOD + Counter
        BY <1>1, <4>1, DivMod, TimeType DEF IsrTime, Counter
      <4>3. clksrc_high <= Hi(ticks)
        BY <1>1, <4>1, <4>2 DEF LagOK, Overflow
      <4> QED BY <4>1, <4>2, <4>3
    <3>2. CASE clksrc_high = Hi(ticks)
      BY <3>1, <3>2 DEF IsrTime
    <3>3. CASE clksrc_high < Hi(ticks)
      BY <3>1, <3>3, Less DEF IsrTime
    <3> QED BY <3>1, <3>2, <3>3
  <2>4. ticks \in Nat /\ timer_deadline[t] \in Nat /\ IsrTime \in Nat
    BY <1>1, TimerAssumption, TimeType DEF TypeOK, IsrTime
  <2> QED BY <2>2, <2>3, <2>4
<1>2. TypeOK /\ LagOK /\ [Next]_vars =>
        [isr = "scan" => \A t \in timer_running \ timer_running' : ticks >= timer_deadline[t]]_vars
  BY <1>1
<1> QED BY <1>2, LagInvariance, PTL DEF Spec, NeverEarly

\* When the status register is cleared as it is read, the inductive invariant
\* holds in every state.
THEOREM Invariance ==
  ASSUME ~StatusWindow
  PROVE  Spec => []IInv
<1>1. IInv /\ [Next]_vars => IInv'
  <2> SUFFICES ASSUME IInv, [Next]_vars PROVE IInv'
    OBVIOUS
  <2>1. TypeOK' /\ ClockOK' /\ HardwareOK'
    BY TypeStep, ClockStep, HardwareStep DEF IInv
  <2>2. ASSUME NEW t \in Tasks PROVE ReadOK(t)' /\ ScheduleOK(t)'
    BY ReadStep, ScheduleStep DEF IInv
  <2> QED BY <2>1, <2>2 DEF IInv
<1> QED BY <1>1, InitIInv, PTL DEF Spec

\* get_time returns a time between its call and its return although it puts it
\* together from a hardware and a software word that an interrupt moves.
THEOREM GetTimeIsCoherent ==
  ASSUME ~StatusWindow
  PROVE  Spec => []GetTimeCoherent
<1>1. IInv => GetTimeCoherent
  BY TimerAssumption DEF IInv, TypeOK, ReadOK, NowOK, GetTimeCoherent
<1> QED BY <1>1, Invariance, PTL

\* No timer is late, but for one that was armed while the counter wrapped: it
\* is late by one wrap at the most.
THEOREM TimersAreOnTime ==
  ASSUME ~StatusWindow
  PROVE  Spec => []OnTime
<1>1. ASSUME IInv, NEW t \in Tasks, Settled(t)
      PROVE  IF t \in straddles THEN Hi(ticks) <= Hi(timer_deadline[t]) + 1
                                ELSE ticks <= timer_deadline[t]
  <2> DEFINE d == timer_deadline[t]
  <2>1. /\ ticks \in Nat /\ d \in Nat /\ Hi(ticks) \in Nat /\ Hi(d) \in Nat
        /\ Lo(ticks) \in 0 .. LoMax /\ Lo(d) \in 0 .. LoMax /\ ccr \in 0 .. LoMax
    BY <1>1, TimerAssumption, DivMod DEF IInv, TypeOK
  <2>2. clksrc_high = Hi(ticks) /\ Quiet /\ t \in timer_running /\ ~Arming(t)
    BY <1>1, QuietClock DEF IInv, Settled
  <2>3. t \in straddles => Hi(ticks) <= Hi(d) + 1
    BY <1>1, <2>2 DEF IInv, ScheduleOK
  <2>4. ASSUME t \notin straddles PROVE ticks <= d
    <3>1. AtOverflow(d) \/ AtMatch(d)
      BY <1>1, <2>2, <2>4 DEF IInv, ScheduleOK
    <3>2. AtMatch(d) => Lo(ticks) < ccr /\ ccr <= Lo(d) /\ Hi(d) = Hi(ticks)
      BY <1>1, <2>2 DEF IInv, HardwareOK, AtMatch, Counter
    <3>3. Hi(ticks) < Hi(d) \/ (Hi(ticks) = Hi(d) /\ Lo(ticks) <= Lo(d))
      BY <2>1, <2>2, <3>1, <3>2, TimerAssumption DEF AtOverflow, LoMax
    <3> QED BY <2>1, <3>3, Order
  <2> QED BY <2>3, <2>4
<1>2. IInv => OnTime
  BY <1>1 DEF OnTime
<1> QED BY <1>2, Invariance, PTL
=============================================================================
