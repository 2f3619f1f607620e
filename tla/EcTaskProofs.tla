---------------------------- MODULE EcTaskProofs ----------------------------
(***************************************************************************)
(* Proofs about EcTask for every number of tasks, interrupts, events,      *)
(* mutexes and calls: IInv is inductive, so the safety properties hold.    *)
(***************************************************************************)
EXTENDS EcTask, TLAPS

\* What the proofs use of the identifiers.
LEMMA Identifiers ==
  /\ TASK_ID_IDLE \in Tasks /\ TASK_ID_HOOKS \in Tasks /\ Scratchpad \notin Tasks
  /\ TIMER \in AllEvents /\ MUTEX \in AllEvents /\ Events \subseteq AllEvents
  /\ TIMER \notin Events /\ MUTEX \notin Events /\ TIMER # MUTEX
  /\ NoMutex \notin Mutexes
  BY TasksAssumption, EventsAssumption, MutexAssumption
  DEF TASK_ID_IDLE, TASK_ID_HOOKS, Tasks, Scratchpad, AllEvents, NoMutex, TIMER,
      MUTEX

\* Before task_start nobody waits, posts or has a mutex.
LEMMA InitIInv == Init => IInv
<1> SUFFICES ASSUME Init PROVE IInv
  OBVIOUS
<1> USE Identifiers DEF Init
<1>1. TypeOK
  <2>1. calls \in 0 .. MaxCalls /\ irqEvents \in 0 .. MaxIrqEvents
    BY BoundsAssumption
  <2>2. pc \in [Tasks -> Steps]
    BY DEF Steps
  <2> QED
    BY <2>1, <2>2 DEF TypeOK
<1>2. CallOK
  BY DEF CallOK, Waiting, WaitSteps, TimedSteps, LockSteps
<1>3. LockOK
  BY DEF LockOK, MutualExclusion, Has
<1>4. ReadyOK /\ PriorityOK
  BY DEF ReadyOK, EventMakesReady, PriorityOK, HighestPriorityRuns
<1>5. WakeOK
  BY DEF WakeOK
<1> QED
  BY <1>1, <1>2, <1>3, <1>4, <1>5 DEF IInv

-----------------------------------------------------------------------------
(***************************************************************************)
(* Type correctness.  mutex_lock needs the mutex of the call in progress,  *)
(* which CallOK provides.                                                  *)
(***************************************************************************)
LEMMA TypeStep == ASSUME TypeOK, CallOK, [Next]_vars PROVE TypeOK'
<1> USE Identifiers DEF TypeOK, CallOK, Steps, WaitSteps, TimedSteps,
    PostSteps, LockSteps, vars, schedVars, mutexVars, callVars, postVars,
    lockVars, waitVars, bounds
<1>1. ASSUME task_start PROVE TypeOK'
  BY <1>1 DEF task_start, Switch, ThreadMode
<1>2. ASSUME NEW t \in Tasks, set_event_svc(t) PROVE TypeOK'
  BY <1>2 DEF set_event_svc, Executes, svc_handler, Switch, Descheduled, Goto,
     ThreadMode
<1>3. ASSUME NEW t \in Tasks, resched(t) PROVE TypeOK'
  BY <1>3 DEF resched, Executes, svc_handler, Switch, Descheduled, Goto,
     ThreadMode
<1>4. ASSUME NEW t \in Tasks, arm(t) PROVE TypeOK'
  BY <1>4 DEF arm, Executes, Goto
<1>5. ASSUME NEW t \in Tasks, check(t) PROVE TypeOK'
  BY <1>5 DEF check, Executes, Goto
<1>6. ASSUME NEW t \in Tasks, desched(t) PROVE TypeOK'
  BY <1>6 DEF desched, Executes, svc_handler, Switch, Descheduled, Goto
<1>7. ASSUME NEW t \in Tasks, cancel(t) PROVE TypeOK'
  BY <1>7 DEF cancel, Executes, Goto
<1>8. ASSUME NEW t \in Tasks, clear_timer(t) PROVE TypeOK'
  BY <1>8 DEF clear_timer, Executes, Goto
<1>9. ASSUME NEW t \in Tasks, wait_again(t) PROVE TypeOK'
  BY <1>9 DEF wait_again, Executes, Goto
<1>10. ASSUME NEW t \in Tasks, NEW late \in BOOLEAN, wait_return(t, late)
       PROVE  TypeOK'
  BY <1>10 DEF wait_return, Executes, Goto
<1>11. ASSUME NEW t \in Tasks, take_lock(t) PROVE TypeOK'
  BY <1>11 DEF take_lock, Executes, Goto
<1>12. ASSUME NEW t \in Tasks, contend(t) PROVE TypeOK'
  BY <1>12 DEF contend, Executes, StartWait, Goto
<1>13. ASSUME NEW t \in Tasks, clear_waiter(t) PROVE TypeOK'
  BY <1>13 DEF clear_waiter, Executes, Goto
<1>14. ASSUME NEW t \in Tasks, notify_waiter(t) PROVE TypeOK'
  BY <1>14 DEF notify_waiter, Executes, Goto
<1>15. ASSUME NEW t \in Tasks, unlock_svc(t) PROVE TypeOK'
  BY <1>15 DEF unlock_svc, Executes, svc_handler, Switch, Descheduled, Goto
<1>16. ASSUME NEW t \in Tasks, unlock_done(t) PROVE TypeOK'
  BY <1>16 DEF unlock_done, Executes, Goto
<1>17. ASSUME NEW t \in Tasks, NEW r \in Tasks \ {TASK_ID_IDLE},
             NEW e \in Events, task_set_event(t, r, e)
       PROVE  TypeOK'
  BY <1>17, BoundsAssumption DEF task_set_event, MayCall, Executes, Goto
<1>18. ASSUME NEW t \in Tasks, NEW r \in Tasks \ {TASK_ID_IDLE},
             NEW e \in Events, task_set_event_masked(t, r, e)
       PROVE  TypeOK'
  BY <1>18, BoundsAssumption DEF task_set_event_masked, MayCall, Executes, Goto
<1>19. ASSUME NEW t \in Tasks, main_loop_wait(t) PROVE TypeOK'
  BY <1>19 DEF main_loop_wait, Executes, StartWait, Goto
<1>20. ASSUME NEW t \in Tasks, task_wait_event(t) PROVE TypeOK'
  BY <1>20, BoundsAssumption DEF task_wait_event, MayCall, Executes, StartWait,
     Goto
<1>21. ASSUME NEW t \in Tasks, usleep(t) PROVE TypeOK'
  BY <1>21, BoundsAssumption DEF usleep, MayCall, Executes, StartWait, Goto
<1>22. ASSUME NEW t \in Tasks, NEW S \in SUBSET Events,
             NEW withTimeout \in BOOLEAN, task_wait_event_mask(t, S,
             withTimeout)
       PROVE  TypeOK'
  BY <1>22, BoundsAssumption DEF task_wait_event_mask, MayCall, Executes,
     StartWait, Goto
<1>23. ASSUME NEW t \in Tasks, NEW m \in Mutexes, mutex_lock(t, m)
       PROVE  TypeOK'
  BY <1>23, BoundsAssumption DEF mutex_lock, MayCall, Executes, Goto
<1>24. ASSUME NEW t \in Tasks, NEW m \in Mutexes, mutex_unlock(t, m)
       PROVE  TypeOK'
  BY <1>24 DEF mutex_unlock, Executes, Goto
<1>25. ASSUME NEW t \in Tasks, NEW u \in Tasks, task_enable_task(t, u)
       PROVE  TypeOK'
  BY <1>25, BoundsAssumption DEF task_enable_task, MayCall, Executes, Goto
<1>26. ASSUME NEW t \in Tasks, NEW u \in Tasks, task_disable_task(t, u)
       PROVE  TypeOK'
  BY <1>26, BoundsAssumption DEF task_disable_task, MayCall, Executes, Goto
<1>27. ASSUME task_enable_all_tasks PROVE TypeOK'
  BY <1>27 DEF task_enable_all_tasks, Executes, Goto
<1>28. ASSUME all_ready PROVE TypeOK'
  BY <1>28 DEF all_ready, Executes, Goto
<1>29. ASSUME NEW i \in Irqs, irq_enter(i) PROVE TypeOK'
  BY <1>29 DEF irq_enter
<1>30. ASSUME NEW i \in Irqs, irq_no_resched(i) PROVE TypeOK'
  BY <1>30 DEF irq_no_resched
<1>31. ASSUME NEW i \in Irqs, irq_resched(i) PROVE TypeOK'
  BY <1>31 DEF irq_resched, svc_handler, Switch, Descheduled
<1>32. ASSUME NEW i \in Irqs, irq_exit(i) PROVE TypeOK'
  BY <1>32 DEF irq_exit
<1>33. ASSUME NEW i \in Irqs, NEW r \in Tasks \ {TASK_ID_IDLE},
             NEW e \in Events, irq_set_event(i, r, e)
       PROVE  TypeOK'
  BY <1>33, BoundsAssumption DEF irq_set_event, HandlerPosts
<1>34. ASSUME NEW r \in Tasks, expire_timer(r) PROVE TypeOK'
  BY <1>34 DEF expire_timer, HandlerPosts
<1>35. CASE UNCHANGED vars
  BY <1>35
<1> HIDE Identifiers DEF TypeOK, CallOK, Steps, WaitSteps, TimedSteps,
    PostSteps, LockSteps, vars, schedVars, mutexVars, callVars, postVars,
    lockVars, waitVars, bounds
<1> QED
  BY <1>1, <1>2, <1>3, <1>4, <1>5, <1>6, <1>7, <1>8, <1>9, <1>10, <1>11, <1>12,
     <1>13, <1>14, <1>15, <1>16, <1>17, <1>18, <1>19, <1>20, <1>21, <1>22,
     <1>23, <1>24, <1>25, <1>26, <1>27, <1>28, <1>29, <1>30, <1>31, <1>32,
     <1>33, <1>34, <1>35
     DEF Next, TaskNext, CallStep, CallStart, HooksInit, IrqStep

(***************************************************************************)
(* The calls in progress: the timer bit and the TIMER event come and go    *)
(* within the timed wait, a mutex waiter waits for MUTEX only.             *)
(***************************************************************************)
LEMMA CallOKStep == ASSUME TypeOK, CallOK, [Next]_vars PROVE CallOK'
<1> USE Identifiers DEF TypeOK, CallOK, Waiting, WaitSteps, TimedSteps,
    PostSteps, LockSteps, MutexSteps, vars, schedVars, mutexVars, callVars,
    postVars, lockVars, waitVars, bounds
<1>1. ASSUME task_start PROVE CallOK'
  BY <1>1 DEF task_start, Switch, ThreadMode
<1>2. ASSUME NEW t \in Tasks, set_event_svc(t) PROVE CallOK'
  BY <1>2 DEF set_event_svc, Executes, svc_handler, Switch, Descheduled, Goto,
     ThreadMode
<1>3. ASSUME NEW t \in Tasks, resched(t) PROVE CallOK'
  BY <1>3 DEF resched, Executes, svc_handler, Switch, Descheduled, Goto,
     ThreadMode
<1>4. ASSUME NEW t \in Tasks, arm(t) PROVE CallOK'
  BY <1>4 DEF arm, Executes, Goto
<1>5. ASSUME NEW t \in Tasks, check(t) PROVE CallOK'
  BY <1>5 DEF check, Executes, Goto
<1>6. ASSUME NEW t \in Tasks, desched(t) PROVE CallOK'
  BY <1>6 DEF desched, Executes, svc_handler, Switch, Descheduled, Goto
<1>7. ASSUME NEW t \in Tasks, cancel(t) PROVE CallOK'
  BY <1>7 DEF cancel, Executes, Goto
<1>8. ASSUME NEW t \in Tasks, clear_timer(t) PROVE CallOK'
  BY <1>8 DEF clear_timer, Executes, Goto
<1>9. ASSUME NEW t \in Tasks, wait_again(t) PROVE CallOK'
  BY <1>9 DEF wait_again, Executes, Goto
<1>10. ASSUME NEW t \in Tasks, NEW late \in BOOLEAN, wait_return(t, late)
       PROVE  CallOK'
  BY <1>10 DEF wait_return, Executes, Goto
<1>11. ASSUME NEW t \in Tasks, take_lock(t) PROVE CallOK'
  BY <1>11 DEF take_lock, Executes, Goto
<1>12. ASSUME NEW t \in Tasks, contend(t) PROVE CallOK'
  BY <1>12 DEF contend, Executes, StartWait, Goto
<1>13. ASSUME NEW t \in Tasks, clear_waiter(t) PROVE CallOK'
  BY <1>13 DEF clear_waiter, Executes, Goto
<1>14. ASSUME NEW t \in Tasks, notify_waiter(t) PROVE CallOK'
  BY <1>14 DEF notify_waiter, Executes, Goto
<1>15. ASSUME NEW t \in Tasks, unlock_svc(t) PROVE CallOK'
  BY <1>15 DEF unlock_svc, Executes, svc_handler, Switch, Descheduled, Goto
<1>16. ASSUME NEW t \in Tasks, unlock_done(t) PROVE CallOK'
  BY <1>16 DEF unlock_done, Executes, Goto
<1>17. ASSUME NEW t \in Tasks, NEW r \in Tasks \ {TASK_ID_IDLE},
             NEW e \in Events, task_set_event(t, r, e)
       PROVE  CallOK'
  BY <1>17 DEF task_set_event, MayCall, Executes, Goto
<1>18. ASSUME NEW t \in Tasks, NEW r \in Tasks \ {TASK_ID_IDLE},
             NEW e \in Events, task_set_event_masked(t, r, e)
       PROVE  CallOK'
  BY <1>18 DEF task_set_event_masked, MayCall, Executes, Goto
<1>19. ASSUME NEW t \in Tasks, main_loop_wait(t) PROVE CallOK'
  BY <1>19 DEF main_loop_wait, Executes, StartWait, Goto
<1>20. ASSUME NEW t \in Tasks, task_wait_event(t) PROVE CallOK'
  BY <1>20 DEF task_wait_event, MayCall, Executes, StartWait, Goto
<1>21. ASSUME NEW t \in Tasks, usleep(t) PROVE CallOK'
  BY <1>21 DEF usleep, MayCall, Executes, StartWait, Goto
<1>22. ASSUME NEW t \in Tasks, NEW S \in SUBSET Events,
             NEW withTimeout \in BOOLEAN, task_wait_event_mask(t, S,
             withTimeout)
       PROVE  CallOK'
  BY <1>22 DEF task_wait_event_mask, MayCall, Executes, StartWait, Goto
<1>23. ASSUME NEW t \in Tasks, NEW m \in Mutexes, mutex_lock(t, m)
       PROVE  CallOK'
  BY <1>23 DEF mutex_lock, MayCall, Executes, Goto
<1>24. ASSUME NEW t \in Tasks, NEW m \in Mutexes, mutex_unlock(t, m)
       PROVE  CallOK'
  BY <1>24 DEF mutex_unlock, Executes, Goto
<1>25. ASSUME NEW t \in Tasks, NEW u \in Tasks, task_enable_task(t, u)
       PROVE  CallOK'
  BY <1>25 DEF task_enable_task, MayCall, Executes, Goto
<1>26. ASSUME NEW t \in Tasks, NEW u \in Tasks, task_disable_task(t, u)
       PROVE  CallOK'
  BY <1>26 DEF task_disable_task, MayCall, Executes, Goto
<1>27. ASSUME task_enable_all_tasks PROVE CallOK'
  BY <1>27 DEF task_enable_all_tasks, Executes, Goto
<1>28. ASSUME all_ready PROVE CallOK'
  BY <1>28 DEF all_ready, Executes, Goto
<1>29. ASSUME NEW i \in Irqs, irq_enter(i) PROVE CallOK'
  BY <1>29 DEF irq_enter
<1>30. ASSUME NEW i \in Irqs, irq_no_resched(i) PROVE CallOK'
  BY <1>30 DEF irq_no_resched
<1>31. ASSUME NEW i \in Irqs, irq_resched(i) PROVE CallOK'
  BY <1>31 DEF irq_resched, svc_handler, Switch, Descheduled
<1>32. ASSUME NEW i \in Irqs, irq_exit(i) PROVE CallOK'
  BY <1>32 DEF irq_exit
<1>33. ASSUME NEW i \in Irqs, NEW r \in Tasks \ {TASK_ID_IDLE},
             NEW e \in Events, irq_set_event(i, r, e)
       PROVE  CallOK'
  BY <1>33 DEF irq_set_event, HandlerPosts
<1>34. ASSUME NEW r \in Tasks, expire_timer(r) PROVE CallOK'
  BY <1>34 DEF expire_timer, HandlerPosts
<1>35. CASE UNCHANGED vars
  BY <1>35
<1> HIDE Identifiers DEF TypeOK, CallOK, Waiting, WaitSteps, TimedSteps,
    PostSteps, LockSteps, MutexSteps, vars, schedVars, mutexVars, callVars,
    postVars, lockVars, waitVars, bounds
<1> QED
  BY <1>1, <1>2, <1>3, <1>4, <1>5, <1>6, <1>7, <1>8, <1>9, <1>10, <1>11, <1>12,
     <1>13, <1>14, <1>15, <1>16, <1>17, <1>18, <1>19, <1>20, <1>21, <1>22,
     <1>23, <1>24, <1>25, <1>26, <1>27, <1>28, <1>29, <1>30, <1>31, <1>32,
     <1>33, <1>34, <1>35
     DEF Next, TaskNext, CallStep, CallStart, HooksInit, IrqStep

(***************************************************************************)
(* Mutual exclusion: whoever has a mutex has taken its lock field.         *)
(***************************************************************************)
LEMMA LockOKStep == ASSUME TypeOK, CallOK, LockOK, [Next]_vars PROVE LockOK'
<1> USE Identifiers DEF TypeOK, CallOK, LockOK, MutualExclusion, Has,
    LockSteps, vars, schedVars, mutexVars, callVars, postVars, lockVars,
    waitVars, bounds
<1>1. ASSUME task_start PROVE LockOK'
  BY <1>1 DEF task_start, Switch, ThreadMode
<1>2. ASSUME NEW t \in Tasks, set_event_svc(t) PROVE LockOK'
  BY <1>2 DEF set_event_svc, Executes, svc_handler, Switch, Descheduled, Goto,
     ThreadMode
<1>3. ASSUME NEW t \in Tasks, resched(t) PROVE LockOK'
  BY <1>3 DEF resched, Executes, svc_handler, Switch, Descheduled, Goto,
     ThreadMode
<1>4. ASSUME NEW t \in Tasks, arm(t) PROVE LockOK'
  BY <1>4 DEF arm, Executes, Goto
<1>5. ASSUME NEW t \in Tasks, check(t) PROVE LockOK'
  BY <1>5 DEF check, Executes, Goto
<1>6. ASSUME NEW t \in Tasks, desched(t) PROVE LockOK'
  BY <1>6 DEF desched, Executes, svc_handler, Switch, Descheduled, Goto
<1>7. ASSUME NEW t \in Tasks, cancel(t) PROVE LockOK'
  BY <1>7 DEF cancel, Executes, Goto
<1>8. ASSUME NEW t \in Tasks, clear_timer(t) PROVE LockOK'
  BY <1>8 DEF clear_timer, Executes, Goto
<1>9. ASSUME NEW t \in Tasks, wait_again(t) PROVE LockOK'
  BY <1>9 DEF wait_again, Executes, Goto
<1>10. ASSUME NEW t \in Tasks, NEW late \in BOOLEAN, wait_return(t, late)
       PROVE  LockOK'
  BY <1>10 DEF wait_return, Executes, Goto
<1>11. ASSUME NEW t \in Tasks, take_lock(t) PROVE LockOK'
  BY <1>11 DEF take_lock, Executes, Goto
<1>12. ASSUME NEW t \in Tasks, contend(t) PROVE LockOK'
  BY <1>12 DEF contend, Executes, StartWait, Goto
<1>13. ASSUME NEW t \in Tasks, clear_waiter(t) PROVE LockOK'
  BY <1>13 DEF clear_waiter, Executes, Goto
<1>14. ASSUME NEW t \in Tasks, notify_waiter(t) PROVE LockOK'
  BY <1>14 DEF notify_waiter, Executes, Goto
<1>15. ASSUME NEW t \in Tasks, unlock_svc(t) PROVE LockOK'
  BY <1>15 DEF unlock_svc, Executes, svc_handler, Switch, Descheduled, Goto
<1>16. ASSUME NEW t \in Tasks, unlock_done(t) PROVE LockOK'
  BY <1>16 DEF unlock_done, Executes, Goto
<1>17. ASSUME NEW t \in Tasks, NEW r \in Tasks \ {TASK_ID_IDLE},
             NEW e \in Events, task_set_event(t, r, e)
       PROVE  LockOK'
  BY <1>17 DEF task_set_event, MayCall, Executes, Goto
<1>18. ASSUME NEW t \in Tasks, NEW r \in Tasks \ {TASK_ID_IDLE},
             NEW e \in Events, task_set_event_masked(t, r, e)
       PROVE  LockOK'
  BY <1>18 DEF task_set_event_masked, MayCall, Executes, Goto
<1>19. ASSUME NEW t \in Tasks, main_loop_wait(t) PROVE LockOK'
  BY <1>19 DEF main_loop_wait, Executes, StartWait, Goto
<1>20. ASSUME NEW t \in Tasks, task_wait_event(t) PROVE LockOK'
  BY <1>20 DEF task_wait_event, MayCall, Executes, StartWait, Goto
<1>21. ASSUME NEW t \in Tasks, usleep(t) PROVE LockOK'
  BY <1>21 DEF usleep, MayCall, Executes, StartWait, Goto
<1>22. ASSUME NEW t \in Tasks, NEW S \in SUBSET Events,
             NEW withTimeout \in BOOLEAN, task_wait_event_mask(t, S,
             withTimeout)
       PROVE  LockOK'
  BY <1>22 DEF task_wait_event_mask, MayCall, Executes, StartWait, Goto
<1>23. ASSUME NEW t \in Tasks, NEW m \in Mutexes, mutex_lock(t, m)
       PROVE  LockOK'
  BY <1>23 DEF mutex_lock, MayCall, Executes, Goto
<1>24. ASSUME NEW t \in Tasks, NEW m \in Mutexes, mutex_unlock(t, m)
       PROVE  LockOK'
  BY <1>24 DEF mutex_unlock, Executes, Goto
<1>25. ASSUME NEW t \in Tasks, NEW u \in Tasks, task_enable_task(t, u)
       PROVE  LockOK'
  BY <1>25 DEF task_enable_task, MayCall, Executes, Goto
<1>26. ASSUME NEW t \in Tasks, NEW u \in Tasks, task_disable_task(t, u)
       PROVE  LockOK'
  BY <1>26 DEF task_disable_task, MayCall, Executes, Goto
<1>27. ASSUME task_enable_all_tasks PROVE LockOK'
  BY <1>27 DEF task_enable_all_tasks, Executes, Goto
<1>28. ASSUME all_ready PROVE LockOK'
  BY <1>28 DEF all_ready, Executes, Goto
<1>29. ASSUME NEW i \in Irqs, irq_enter(i) PROVE LockOK'
  BY <1>29 DEF irq_enter
<1>30. ASSUME NEW i \in Irqs, irq_no_resched(i) PROVE LockOK'
  BY <1>30 DEF irq_no_resched
<1>31. ASSUME NEW i \in Irqs, irq_resched(i) PROVE LockOK'
  BY <1>31 DEF irq_resched, svc_handler, Switch, Descheduled
<1>32. ASSUME NEW i \in Irqs, irq_exit(i) PROVE LockOK'
  BY <1>32 DEF irq_exit
<1>33. ASSUME NEW i \in Irqs, NEW r \in Tasks \ {TASK_ID_IDLE},
             NEW e \in Events, irq_set_event(i, r, e)
       PROVE  LockOK'
  BY <1>33 DEF irq_set_event, HandlerPosts
<1>34. ASSUME NEW r \in Tasks, expire_timer(r) PROVE LockOK'
  BY <1>34 DEF expire_timer, HandlerPosts
<1>35. CASE UNCHANGED vars
  BY <1>35
<1> HIDE Identifiers DEF TypeOK, CallOK, LockOK, MutualExclusion, Has,
    LockSteps, vars, schedVars, mutexVars, callVars, postVars, lockVars,
    waitVars, bounds
<1> QED
  BY <1>1, <1>2, <1>3, <1>4, <1>5, <1>6, <1>7, <1>8, <1>9, <1>10, <1>11, <1>12,
     <1>13, <1>14, <1>15, <1>16, <1>17, <1>18, <1>19, <1>20, <1>21, <1>22,
     <1>23, <1>24, <1>25, <1>26, <1>27, <1>28, <1>29, <1>30, <1>31, <1>32,
     <1>33, <1>34, <1>35
     DEF Next, TaskNext, CallStep, CallStart, HooksInit, IrqStep

(***************************************************************************)
(* The ready set: svc_handler removes a task only when it has no event.    *)
(***************************************************************************)
LEMMA ReadyOKStep == ASSUME TypeOK, ReadyOK, PriorityOK, [Next]_vars PROVE ReadyOK'
<1> USE Identifiers DEF TypeOK, ReadyOK, EventMakesReady, Posting, PostSteps,
    PriorityOK, vars, schedVars, mutexVars, callVars, postVars, lockVars,
    waitVars, bounds
<1>1. ASSUME task_start PROVE ReadyOK'
  BY <1>1 DEF task_start, Switch, ThreadMode
<1>2. ASSUME NEW t \in Tasks, set_event_svc(t) PROVE ReadyOK'
  BY <1>2 DEF set_event_svc, Executes, svc_handler, Switch, Descheduled, Goto,
     ThreadMode
<1>3. ASSUME NEW t \in Tasks, resched(t) PROVE ReadyOK'
  BY <1>3 DEF resched, Executes, svc_handler, Switch, Descheduled, Goto,
     ThreadMode
<1>4. ASSUME NEW t \in Tasks, arm(t) PROVE ReadyOK'
  BY <1>4 DEF arm, Executes, Goto
<1>5. ASSUME NEW t \in Tasks, check(t) PROVE ReadyOK'
  BY <1>5 DEF check, Executes, Goto
<1>6. ASSUME NEW t \in Tasks, desched(t) PROVE ReadyOK'
  BY <1>6 DEF desched, Executes, svc_handler, Switch, Descheduled, Goto
<1>7. ASSUME NEW t \in Tasks, cancel(t) PROVE ReadyOK'
  BY <1>7 DEF cancel, Executes, Goto
<1>8. ASSUME NEW t \in Tasks, clear_timer(t) PROVE ReadyOK'
  BY <1>8 DEF clear_timer, Executes, Goto
<1>9. ASSUME NEW t \in Tasks, wait_again(t) PROVE ReadyOK'
  BY <1>9 DEF wait_again, Executes, Goto
<1>10. ASSUME NEW t \in Tasks, NEW late \in BOOLEAN, wait_return(t, late)
       PROVE  ReadyOK'
  BY <1>10 DEF wait_return, Executes, Goto
<1>11. ASSUME NEW t \in Tasks, take_lock(t) PROVE ReadyOK'
  BY <1>11 DEF take_lock, Executes, Goto
<1>12. ASSUME NEW t \in Tasks, contend(t) PROVE ReadyOK'
  BY <1>12 DEF contend, Executes, StartWait, Goto
<1>13. ASSUME NEW t \in Tasks, clear_waiter(t) PROVE ReadyOK'
  BY <1>13 DEF clear_waiter, Executes, Goto
<1>14. ASSUME NEW t \in Tasks, notify_waiter(t) PROVE ReadyOK'
  BY <1>14 DEF notify_waiter, Executes, Goto
<1>15. ASSUME NEW t \in Tasks, unlock_svc(t) PROVE ReadyOK'
  BY <1>15 DEF unlock_svc, Executes, svc_handler, Switch, Descheduled, Goto
<1>16. ASSUME NEW t \in Tasks, unlock_done(t) PROVE ReadyOK'
  BY <1>16 DEF unlock_done, Executes, Goto
<1>17. ASSUME NEW t \in Tasks, NEW r \in Tasks \ {TASK_ID_IDLE},
             NEW e \in Events, task_set_event(t, r, e)
       PROVE  ReadyOK'
  BY <1>17 DEF task_set_event, MayCall, Executes, Goto
<1>18. ASSUME NEW t \in Tasks, NEW r \in Tasks \ {TASK_ID_IDLE},
             NEW e \in Events, task_set_event_masked(t, r, e)
       PROVE  ReadyOK'
  BY <1>18 DEF task_set_event_masked, MayCall, Executes, Goto
<1>19. ASSUME NEW t \in Tasks, main_loop_wait(t) PROVE ReadyOK'
  BY <1>19 DEF main_loop_wait, Executes, StartWait, Goto
<1>20. ASSUME NEW t \in Tasks, task_wait_event(t) PROVE ReadyOK'
  BY <1>20 DEF task_wait_event, MayCall, Executes, StartWait, Goto
<1>21. ASSUME NEW t \in Tasks, usleep(t) PROVE ReadyOK'
  BY <1>21 DEF usleep, MayCall, Executes, StartWait, Goto
<1>22. ASSUME NEW t \in Tasks, NEW S \in SUBSET Events,
             NEW withTimeout \in BOOLEAN, task_wait_event_mask(t, S,
             withTimeout)
       PROVE  ReadyOK'
  BY <1>22 DEF task_wait_event_mask, MayCall, Executes, StartWait, Goto
<1>23. ASSUME NEW t \in Tasks, NEW m \in Mutexes, mutex_lock(t, m)
       PROVE  ReadyOK'
  BY <1>23 DEF mutex_lock, MayCall, Executes, Goto
<1>24. ASSUME NEW t \in Tasks, NEW m \in Mutexes, mutex_unlock(t, m)
       PROVE  ReadyOK'
  BY <1>24 DEF mutex_unlock, Executes, Goto
<1>25. ASSUME NEW t \in Tasks, NEW u \in Tasks, task_enable_task(t, u)
       PROVE  ReadyOK'
  BY <1>25 DEF task_enable_task, MayCall, Executes, Goto
<1>26. ASSUME NEW t \in Tasks, NEW u \in Tasks, task_disable_task(t, u)
       PROVE  ReadyOK'
  BY <1>26 DEF task_disable_task, MayCall, Executes, Goto
<1>27. ASSUME task_enable_all_tasks PROVE ReadyOK'
  BY <1>27 DEF task_enable_all_tasks, Executes, Goto
<1>28. ASSUME all_ready PROVE ReadyOK'
  BY <1>28 DEF all_ready, Executes, Goto
<1>29. ASSUME NEW i \in Irqs, irq_enter(i) PROVE ReadyOK'
  BY <1>29 DEF irq_enter
<1>30. ASSUME NEW i \in Irqs, irq_no_resched(i) PROVE ReadyOK'
  BY <1>30 DEF irq_no_resched
<1>31. ASSUME NEW i \in Irqs, irq_resched(i) PROVE ReadyOK'
  BY <1>31 DEF irq_resched, svc_handler, Switch, Descheduled
<1>32. ASSUME NEW i \in Irqs, irq_exit(i) PROVE ReadyOK'
  BY <1>32 DEF irq_exit
<1>33. ASSUME NEW i \in Irqs, NEW r \in Tasks \ {TASK_ID_IDLE},
             NEW e \in Events, irq_set_event(i, r, e)
       PROVE  ReadyOK'
  BY <1>33 DEF irq_set_event, HandlerPosts
<1>34. ASSUME NEW r \in Tasks, expire_timer(r) PROVE ReadyOK'
  BY <1>34 DEF expire_timer, HandlerPosts
<1>35. CASE UNCHANGED vars
  BY <1>35
<1> HIDE Identifiers DEF TypeOK, ReadyOK, EventMakesReady, Posting, PostSteps,
    PriorityOK, vars, schedVars, mutexVars, callVars, postVars, lockVars,
    waitVars, bounds
<1> QED
  BY <1>1, <1>2, <1>3, <1>4, <1>5, <1>6, <1>7, <1>8, <1>9, <1>10, <1>11, <1>12,
     <1>13, <1>14, <1>15, <1>16, <1>17, <1>18, <1>19, <1>20, <1>21, <1>22,
     <1>23, <1>24, <1>25, <1>26, <1>27, <1>28, <1>29, <1>30, <1>31, <1>32,
     <1>33, <1>34, <1>35
     DEF Next, TaskNext, CallStep, CallStart, HooksInit, IrqStep

(***************************************************************************)
(* The choice of svc_handler stays right until a reschedule is owed.       *)
(***************************************************************************)
LEMMA PriorityOKStep == ASSUME TypeOK, PriorityOK, [Next]_vars PROVE PriorityOK'
<1> USE Identifiers DEF TypeOK, PriorityOK, HighestPriorityRuns, vars,
    schedVars, mutexVars, callVars, postVars, lockVars, waitVars, bounds
<1>1. ASSUME task_start PROVE PriorityOK'
  BY <1>1 DEF task_start, Switch, ThreadMode
<1>2. ASSUME NEW t \in Tasks, set_event_svc(t) PROVE PriorityOK'
  BY <1>2 DEF set_event_svc, Executes, svc_handler, Switch, Descheduled, Goto,
     ThreadMode
<1>3. ASSUME NEW t \in Tasks, resched(t) PROVE PriorityOK'
  BY <1>3 DEF resched, Executes, svc_handler, Switch, Descheduled, Goto,
     ThreadMode
<1>4. ASSUME NEW t \in Tasks, arm(t) PROVE PriorityOK'
  BY <1>4 DEF arm, Executes, Goto
<1>5. ASSUME NEW t \in Tasks, check(t) PROVE PriorityOK'
  BY <1>5 DEF check, Executes, Goto
<1>6. ASSUME NEW t \in Tasks, desched(t) PROVE PriorityOK'
  BY <1>6 DEF desched, Executes, svc_handler, Switch, Descheduled, Goto
<1>7. ASSUME NEW t \in Tasks, cancel(t) PROVE PriorityOK'
  BY <1>7 DEF cancel, Executes, Goto
<1>8. ASSUME NEW t \in Tasks, clear_timer(t) PROVE PriorityOK'
  BY <1>8 DEF clear_timer, Executes, Goto
<1>9. ASSUME NEW t \in Tasks, wait_again(t) PROVE PriorityOK'
  BY <1>9 DEF wait_again, Executes, Goto
<1>10. ASSUME NEW t \in Tasks, NEW late \in BOOLEAN, wait_return(t, late)
       PROVE  PriorityOK'
  BY <1>10 DEF wait_return, Executes, Goto
<1>11. ASSUME NEW t \in Tasks, take_lock(t) PROVE PriorityOK'
  BY <1>11 DEF take_lock, Executes, Goto
<1>12. ASSUME NEW t \in Tasks, contend(t) PROVE PriorityOK'
  BY <1>12 DEF contend, Executes, StartWait, Goto
<1>13. ASSUME NEW t \in Tasks, clear_waiter(t) PROVE PriorityOK'
  BY <1>13 DEF clear_waiter, Executes, Goto
<1>14. ASSUME NEW t \in Tasks, notify_waiter(t) PROVE PriorityOK'
  BY <1>14 DEF notify_waiter, Executes, Goto
<1>15. ASSUME NEW t \in Tasks, unlock_svc(t) PROVE PriorityOK'
  BY <1>15 DEF unlock_svc, Executes, svc_handler, Switch, Descheduled, Goto
<1>16. ASSUME NEW t \in Tasks, unlock_done(t) PROVE PriorityOK'
  BY <1>16 DEF unlock_done, Executes, Goto
<1>17. ASSUME NEW t \in Tasks, NEW r \in Tasks \ {TASK_ID_IDLE},
             NEW e \in Events, task_set_event(t, r, e)
       PROVE  PriorityOK'
  BY <1>17 DEF task_set_event, MayCall, Executes, Goto
<1>18. ASSUME NEW t \in Tasks, NEW r \in Tasks \ {TASK_ID_IDLE},
             NEW e \in Events, task_set_event_masked(t, r, e)
       PROVE  PriorityOK'
  BY <1>18 DEF task_set_event_masked, MayCall, Executes, Goto
<1>19. ASSUME NEW t \in Tasks, main_loop_wait(t) PROVE PriorityOK'
  BY <1>19 DEF main_loop_wait, Executes, StartWait, Goto
<1>20. ASSUME NEW t \in Tasks, task_wait_event(t) PROVE PriorityOK'
  BY <1>20 DEF task_wait_event, MayCall, Executes, StartWait, Goto
<1>21. ASSUME NEW t \in Tasks, usleep(t) PROVE PriorityOK'
  BY <1>21 DEF usleep, MayCall, Executes, StartWait, Goto
<1>22. ASSUME NEW t \in Tasks, NEW S \in SUBSET Events,
             NEW withTimeout \in BOOLEAN, task_wait_event_mask(t, S,
             withTimeout)
       PROVE  PriorityOK'
  BY <1>22 DEF task_wait_event_mask, MayCall, Executes, StartWait, Goto
<1>23. ASSUME NEW t \in Tasks, NEW m \in Mutexes, mutex_lock(t, m)
       PROVE  PriorityOK'
  BY <1>23 DEF mutex_lock, MayCall, Executes, Goto
<1>24. ASSUME NEW t \in Tasks, NEW m \in Mutexes, mutex_unlock(t, m)
       PROVE  PriorityOK'
  BY <1>24 DEF mutex_unlock, Executes, Goto
<1>25. ASSUME NEW t \in Tasks, NEW u \in Tasks, task_enable_task(t, u)
       PROVE  PriorityOK'
  BY <1>25 DEF task_enable_task, MayCall, Executes, Goto
<1>26. ASSUME NEW t \in Tasks, NEW u \in Tasks, task_disable_task(t, u)
       PROVE  PriorityOK'
  BY <1>26 DEF task_disable_task, MayCall, Executes, Goto
<1>27. ASSUME task_enable_all_tasks PROVE PriorityOK'
  BY <1>27 DEF task_enable_all_tasks, Executes, Goto
<1>28. ASSUME all_ready PROVE PriorityOK'
  BY <1>28 DEF all_ready, Executes, Goto
<1>29. ASSUME NEW i \in Irqs, irq_enter(i) PROVE PriorityOK'
  BY <1>29 DEF irq_enter
<1>30. ASSUME NEW i \in Irqs, irq_no_resched(i) PROVE PriorityOK'
  BY <1>30 DEF irq_no_resched
<1>31. ASSUME NEW i \in Irqs, irq_resched(i) PROVE PriorityOK'
  BY <1>31 DEF irq_resched, svc_handler, Switch, Descheduled
<1>32. ASSUME NEW i \in Irqs, irq_exit(i) PROVE PriorityOK'
  BY <1>32 DEF irq_exit
<1>33. ASSUME NEW i \in Irqs, NEW r \in Tasks \ {TASK_ID_IDLE},
             NEW e \in Events, irq_set_event(i, r, e)
       PROVE  PriorityOK'
  BY <1>33 DEF irq_set_event, HandlerPosts
<1>34. ASSUME NEW r \in Tasks, expire_timer(r) PROVE PriorityOK'
  BY <1>34 DEF expire_timer, HandlerPosts
<1>35. CASE UNCHANGED vars
  BY <1>35
<1> HIDE Identifiers DEF TypeOK, PriorityOK, HighestPriorityRuns, vars,
    schedVars, mutexVars, callVars, postVars, lockVars, waitVars, bounds
<1> QED
  BY <1>1, <1>2, <1>3, <1>4, <1>5, <1>6, <1>7, <1>8, <1>9, <1>10, <1>11, <1>12,
     <1>13, <1>14, <1>15, <1>16, <1>17, <1>18, <1>19, <1>20, <1>21, <1>22,
     <1>23, <1>24, <1>25, <1>26, <1>27, <1>28, <1>29, <1>30, <1>31, <1>32,
     <1>33, <1>34, <1>35
     DEF Next, TaskNext, CallStep, CallStart, HooksInit, IrqStep

(***************************************************************************)
(* Mutex wake-ups.  LockOK shows that the one that frees a mutex is not    *)
(* the one that waits for it; a waiter is in the snapshot because it never *)
(* leaves the waiters field.                                               *)
(***************************************************************************)
LEMMA WakeOKStep == ASSUME TypeOK, CallOK, LockOK, WakeOK, [Next]_vars PROVE WakeOK'
<1> USE Identifiers DEF TypeOK, CallOK, LockOK, Has, WakeOK, Notifying,
    LockSteps, MutexSteps, vars, schedVars, mutexVars, callVars, postVars,
    lockVars, waitVars, bounds
<1>1. ASSUME task_start PROVE WakeOK'
  BY <1>1 DEF task_start, Switch, ThreadMode
<1>2. ASSUME NEW t \in Tasks, set_event_svc(t) PROVE WakeOK'
  BY <1>2 DEF set_event_svc, Executes, svc_handler, Switch, Descheduled, Goto,
     ThreadMode
<1>3. ASSUME NEW t \in Tasks, resched(t) PROVE WakeOK'
  BY <1>3 DEF resched, Executes, svc_handler, Switch, Descheduled, Goto,
     ThreadMode
<1>4. ASSUME NEW t \in Tasks, arm(t) PROVE WakeOK'
  BY <1>4 DEF arm, Executes, Goto
<1>5. ASSUME NEW t \in Tasks, check(t) PROVE WakeOK'
  BY <1>5 DEF check, Executes, Goto
<1>6. ASSUME NEW t \in Tasks, desched(t) PROVE WakeOK'
  BY <1>6 DEF desched, Executes, svc_handler, Switch, Descheduled, Goto
<1>7. ASSUME NEW t \in Tasks, cancel(t) PROVE WakeOK'
  BY <1>7 DEF cancel, Executes, Goto
<1>8. ASSUME NEW t \in Tasks, clear_timer(t) PROVE WakeOK'
  BY <1>8 DEF clear_timer, Executes, Goto
<1>9. ASSUME NEW t \in Tasks, wait_again(t) PROVE WakeOK'
  BY <1>9 DEF wait_again, Executes, Goto
<1>10. ASSUME NEW t \in Tasks, NEW late \in BOOLEAN, wait_return(t, late)
       PROVE  WakeOK'
  BY <1>10 DEF wait_return, Executes, Goto
<1>11. ASSUME NEW t \in Tasks, take_lock(t) PROVE WakeOK'
  BY <1>11 DEF take_lock, Executes, Goto
<1>12. ASSUME NEW t \in Tasks, contend(t) PROVE WakeOK'
  BY <1>12 DEF contend, Executes, StartWait, Goto
<1>13. ASSUME NEW t \in Tasks, clear_waiter(t) PROVE WakeOK'
  BY <1>13 DEF clear_waiter, Executes, Goto
<1>14. ASSUME NEW t \in Tasks, notify_waiter(t) PROVE WakeOK'
  BY <1>14 DEF notify_waiter, Executes, Goto
<1>15. ASSUME NEW t \in Tasks, unlock_svc(t) PROVE WakeOK'
  BY <1>15 DEF unlock_svc, Executes, svc_handler, Switch, Descheduled, Goto
<1>16. ASSUME NEW t \in Tasks, unlock_done(t) PROVE WakeOK'
  BY <1>16 DEF unlock_done, Executes, Goto
<1>17. ASSUME NEW t \in Tasks, NEW r \in Tasks \ {TASK_ID_IDLE},
             NEW e \in Events, task_set_event(t, r, e)
       PROVE  WakeOK'
  BY <1>17 DEF task_set_event, MayCall, Executes, Goto
<1>18. ASSUME NEW t \in Tasks, NEW r \in Tasks \ {TASK_ID_IDLE},
             NEW e \in Events, task_set_event_masked(t, r, e)
       PROVE  WakeOK'
  BY <1>18 DEF task_set_event_masked, MayCall, Executes, Goto
<1>19. ASSUME NEW t \in Tasks, main_loop_wait(t) PROVE WakeOK'
  BY <1>19 DEF main_loop_wait, Executes, StartWait, Goto
<1>20. ASSUME NEW t \in Tasks, task_wait_event(t) PROVE WakeOK'
  BY <1>20 DEF task_wait_event, MayCall, Executes, StartWait, Goto
<1>21. ASSUME NEW t \in Tasks, usleep(t) PROVE WakeOK'
  BY <1>21 DEF usleep, MayCall, Executes, StartWait, Goto
<1>22. ASSUME NEW t \in Tasks, NEW S \in SUBSET Events,
             NEW withTimeout \in BOOLEAN, task_wait_event_mask(t, S,
             withTimeout)
       PROVE  WakeOK'
  BY <1>22 DEF task_wait_event_mask, MayCall, Executes, StartWait, Goto
<1>23. ASSUME NEW t \in Tasks, NEW m \in Mutexes, mutex_lock(t, m)
       PROVE  WakeOK'
  BY <1>23 DEF mutex_lock, MayCall, Executes, Goto
<1>24. ASSUME NEW t \in Tasks, NEW m \in Mutexes, mutex_unlock(t, m)
       PROVE  WakeOK'
  BY <1>24 DEF mutex_unlock, Executes, Goto
<1>25. ASSUME NEW t \in Tasks, NEW u \in Tasks, task_enable_task(t, u)
       PROVE  WakeOK'
  BY <1>25 DEF task_enable_task, MayCall, Executes, Goto
<1>26. ASSUME NEW t \in Tasks, NEW u \in Tasks, task_disable_task(t, u)
       PROVE  WakeOK'
  BY <1>26 DEF task_disable_task, MayCall, Executes, Goto
<1>27. ASSUME task_enable_all_tasks PROVE WakeOK'
  BY <1>27 DEF task_enable_all_tasks, Executes, Goto
<1>28. ASSUME all_ready PROVE WakeOK'
  BY <1>28 DEF all_ready, Executes, Goto
<1>29. ASSUME NEW i \in Irqs, irq_enter(i) PROVE WakeOK'
  BY <1>29 DEF irq_enter
<1>30. ASSUME NEW i \in Irqs, irq_no_resched(i) PROVE WakeOK'
  BY <1>30 DEF irq_no_resched
<1>31. ASSUME NEW i \in Irqs, irq_resched(i) PROVE WakeOK'
  BY <1>31 DEF irq_resched, svc_handler, Switch, Descheduled
<1>32. ASSUME NEW i \in Irqs, irq_exit(i) PROVE WakeOK'
  BY <1>32 DEF irq_exit
<1>33. ASSUME NEW i \in Irqs, NEW r \in Tasks \ {TASK_ID_IDLE},
             NEW e \in Events, irq_set_event(i, r, e)
       PROVE  WakeOK'
  BY <1>33 DEF irq_set_event, HandlerPosts
<1>34. ASSUME NEW r \in Tasks, expire_timer(r) PROVE WakeOK'
  BY <1>34 DEF expire_timer, HandlerPosts
<1>35. CASE UNCHANGED vars
  BY <1>35
<1> HIDE Identifiers DEF TypeOK, CallOK, LockOK, Has, WakeOK, Notifying,
    LockSteps, MutexSteps, vars, schedVars, mutexVars, callVars, postVars,
    lockVars, waitVars, bounds
<1> QED
  BY <1>1, <1>2, <1>3, <1>4, <1>5, <1>6, <1>7, <1>8, <1>9, <1>10, <1>11, <1>12,
     <1>13, <1>14, <1>15, <1>16, <1>17, <1>18, <1>19, <1>20, <1>21, <1>22,
     <1>23, <1>24, <1>25, <1>26, <1>27, <1>28, <1>29, <1>30, <1>31, <1>32,
     <1>33, <1>34, <1>35
     DEF Next, TaskNext, CallStep, CallStart, HooksInit, IrqStep

-----------------------------------------------------------------------------
(***************************************************************************)
(* IInv is an invariant, and so is everything it contains.                 *)
(***************************************************************************)
THEOREM InductiveInvariant == Spec => []IInv
<1>1. Init => IInv
  BY InitIInv
<1>2. IInv /\ [Next]_vars => IInv'
  <2> SUFFICES ASSUME IInv, [Next]_vars PROVE IInv'
    OBVIOUS
  <2>1. TypeOK' /\ CallOK'
    BY TypeStep, CallOKStep DEF IInv
  <2>2. LockOK' /\ WakeOK'
    BY LockOKStep, WakeOKStep DEF IInv
  <2>3. ReadyOK' /\ PriorityOK'
    BY ReadyOKStep, PriorityOKStep DEF IInv
  <2> QED
    BY <2>1, <2>2, <2>3 DEF IInv
<1> QED
  BY <1>1, <1>2, PTL DEF Spec

\* Every variable keeps its type.
THEOREM TypeCorrect == Spec => []TypeOK
<1>1. IInv => TypeOK
  BY DEF IInv
<1> QED
  BY <1>1, InductiveInvariant, PTL

\* mutex_lock and mutex_unlock keep a mutex to one task, for any number of
\* tasks and mutexes and under any preemption.
THEOREM MutexSafe == Spec => []MutualExclusion
<1>1. IInv => MutualExclusion
  BY DEF IInv, LockOK
<1> QED
  BY <1>1, InductiveInvariant, PTL

\* A task that sleeps in mutex_lock on a free mutex is about to be woken.
THEOREM NoMutexWakeupLost == Spec => []MutexWakeupComing
<1>1. IInv => MutexWakeupComing
  <2> SUFFICES ASSUME IInv, NEW t \in Tasks, Asleep(t), want[t] \notin locked
               PROVE  MUTEX \in events[t] \/ \E u \in Tasks : Notifying(u, t)
    BY DEF MutexWakeupComing
  <2>1. pc[t] \in MutexSteps /\ want[t] # NoMutex
    BY DEF Asleep, MutexSteps
  <2> QED
    BY <2>1 DEF IInv, WakeOK, Asleep
<1> QED
  BY <1>1, InductiveInvariant, PTL

\* A task with an event is ready, or is about to be made ready.
THEOREM NoEventLost == Spec => []EventMakesReady
<1>1. IInv => EventMakesReady
  BY DEF IInv, ReadyOK
<1> QED
  BY <1>1, InductiveInvariant, PTL

\* Strict priority scheduling, between two svc_handlers.
THEOREM PriorityScheduling == Spec => []HighestPriorityRuns
<1>1. IInv => HighestPriorityRuns
  BY DEF IInv, PriorityOK
<1> QED
  BY <1>1, InductiveInvariant, PTL

\* timer_arm never returns EC_ERROR_BUSY to __wait_evt, and no TIMER event
\* outlives the wait it was armed for.
THEOREM TimerConfined == Spec => []TimerStaysInWait
<1>1. IInv => TimerStaysInWait
  BY DEF IInv, CallOK, TimerStaysInWait
<1> QED
  BY <1>1, InductiveInvariant, PTL

-----------------------------------------------------------------------------
(***************************************************************************)
(* EcTask implements TaskApi: one lemma per step of TaskApi, then the      *)
(* other steps, which TaskApi does not see.                                *)
(***************************************************************************)

\* The steps of EcTask that are not steps of TaskApi.
Silent == UNCHANGED <<apiPending, apiCollected, apiReturned, apiHolders>>

\* Whoever sets an event and touches nothing else of TaskApi posts it.
LEMMA PostStep ==
  ASSUME TypeOK, NEW r \in Tasks, NEW e \in Events,
         events' = [events EXCEPT ![r] = @ \union {e}],
         UNCHANGED <<apiCollected, apiReturned, apiHolders>>
  PROVE  Api!Post(r, e)
<1>1. apiPending' = [apiPending EXCEPT ![r] = @ \union {e}]
  <2>1. ASSUME NEW u \in Tasks
        PROVE  events'[u] \intersect Events =
                 IF u = r THEN (events[u] \intersect Events) \union {e}
                          ELSE events[u] \intersect Events
    BY DEF TypeOK
  <2> QED
    BY <2>1 DEF apiPending
<1> QED
  BY <1>1 DEF Api!Post

\* A task that enters a wait from outside of one begins a call.
LEMMA BeginStep ==
  ASSUME TypeOK, NEW t \in Tasks, NEW S, NEW withTimeout \in BOOLEAN,
         pc[t] \in {"run", "try_lock"}, StartWait(t, S, withTimeout),
         UNCHANGED <<want, held>>
  PROVE  Api!Begin(t)
<1> USE DEF TypeOK, StartWait, Goto, Waiting, WaitSteps, TimedSteps, Has
<1>1. apiPending' = apiPending
  BY DEF apiPending
<1>2. apiCollected[t] = {} /\ apiCollected' = apiCollected
  BY DEF apiCollected
<1>3. apiReturned' = [apiReturned EXCEPT ![t] = {}]
  BY DEF apiReturned
<1>4. apiHolders' = apiHolders
  BY DEF apiHolders
<1> QED
  BY <1>1, <1>2, <1>3, <1>4 DEF Api!Begin

\* atomic_clear collects everything that is pending.
LEMMA CollectStep ==
  ASSUME TypeOK, NEW t \in Tasks, check(t)
  PROVE  Api!Collect(t)
<1> USE DEF TypeOK, check, Executes, Goto, Waiting, WaitSteps, TimedSteps, Has,
            schedVars, mutexVars, callVars, postVars, lockVars
<1>1. apiPending' = [apiPending EXCEPT ![t] = {}]
  BY DEF apiPending
<1>2. apiCollected' = [apiCollected EXCEPT ![t] = @ \union apiPending[t]]
  BY DEF apiPending, apiCollected
<1>3. apiReturned[t] = {} /\ apiReturned' = apiReturned
  BY DEF apiReturned
<1>4. apiHolders' = apiHolders
  BY DEF apiHolders
<1> QED
  BY <1>1, <1>2, <1>3, <1>4 DEF Api!Collect

\* The end of a wait returns what meets the mask and puts the rest back.
LEMMA ReturnStep ==
  ASSUME TypeOK, NEW t \in Tasks, NEW late \in BOOLEAN, wait_return(t, late)
  PROVE  Api!Return(t, evt[t] \intersect mask[t] \intersect Events)
<1> DEFINE S == evt[t] \intersect mask[t] \intersect Events
<1> USE Identifiers
    DEF TypeOK, wait_return, Executes, Goto, Waiting, WaitSteps, TimedSteps, Has,
        schedVars, mutexVars, callVars, postVars, lockVars
<1>1. S \subseteq apiCollected[t]
  BY DEF apiCollected
<1>2. apiReturned[t] = {} /\ apiReturned' = [apiReturned EXCEPT ![t] = S]
  <2>1. pc'[t] \notin WaitSteps
    OBVIOUS
  <2>2. evt'[t] \intersect Events = S
    <3>1. evt'[t] = (evt[t] \intersect mask[t])
                       \union (IF late THEN {TIMER} ELSE {})
      OBVIOUS
    <3> QED
      BY ONLY <3>1, Identifiers
  <2>3. apiReturned[t] = {} /\ apiReturned'[t] = S
    BY <2>1, <2>2 DEF apiReturned
  <2>4. ASSUME NEW u \in Tasks \ {t} PROVE apiReturned'[u] = apiReturned[u]
    BY DEF apiReturned
  <2> QED
    BY ONLY <2>3, <2>4, t \in Tasks DEF apiReturned
<1>3. apiPending' = [apiPending EXCEPT ![t] = @ \union (apiCollected[t] \ S)]
  BY DEF apiPending, apiCollected
<1>4. apiCollected' = [apiCollected EXCEPT ![t] = {}]
  BY DEF apiCollected
<1>5. apiHolders' = apiHolders
  BY DEF apiHolders
<1> QED
  BY <1>1, <1>2, <1>3, <1>4, <1>5 DEF Api!Return

\* The store to the lock field acquires.
LEMMA AcquireStep ==
  ASSUME TypeOK, CallOK, LockOK, NEW t \in Tasks, take_lock(t)
  PROVE  want[t] \in Mutexes /\ Api!Acquire(t, want[t])
<1> USE DEF TypeOK, CallOK, take_lock, Executes, Goto, Waiting, WaitSteps,
            TimedSteps, LockSteps, Has, schedVars, callVars, postVars, lockVars, waitVars
<1>1. want[t] \in Mutexes
  OBVIOUS
<1>2. UNCHANGED <<apiPending, apiCollected, apiReturned>>
  BY DEF apiPending, apiCollected, apiReturned
<1>3. \A u \in Tasks : ~Has(u, want[t])
  BY <1>1 DEF LockOK
<1>4. apiHolders[want[t]] = {}
  BY <1>1, <1>3 DEF apiHolders
<1>5. apiHolders' = [apiHolders EXCEPT ![want[t]] = {t}]
  <2>1. ASSUME NEW n \in Mutexes
        PROVE  apiHolders'[n] = IF n = want[t] THEN {t} ELSE apiHolders[n]
    <3>1. \A u \in Tasks : Has(u, n)' <=> Has(u, n) \/ (u = t /\ n = want[t])
      OBVIOUS
    <3>2. apiHolders'[n] = {u \in Tasks : Has(u, n) \/ (u = t /\ n = want[t])}
      BY <3>1 DEF apiHolders
    <3>3. apiHolders[n] = {u \in Tasks : Has(u, n)}
      BY DEF apiHolders
    <3> HIDE DEF Has
    <3> QED
      BY <1>3, <3>2, <3>3
  <2> QED
    BY ONLY <2>1 DEF apiHolders
<1> QED
  BY <1>1, <1>2, <1>4, <1>5 DEF Api!Acquire

\* The store that clears it releases.
LEMMA ReleaseStep ==
  ASSUME TypeOK, LockOK, NEW t \in Tasks, NEW m \in Mutexes, mutex_unlock(t, m)
  PROVE  Api!Release(t, m)
<1> USE DEF TypeOK, mutex_unlock, Executes, Goto, Waiting, WaitSteps, TimedSteps,
            Has, schedVars, waitVars, lockVars
<1>1. UNCHANGED <<apiPending, apiCollected, apiReturned>>
  BY DEF apiPending, apiCollected, apiReturned
<1>2. \A u \in Tasks : Has(u, m) <=> u = t
  BY DEF LockOK, MutualExclusion
<1>3. apiHolders[m] = {t}
  BY <1>2 DEF apiHolders
<1>4. apiHolders' = [apiHolders EXCEPT ![m] = {}]
  <2>1. ASSUME NEW n \in Mutexes
        PROVE  apiHolders'[n] = IF n = m THEN {} ELSE apiHolders[n]
    <3>1. \A u \in Tasks : Has(u, n)' <=> Has(u, n) /\ n # m
      BY <1>2
    <3> QED
      BY <3>1 DEF apiHolders
  <2> QED
    BY ONLY <2>1 DEF apiHolders
<1> QED
  BY <1>1, <1>3, <1>4 DEF Api!Release

-----------------------------------------------------------------------------
\* Every step of the runtime is a step of TaskApi or a stutter.
LEMMA RefinementStep ==
  ASSUME TypeOK, CallOK, LockOK, [Next]_vars PROVE [Api!Next]_(Api!apiVars)
<1> USE Identifiers DEF TypeOK, CallOK, Waiting, WaitSteps, TimedSteps,
    LockSteps, MutexSteps, Has, apiPending, apiCollected, apiReturned,
    apiHolders, vars, schedVars, mutexVars, callVars, postVars, lockVars,
    waitVars, bounds, Silent
<1>1. ASSUME task_start PROVE Silent
  BY <1>1 DEF task_start, Switch, ThreadMode
<1>2. ASSUME NEW t \in Tasks, set_event_svc(t) PROVE Silent
  BY <1>2 DEF set_event_svc, Executes, svc_handler, Switch, Descheduled, Goto,
     ThreadMode
<1>3. ASSUME NEW t \in Tasks, resched(t) PROVE Silent
  BY <1>3 DEF resched, Executes, svc_handler, Switch, Descheduled, Goto,
     ThreadMode
<1>4. ASSUME NEW t \in Tasks, arm(t) PROVE Silent
  BY <1>4 DEF arm, Executes, Goto
<1>5. ASSUME NEW t \in Tasks, check(t) PROVE Api!Collect(t)
  BY <1>5, CollectStep
<1>6. ASSUME NEW t \in Tasks, desched(t) PROVE Silent
  BY <1>6 DEF desched, Executes, svc_handler, Switch, Descheduled, Goto
<1>7. ASSUME NEW t \in Tasks, cancel(t) PROVE Silent
  BY <1>7 DEF cancel, Executes, Goto
<1>8. ASSUME NEW t \in Tasks, clear_timer(t) PROVE Silent
  BY <1>8 DEF clear_timer, Executes, Goto
<1>9. ASSUME NEW t \in Tasks, wait_again(t) PROVE Silent
  BY <1>9 DEF wait_again, Executes, Goto
<1>10. ASSUME NEW t \in Tasks, NEW late \in BOOLEAN, wait_return(t, late)
       PROVE  Api!Return(t, evt[t] \intersect mask[t] \intersect Events)
  BY <1>10, ReturnStep
<1>11. ASSUME NEW t \in Tasks, take_lock(t)
       PROVE  want[t] \in Mutexes /\ Api!Acquire(t, want[t])
  BY <1>11, AcquireStep
<1>12. ASSUME NEW t \in Tasks, contend(t) PROVE Api!Begin(t)
  BY <1>12, BeginStep DEF contend, Executes
<1>13. ASSUME NEW t \in Tasks, clear_waiter(t) PROVE Silent
  BY <1>13 DEF clear_waiter, Executes, Goto
<1>14. ASSUME NEW t \in Tasks, notify_waiter(t) PROVE Silent
  BY <1>14 DEF notify_waiter, Executes, Goto
<1>15. ASSUME NEW t \in Tasks, unlock_svc(t) PROVE Silent
  BY <1>15 DEF unlock_svc, Executes, svc_handler, Switch, Descheduled, Goto
<1>16. ASSUME NEW t \in Tasks, unlock_done(t) PROVE Silent
  BY <1>16 DEF unlock_done, Executes, Goto
<1>17. ASSUME NEW t \in Tasks, NEW r \in Tasks \ {TASK_ID_IDLE},
             NEW e \in Events, task_set_event(t, r, e)
       PROVE  Api!Post(r, e)
  <2>1. UNCHANGED <<apiCollected, apiReturned, apiHolders>>
    BY <1>17 DEF task_set_event, MayCall, Executes, Goto
  <2>2. events' = [events EXCEPT ![r] = @ \union {e}]
    BY <1>17 DEF task_set_event
  <2> QED
    BY <2>1, <2>2, PostStep
<1>18. ASSUME NEW t \in Tasks, NEW r \in Tasks \ {TASK_ID_IDLE},
             NEW e \in Events, task_set_event_masked(t, r, e)
       PROVE  Api!Post(r, e)
  <2>1. UNCHANGED <<apiCollected, apiReturned, apiHolders>>
    BY <1>18 DEF task_set_event_masked, MayCall, Executes, Goto
  <2>2. events' = [events EXCEPT ![r] = @ \union {e}]
    BY <1>18 DEF task_set_event_masked
  <2> QED
    BY <2>1, <2>2, PostStep
<1>19. ASSUME NEW t \in Tasks, main_loop_wait(t) PROVE Api!Begin(t)
  BY <1>19, BeginStep DEF main_loop_wait, Executes
<1>20. ASSUME NEW t \in Tasks, task_wait_event(t) PROVE Api!Begin(t)
  BY <1>20, BeginStep DEF task_wait_event, MayCall, Executes
<1>21. ASSUME NEW t \in Tasks, usleep(t) PROVE Api!Begin(t)
  BY <1>21, BeginStep DEF usleep, MayCall, Executes
<1>22. ASSUME NEW t \in Tasks, NEW S \in SUBSET Events,
             NEW withTimeout \in BOOLEAN, task_wait_event_mask(t, S,
             withTimeout)
       PROVE  Api!Begin(t)
  BY <1>22, BeginStep DEF task_wait_event_mask, MayCall, Executes
<1>23. ASSUME NEW t \in Tasks, NEW m \in Mutexes, mutex_lock(t, m) PROVE Silent
  BY <1>23 DEF mutex_lock, MayCall, Executes, Goto
<1>24. ASSUME NEW t \in Tasks, NEW m \in Mutexes, mutex_unlock(t, m)
       PROVE  Api!Release(t, m)
  BY <1>24, ReleaseStep
<1>25. ASSUME NEW t \in Tasks, NEW u \in Tasks, task_enable_task(t, u)
       PROVE  Silent
  BY <1>25 DEF task_enable_task, MayCall, Executes, Goto
<1>26. ASSUME NEW t \in Tasks, NEW u \in Tasks, task_disable_task(t, u)
       PROVE  Silent
  BY <1>26 DEF task_disable_task, MayCall, Executes, Goto
<1>27. ASSUME task_enable_all_tasks PROVE Silent
  BY <1>27 DEF task_enable_all_tasks, Executes, Goto
<1>28. ASSUME all_ready PROVE Silent
  BY <1>28 DEF all_ready, Executes, Goto
<1>29. ASSUME NEW i \in Irqs, irq_enter(i) PROVE Silent
  BY <1>29 DEF irq_enter
<1>30. ASSUME NEW i \in Irqs, irq_no_resched(i) PROVE Silent
  BY <1>30 DEF irq_no_resched
<1>31. ASSUME NEW i \in Irqs, irq_resched(i) PROVE Silent
  BY <1>31 DEF irq_resched, svc_handler, Switch, Descheduled
<1>32. ASSUME NEW i \in Irqs, irq_exit(i) PROVE Silent
  BY <1>32 DEF irq_exit
<1>33. ASSUME NEW i \in Irqs, NEW r \in Tasks \ {TASK_ID_IDLE},
             NEW e \in Events, irq_set_event(i, r, e)
       PROVE  Api!Post(r, e)
  <2>1. UNCHANGED <<apiCollected, apiReturned, apiHolders>>
    BY <1>33 DEF irq_set_event, HandlerPosts
  <2>2. events' = [events EXCEPT ![r] = @ \union {e}]
    BY <1>33 DEF irq_set_event, HandlerPosts
  <2> QED
    BY <2>1, <2>2, PostStep
<1>34. ASSUME NEW r \in Tasks, expire_timer(r) PROVE Silent
  BY <1>34 DEF expire_timer, HandlerPosts
<1>35. ASSUME UNCHANGED vars PROVE Silent
  BY <1>35
<1>36. ASSUME Silent PROVE UNCHANGED Api!apiVars
  BY <1>36 DEF Api!apiVars
<1> HIDE Identifiers DEF TypeOK, CallOK, Waiting, WaitSteps, TimedSteps,
    LockSteps, MutexSteps, Has, apiPending, apiCollected, apiReturned,
    apiHolders, vars, schedVars, mutexVars, callVars, postVars, lockVars,
    waitVars, bounds, Silent
<1> QED
  BY <1>1, <1>2, <1>3, <1>4, <1>5, <1>6, <1>7, <1>8, <1>9, <1>10, <1>11, <1>12,
     <1>13, <1>14, <1>15, <1>16, <1>17, <1>18, <1>19, <1>20, <1>21, <1>22,
     <1>23, <1>24, <1>25, <1>26, <1>27, <1>28, <1>29, <1>30, <1>31, <1>32,
     <1>33, <1>34, <1>35, <1>36
     DEF Next, TaskNext, CallStep, CallStart, HooksInit, IrqStep, Api!Next

\* The runtime implements TaskApi: events are kept and returned once, mutexes
\* are exclusive, for every behaviour.
THEOREM Refinement == Spec => ImplementsApi
<1>1. Init => Api!Init
  BY DEF Init, Api!Init, apiPending, apiCollected, apiReturned, apiHolders,
         Waiting, WaitSteps, TimedSteps, Has
<1>2. IInv /\ [Next]_vars => [Api!Next]_(Api!apiVars)
  BY RefinementStep DEF IInv
<1> QED
  BY <1>1, <1>2, InductiveInvariant, PTL DEF Spec, ImplementsApi, Api!Spec
=============================================================================
