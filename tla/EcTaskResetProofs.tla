------------------------- MODULE EcTaskResetProofs -------------------------
(***************************************************************************)
(* Theorems of EcTaskReset, for every number of tasks and calls: a reset   *)
(* lock has one holder, and EcTaskReset does what TaskResetApi promises.   *)
(* Tasks that call task_reset are assumed not to be reset themselves.      *)
(***************************************************************************)
EXTENDS EcTaskReset, FiniteSetTheorems, TLAPS

CallersNotReset == Callers \intersect Resettable = {}

(***************************************************************************)
(* The inductive invariant.                                                *)
(***************************************************************************)
\* A call is about a task.
CallOK ==
  /\ \A c \in Callers : call[c].step # "none" => call[c].id \in Resettable
  /\ hooks.step = "reset" => hooks.id \in Resettable

\* HOOKS is going to reset the task, or is about to.
Taken(r) == hooks.step = "reset" /\ hooks.id = r
Deferred(r) == r \in deferred_reset_task_ids \/ Taken(r)
Own == {"cleanup", "notify", "disabled", "request", "call"}

\* Who holds a lock, it does so alone; a task that has not started yet is only
\* overtaken by callers of a higher priority.
LockOK == \A r \in Resettable :
  /\ \A c \in Resetting(r) : (pc[r] = "start" => c > r) /\ \A d \in Resetting(r) : d = c
  /\ Resetting(r) # {} => lock[r]
  /\ pc[r] \in Own \/ Deferred(r) => lock[r] /\ Resetting(r) = {}
  /\ Deferred(r) => pc[r] \in {"call", "sleep"}
  /\ ~(r \in deferred_reset_task_ids /\ Taken(r))
  /\ pc[r] = "sleep" => lock[r]

\* A caller among the waiters waits and has not been told; who is being told
\* or has been told still waits.
WaitOK == \A c \in Callers :
  /\ \A r \in Resettable : c \in waiters[r] =>
       /\ call[c] = [step |-> "wait", id |-> r] /\ ~events[c]
       /\ \A q \in Resettable : notify_id[q] # c
  /\ \A r \in Resettable : notify_id[r] = c =>
       /\ pc[r] = "notify" /\ call[c].step = "wait" /\ ~events[c]
       /\ \A q \in Resettable : notify_id[q] = c => q = r
  /\ events[c] => call[c].step = "wait"

IInv == Types /\ CallOK /\ LockOK /\ WaitOK

-----------------------------------------------------------------------------
\* The first state satisfies the inductive invariant.
LEMMA InitIInv == Init => IInv
<1> SUFFICES ASSUME Init PROVE IInv
  OBVIOUS
<1> USE EcTaskResetAssumption DEF Init, NoCall, NoTask
<1>1. Types
  <2>1. /\ lock \in [Resettable -> BOOLEAN] /\ waiters \in [Resettable -> SUBSET Waiters]
        /\ events \in [Callers -> BOOLEAN]
    OBVIOUS
  <2>2. /\ call \in [Callers -> [step : {"none", "reset", "wait"}, id : Resettable \union {NoTask}]]
        /\ hooks \in [step : {"wait", "loop", "reset"}, id : Resettable \union {NoTask}]
    OBVIOUS
  <2>3. deferred \in BOOLEAN
    OBVIOUS
  <2> QED BY <2>1, <2>2, <2>3 DEF Types
<1>2. CallOK
  BY DEF CallOK
<1>3. ASSUME NEW r \in Resettable PROVE Resetting(r) = {} /\ ~Deferred(r) /\ ~Taken(r)
  BY DEF Resetting, Deferred, Taken
<1>4. LockOK
  BY <1>3 DEF LockOK, Own
<1>5. WaitOK
  BY DEF WaitOK
<1> QED BY <1>1, <1>2, <1>4, <1>5 DEF IInv

\* Task ids are naturals below the invalid one.
LEMMA Ids ==
  /\ \A t \in Resettable \union Callers : t \in Nat /\ t > 0 /\ t < TASK_ID_COUNT
  /\ NoTask \notin Waiters \union Resettable /\ TASK_ID_COUNT \notin Callers
  /\ Resettable \union Callers \subseteq Tasks
BY EcTaskResetAssumption DEF NoTask, Waiters, Tasks, HOOKS

\* A step keeps the types and what calls are about.
LEMMA TypesStep == Types /\ CallOK /\ Next => Types' /\ CallOK'
<1> SUFFICES ASSUME Types, CallOK, Next PROVE Types' /\ CallOK'
  OBVIOUS
<1> USE EcTaskResetAssumption DEF Types, CallOK, state, At, Goto, NoCall
<1>1. ASSUME NEW r \in Resettable, ResettableNext(r) PROVE Types' /\ CallOK'
  <2>1. CASE task_reset_cleanup(r)
    BY <2>1 DEF task_reset_cleanup
  <2>2. CASE cleanup_release(r)
    BY <2>2 DEF cleanup_release
  <2>3. CASE cleanup_remove(r)
    BY <2>3 DEF cleanup_remove, Highest
  <2>4. CASE cleanup_notify(r)
    BY <2>4 DEF cleanup_notify
  <2>5. CASE task_disable_resets(r)
    BY <2>5 DEF task_disable_resets
  <2>6. CASE task_enable_resets(r)
    BY <2>6 DEF task_enable_resets
  <2>7. CASE request_reset(r)
    BY <2>7 DEF request_reset
  <2>8. CASE sleep_forever(r)
    BY <2>8 DEF sleep_forever
  <2> QED BY <1>1, <2>1, <2>2, <2>3, <2>4, <2>5, <2>6, <2>7, <2>8 DEF ResettableNext
<1>2. ASSUME NEW c \in Callers, NEW r \in Resettable, NEW wait \in BOOLEAN, task_reset(c, r, wait)
      PROVE  Types' /\ CallOK'
  <2>1. waiters' \in [Resettable -> SUBSET Waiters]
    BY <1>2 DEF task_reset, Waiters
  <2>2. /\ call' \in [Callers -> [step : {"none", "reset", "wait"}, id : Resettable \union {NoTask}]]
        /\ \A d \in Callers : call'[d].step # "none" => call'[d].id \in Resettable
    BY <1>2 DEF task_reset
  <2>3. calls' \in 0 .. MaxCalls /\ lock' \in [Resettable -> BOOLEAN]
    <3>1. calls' = calls + 1 /\ calls < MaxCalls /\ calls \in Nat /\ MaxCalls \in Nat
      BY <1>2 DEF task_reset
    <3>2. calls' \in 0 .. MaxCalls
      BY <3>1
    <3>3. lock' \in [Resettable -> BOOLEAN]
      BY <1>2 DEF task_reset
    <3> QED BY <3>2, <3>3
  <2> QED BY <1>2, <2>1, <2>2, <2>3 DEF task_reset
<1>3. ASSUME NEW c \in Callers, reset_now(c) PROVE Types' /\ CallOK'
  BY <1>3 DEF reset_now, do_task_reset, Calls
<1>4. ASSUME NEW c \in Callers, reset_done(c) PROVE Types' /\ CallOK'
  BY <1>4 DEF reset_done
<1>5. CASE deferred_task_reset
  BY <1>5 DEF deferred_task_reset
<1>6. CASE deferred_loop
  BY <1>6 DEF deferred_loop, Highest
<1>7. CASE deferred_reset
  BY <1>7 DEF deferred_reset, do_task_reset, Calls
<1> QED BY <1>1, <1>2, <1>3, <1>4, <1>5, <1>6, <1>7 DEF Next, CallerNext, HooksNext

-----------------------------------------------------------------------------
(***************************************************************************)
(* Reset locks.                                                            *)
(***************************************************************************)

\* Who is about to reset a task is what calls say.
LEMMA ResettingKept == call' = call => \A q \in Resettable : Resetting(q)' = Resetting(q)
BY DEF Resetting

\* A caller starts, or ends, its reset of a task.
LEMMA ResettingChanged ==
  ASSUME Types, CallersNotReset, NEW c \in Callers
  PROVE  /\ \A v : call' = [call EXCEPT ![c] = v] /\ call[c].step # "reset" /\ v.step # "reset" =>
               \A q \in Resettable : Resetting(q)' = Resetting(q)
         /\ \A r \in Resettable :
               call' = [call EXCEPT ![c] = [step |-> "reset", id |-> r]] /\ call[c].step # "reset" =>
               \A q \in Resettable : Resetting(q)' = Resetting(q) \union (IF q = r THEN {c} ELSE {})
         /\ \A r \in Resettable : call' = Calls(r, c) =>
               \A q \in Resettable : Resetting(q)' = Resetting(q) \ {c}
BY DEF Types, Resetting, Calls, NoCall, CallersNotReset

\* A task that has not started is not overtaken by who is to reset it.
LEMMA NotOvertaken ==
  ASSUME Types, LockOK, NEW r \in Resettable, At(r, "start")
  PROVE  Resetting(r) = {}
<1>1. ASSUME NEW c \in Resetting(r) PROVE FALSE
  <2>1. c \in Callers /\ c \in Tasks /\ call[c].step = "reset" /\ c > r
    BY <1>1, Ids DEF LockOK, At, Resetting
  <2> QED BY <2>1 DEF At, MayRun, Runs
<1> QED BY <1>1

\* A step keeps what is said of locks.
LEMMA LockStep ==
  ASSUME CallersNotReset, Types, CallOK, LockOK, Next
  PROVE  LockOK'
<1> USE EcTaskResetAssumption DEF Types, CallOK, LockOK, state, At, Goto, Deferred, Taken, Own
<1>1. ASSUME NEW r \in Resettable, ResettableNext(r) PROVE LockOK'
  <2>1. CASE task_reset_cleanup(r)
    BY <2>1, ResettingKept, NotOvertaken DEF task_reset_cleanup
  <2>2. CASE cleanup_release(r)
    BY <2>2, ResettingKept DEF cleanup_release
  <2>3. CASE cleanup_remove(r)
    BY <2>3, ResettingKept DEF cleanup_remove
  <2>4. CASE cleanup_notify(r)
    BY <2>4, ResettingKept DEF cleanup_notify
  <2>5. CASE task_disable_resets(r)
    BY <2>5, ResettingKept DEF task_disable_resets
  <2>6. CASE task_enable_resets(r)
    BY <2>6, ResettingKept DEF task_enable_resets
  <2>7. CASE request_reset(r)
    BY <2>7, ResettingKept DEF request_reset
  <2>8. CASE sleep_forever(r)
    BY <2>8, ResettingKept DEF sleep_forever
  <2> QED BY <1>1, <2>1, <2>2, <2>3, <2>4, <2>5, <2>6, <2>7, <2>8 DEF ResettableNext
<1>2. ASSUME NEW c \in Callers, NEW r \in Resettable, NEW wait \in BOOLEAN, task_reset(c, r, wait)
      PROVE  LockOK'
  <2>1. CASE lock[r]
    BY <1>2, <2>1, ResettingChanged DEF task_reset, InOwnCode, NoCall
  <2>2. CASE ~lock[r]
    <3>1. \A q \in Resettable : Resetting(q)' = Resetting(q) \union (IF q = r THEN {c} ELSE {})
      BY <1>2, <2>2, ResettingChanged DEF task_reset, InOwnCode
    <3>2. Resetting(r) = {}
      BY <2>2
    <3>3. pc[r] = "start" => c > r
      <4> SUFFICES ASSUME pc[r] = "start" PROVE c > r
        OBVIOUS
      <4>1. Runs(r) /\ r \in Tasks
        BY Ids DEF Runs
      <4>2. ~(r > c) /\ r # c
        BY <1>2, <4>1 DEF task_reset, MayRun
      <4>3. r \in Nat /\ c \in Nat
        BY Ids
      <4> QED BY <4>2, <4>3
    <3> QED BY <1>2, <2>2, <3>1, <3>2, <3>3 DEF task_reset
  <2> QED BY <2>1, <2>2
<1>3. ASSUME NEW c \in Callers, reset_now(c) PROVE LockOK'
  <2>1. call[c].id \in Resettable /\ c \in Resetting(call[c].id)
    BY <1>3 DEF reset_now, Resetting
  <2>2. \A q \in Resettable : Resetting(q)' = Resetting(q) \ {c}
    BY <1>3, <2>1, ResettingChanged DEF reset_now
  <2> QED BY <1>3, <2>1, <2>2 DEF reset_now, do_task_reset
<1>4. ASSUME NEW c \in Callers, reset_done(c) PROVE LockOK'
  <2>1. \A q \in Resettable : Resetting(q)' = Resetting(q)
    <3>1. call' = [call EXCEPT ![c] = NoCall] /\ call[c].step # "reset"
      BY <1>4 DEF reset_done
    <3>2. NoCall.step # "reset"
      BY DEF NoCall
    <3> QED BY <3>1, <3>2, ResettingChanged
  <2> QED BY <1>4, <2>1 DEF reset_done
<1>5. CASE deferred_task_reset
  BY <1>5, ResettingKept DEF deferred_task_reset
<1>6. CASE deferred_loop
  BY <1>6, ResettingKept DEF deferred_loop, Highest
<1>7. CASE deferred_reset
  <2>1. hooks.id \in Resettable /\ Deferred(hooks.id)
    BY <1>7 DEF deferred_reset
  <2>2. call' = call
    BY <1>7, <2>1 DEF deferred_reset, Calls, CallersNotReset
  <2>3. \A q \in Resettable : Resetting(q)' = Resetting(q)
    BY <2>2, ResettingKept
  <2> QED BY <1>7, <2>1, <2>3 DEF deferred_reset, do_task_reset
<1> QED BY <1>1, <1>2, <1>3, <1>4, <1>5, <1>6, <1>7 DEF Next, CallerNext, HooksNext

-----------------------------------------------------------------------------
(***************************************************************************)
(* Callers that wait.                                                      *)
(***************************************************************************)
\* A step keeps what is said of callers that wait.
LEMMA WaitStep ==
  ASSUME CallersNotReset, Types, CallOK, LockOK, WaitOK, Next
  PROVE  WaitOK'
<1> USE EcTaskResetAssumption DEF Types, CallOK, WaitOK, state, At, Goto
<1>1. ASSUME NEW r \in Resettable, ResettableNext(r) PROVE WaitOK'
  <2>1. CASE task_reset_cleanup(r)
    BY <2>1 DEF task_reset_cleanup
  <2>2. CASE cleanup_release(r)
    BY <2>2 DEF cleanup_release
  <2>3. CASE cleanup_remove(r)
    BY <2>3 DEF cleanup_remove, Highest
  <2>4. CASE cleanup_notify(r)
    <3>1. \A q \in Resettable : notify_id'[q] = IF q = r THEN NoTask ELSE notify_id[q]
      BY <2>4 DEF cleanup_notify
    <3>2. \A c \in Callers : c # NoTask /\ events'[c] = (events[c] \/ c = notify_id[r])
      BY <2>4, Ids DEF cleanup_notify, Waiters
    <3>3. \A q \in Resettable : pc'[q] = IF q = r THEN "cleanup" ELSE pc[q]
      BY <2>4 DEF cleanup_notify
    <3>4. UNCHANGED <<waiters, call>>
      BY <2>4 DEF cleanup_notify
    <3>5. ASSUME NEW c \in Callers, NEW q \in Resettable, c \in waiters'[q]
          PROVE  /\ call'[c] = [step |-> "wait", id |-> q] /\ ~events'[c]
                 /\ \A p \in Resettable : notify_id'[p] # c
      <4>1. call[c] = [step |-> "wait", id |-> q] /\ ~events[c] /\ c # notify_id[r]
        BY <3>4, <3>5
      <4>2. \A p \in Resettable : notify_id[p] # c
        BY <3>4, <3>5
      <4>3. ~events'[c]
        BY <3>2, <4>1
      <4> QED BY <3>1, <3>2, <3>4, <4>1, <4>2, <4>3
    <3>6. ASSUME NEW c \in Callers, NEW q \in Resettable, notify_id'[q] = c
          PROVE  /\ pc'[q] = "notify" /\ call'[c].step = "wait" /\ ~events'[c]
                 /\ \A p \in Resettable : notify_id'[p] = c => p = q
      <4>1. q # r /\ notify_id[q] = c
        BY <3>1, <3>2, <3>6
      <4>2. pc[q] = "notify" /\ call[c].step = "wait" /\ ~events[c] /\ notify_id[r] # c
        BY <4>1
      <4>3. \A p \in Resettable : notify_id'[p] = c => p = q
        BY <3>1, <3>2, <4>1
      <4>4. ~events'[c]
        BY <3>2, <4>2
      <4> QED BY <3>3, <3>4, <4>1, <4>2, <4>3, <4>4
    <3>7. ASSUME NEW c \in Callers, events'[c] PROVE call'[c].step = "wait"
      <4>1. events[c] \/ c = notify_id[r]
        BY <3>2, <3>7
      <4> QED BY <3>4, <4>1
    <3> QED BY <3>5, <3>6, <3>7
  <2>5. CASE task_disable_resets(r)
    BY <2>5 DEF task_disable_resets
  <2>6. CASE task_enable_resets(r)
    BY <2>6 DEF task_enable_resets
  <2>7. CASE request_reset(r)
    BY <2>7 DEF request_reset
  <2>8. CASE sleep_forever(r)
    BY <2>8 DEF sleep_forever
  <2> QED BY <1>1, <2>1, <2>2, <2>3, <2>4, <2>5, <2>6, <2>7, <2>8 DEF ResettableNext
<1>2. ASSUME NEW c \in Callers, NEW r \in Resettable, NEW wait \in BOOLEAN, task_reset(c, r, wait)
      PROVE  WaitOK'
  <2>1. call[c].step = "none" /\ UNCHANGED <<pc, notify_id, events>>
    BY <1>2 DEF task_reset, InOwnCode
  <2>2. ~events[c] /\ (\A q \in Resettable : c \notin waiters[q] /\ notify_id[q] # c)
    BY <2>1
  <2>3. CASE lock[r] /\ wait
    BY <1>2, <2>1, <2>2, <2>3 DEF task_reset
  <2>4. CASE lock[r] /\ ~wait
    <3>1. \A d \in Callers : call[d].step = "wait" => call'[d] = call[d]
      BY <1>2, <2>1, <2>4 DEF task_reset
    <3>2. \A d \in Callers, q \in Resettable : d \in waiters'[q] <=> d \in waiters[q]
      BY <1>2, <2>4, Ids DEF task_reset
    <3> QED BY <2>1, <3>1, <3>2
  <2>5. CASE ~lock[r]
    BY <1>2, <2>1, <2>2, <2>5 DEF task_reset
  <2> QED BY <2>3, <2>4, <2>5
<1>3. ASSUME NEW c \in Callers, reset_now(c) PROVE WaitOK'
  <2>1. /\ call[c].id \in Resettable /\ Resetting(call[c].id) # {} /\ call[c].step = "reset"
        /\ UNCHANGED <<waiters, events>>
        /\ notify_id' = [notify_id EXCEPT ![call[c].id] = NoTask]
        /\ pc' = [pc EXCEPT ![call[c].id] = "start"]
    BY <1>3 DEF reset_now, do_task_reset, Resetting
  <2>2. \A d \in Callers : call'[d] = IF d = c THEN NoCall ELSE call[d]
    BY <1>3, <2>1 DEF reset_now, Calls, CallersNotReset
  <2>3. pc[call[c].id] # "notify"
    BY <2>1 DEF LockOK, Own
  <2>4. NoTask \notin Callers
    BY Ids DEF Waiters
  <2>5. \A q \in Resettable : notify_id'[q] = notify_id[q] \/ notify_id'[q] = NoTask
    BY <2>1
  <2>6. \A q \in Resettable : notify_id'[q] # NoTask => pc'[q] = pc[q] \/ pc[q] # "notify"
    BY <2>1, <2>3
  <2>7. \A d \in Callers : call[d].step = "wait" => call'[d] = call[d]
    BY <2>1, <2>2
  <2> QED BY <2>1, <2>4, <2>5, <2>6, <2>7
<1>4. ASSUME NEW c \in Callers, reset_done(c) PROVE WaitOK'
  BY <1>4 DEF reset_done
<1>5. CASE deferred_task_reset
  BY <1>5 DEF deferred_task_reset
<1>6. CASE deferred_loop
  BY <1>6 DEF deferred_loop
<1>7. CASE deferred_reset
  <2>1. hooks.id \in Resettable /\ pc[hooks.id] \in {"call", "sleep"}
    BY <1>7 DEF deferred_reset, LockOK, Deferred, Taken
  <2>2. call' = call
    BY <1>7, <2>1 DEF deferred_reset, Calls, CallersNotReset
  <2>3. NoTask \notin Callers /\ UNCHANGED <<waiters, events>>
    BY <1>7, Ids DEF deferred_reset, Waiters
  <2>4. \A q \in Resettable : notify_id'[q] = notify_id[q] \/ notify_id'[q] = NoTask
    BY <1>7, <2>1 DEF deferred_reset, do_task_reset
  <2>5. \A q \in Resettable : pc'[q] = pc[q] \/ pc[q] # "notify"
    BY <1>7, <2>1 DEF deferred_reset, do_task_reset
  <2> QED BY <2>2, <2>3, <2>4, <2>5
<1> QED BY <1>1, <1>2, <1>3, <1>4, <1>5, <1>6, <1>7 DEF Next, CallerNext, HooksNext

\* The invariant is inductive.
LEMMA NextIInv == CallersNotReset /\ IInv /\ [Next]_vars => IInv'
<1> SUFFICES ASSUME CallersNotReset, IInv, [Next]_vars PROVE IInv'
  OBVIOUS
<1>1. CASE Next
  BY <1>1, TypesStep, LockStep, WaitStep DEF IInv
<1>2. CASE UNCHANGED vars
  BY <1>2 DEF vars, state, IInv, Types, CallOK, LockOK, WaitOK, Resetting, Deferred, Taken
<1> QED BY <1>1, <1>2

\* Every state the code reaches satisfies the inductive invariant.
THEOREM Invariance ==
  ASSUME CallersNotReset
  PROVE  Spec => []IInv
<1>1. IInv /\ [Next]_vars => IInv'
  BY NextIInv
<1> QED BY <1>1, InitIInv, PTL DEF Spec

\* A reset lock has one holder, the task itself or the caller that is about to
\* reset it, and is taken while it has (update_reset_state, task_reset).
THEOREM TypeCorrect ==
  ASSUME CallersNotReset
  PROVE  Spec => []TypeOK
<1>1. IInv => TypeOK
  <2> SUFFICES ASSUME IInv PROVE TypeOK
    OBVIOUS
  <2>1. ASSUME NEW r \in Resettable
        PROVE  Cardinality(Holders(r)) <= 1 /\ (Holders(r) # {} => lock[r])
    <3>1. ASSUME NEW c \in Resetting(r), NEW d \in Resetting(r) PROVE c = d
      BY DEF IInv, LockOK
    <3>2. Holders(r) = {} \/ \E h \in Holders(r) : Holders(r) = {h}
      BY <3>1 DEF IInv, LockOK, Holders, Own
    <3>3. Cardinality(Holders(r)) <= 1
      <4>1. CASE Holders(r) = {}
        BY <4>1, FS_EmptySet
      <4>2. ASSUME NEW h \in Holders(r), Holders(r) = {h} PROVE Cardinality(Holders(r)) = 1
        BY <4>2, FS_Singleton
      <4> QED BY <3>2, <4>1, <4>2
    <3>4. Holders(r) # {} => lock[r]
      BY DEF IInv, LockOK, Holders, Own
    <3> QED BY <3>3, <3>4
  <2>2. Types
    BY DEF IInv
  <2>3. \A r \in Resettable : Cardinality(Holders(r)) <= 1 /\ (Holders(r) # {} => lock[r])
    BY <2>1
  <2> HIDE DEF IInv
  <2> QED BY <2>2, <2>3 DEF TypeOK
<1> QED BY <1>1, Invariance, PTL

-----------------------------------------------------------------------------
(***************************************************************************)
(* EcTaskReset does what TaskResetApi promises.                            *)
(***************************************************************************)

\* A step that leaves a section alone stutters in it, one that changes the
\* section of r enters another there.
LEMMA SectionStep ==
  /\ (\A q \in Resettable : Section(q)' = Section(q)) => apiSection' = apiSection
  /\ \A r \in Resettable : \A s :
       Section(r)' = s /\ (\A q \in Resettable \ {r} : Section(q)' = Section(q)) =>
       apiSection' = [apiSection EXCEPT ![r] = s]
  /\ \A q \in Resettable : apiSection[q] = Section(q)
BY DEF apiSection

\* The first state is the abstract one's.
LEMMA InitApi == Init => Api!Init
<1> SUFFICES ASSUME Init PROVE Api!Init
  OBVIOUS
<1>1. apiSection = [r \in Resettable |-> "enabled"]
  BY DEF Init, apiSection, Section
<1>2. apiWaiting = [c \in Callers |-> NoTask]
  BY DEF Init, apiWaiting, NoCall
<1> QED BY <1>1, <1>2 DEF Init, Api!Init

\* Who waits for what is what their calls say.
LEMMA WaitingKept == call' = call => apiWaiting' = apiWaiting
BY DEF apiWaiting

\* A section depends on what is its task's own.
LEMMA SectionKept ==
  ASSUME NEW q \in Resettable, lock'[q] = lock[q], pc'[q] = pc[q],
         Resetting(q)' = Resetting(q)
  PROVE  Section(q)' = Section(q)
BY DEF Section

\* The steps of a resettable task.
LEMMA ResettableApi ==
  ASSUME CallersNotReset, IInv, NEW r \in Resettable, ResettableNext(r)
  PROVE  [Api!Next]_(Api!vars)
<1> USE DEF At, Goto, state
<1>1. Types /\ call' = call /\ (\A q \in Resettable : Resetting(q)' = Resetting(q))
  BY ResettingKept DEF IInv, ResettableNext, task_reset_cleanup, cleanup_release, cleanup_remove,
     cleanup_notify, task_disable_resets, task_enable_resets, request_reset, sleep_forever
<1>2. \A q \in Resettable \ {r} : lock'[q] = lock[q] /\ pc'[q] = pc[q]
  BY <1>1 DEF Types, ResettableNext, task_reset_cleanup, cleanup_release, cleanup_remove,
     cleanup_notify, task_disable_resets, task_enable_resets, request_reset, sleep_forever
<1>3. \A q \in Resettable \ {r} : Section(q)' = Section(q)
  BY <1>1, <1>2, SectionKept
<1>4. ASSUME Section(r)' = Section(r), waiters' = waiters PROVE UNCHANGED Api!vars
  BY <1>1, <1>3, <1>4, SectionStep, WaitingKept DEF Api!vars
<1>5. ASSUME NEW s, Section(r)' = s PROVE apiSection' = [apiSection EXCEPT ![r] = s]
  BY <1>3, <1>5, SectionStep
<1>6. apiSection[r] = Section(r) /\ apiWaiting' = apiWaiting
  BY <1>1, SectionStep, WaitingKept
<1>7. /\ pc[r] \in Own => lock[r] /\ Resetting(r) = {}
      /\ pc[r] = "sleep" => lock[r]
  BY DEF IInv, LockOK
<1>8. lock'[r] \in BOOLEAN /\ lock[r] \in BOOLEAN
  BY TypesStep DEF IInv, Types, Next
<1>10. CASE task_reset_cleanup(r)
  <2>1. Resetting(r) = {}
    BY <1>10, NotOvertaken DEF IInv, task_reset_cleanup
  <2>2. Section(r)' = Section(r)
    BY <1>1, <1>10, <2>1 DEF task_reset_cleanup, Section, Types
  <2> QED BY <1>4, <1>10, <2>2 DEF task_reset_cleanup
<1>11. CASE cleanup_release(r)
  <2>1. Section(r) = "restart" /\ Section(r)' = "enabled"
    BY <1>1, <1>7, <1>11 DEF cleanup_release, Section, Types, Own
  <2>2. Api!Finish(r)
    BY <1>5, <1>6, <1>11, <2>1 DEF cleanup_release, Api!Finish, Api!Enter
  <2> QED BY <2>2 DEF Api!Next
<1>12. CASE cleanup_remove(r)
  <2>1. Section(r) = "restart" /\ Section(r)' = "restart"
    BY <1>1, <1>7, <1>12 DEF cleanup_remove, Section, Types, Own
  <2>2. apiSection' = apiSection
    BY <1>3, <2>1, SectionStep
  <2>3. Api!Tell(r)
    BY <1>6, <1>12, <2>1, <2>2 DEF cleanup_remove, Highest, Api!Tell
  <2> QED BY <2>3 DEF Api!Next
<1>13. CASE cleanup_notify(r)
  <2>1. Section(r)' = Section(r)
    BY <1>1, <1>13 DEF cleanup_notify, Section, Types
  <2> QED BY <1>4, <1>13, <2>1 DEF cleanup_notify
<1>14. CASE task_disable_resets(r)
  <2>1. CASE lock[r]
    <3>1. Section(r)' = Section(r)
      BY <1>1, <1>14, <2>1 DEF task_disable_resets, Section, Types
    <3> QED BY <1>4, <1>14, <3>1 DEF task_disable_resets
  <2>2. CASE ~lock[r]
    <3>1. Section(r) = "enabled" /\ Section(r)' = "disabled"
      BY <1>1, <1>14, <2>2 DEF task_disable_resets, Section, Types
    <3>2. Api!task_disable_resets(r)
      BY <1>5, <1>6, <1>14, <3>1 DEF task_disable_resets, Api!task_disable_resets, Api!Enter
    <3> QED BY <3>2 DEF Api!Next
  <2> QED BY <2>1, <2>2
<1>15. CASE task_enable_resets(r)
  <2>1. Section(r) = "disabled" /\ Section(r)' = IF waiters[r] = {} THEN "enabled" ELSE "ending"
    BY <1>1, <1>7, <1>15 DEF task_enable_resets, Section, Types, Own
  <2>2. Api!task_enable_resets(r)
    BY <1>5, <1>6, <1>15, <2>1 DEF task_enable_resets, Api!task_enable_resets, Api!Enter
  <2> QED BY <2>2 DEF Api!Next
<1>16. CASE request_reset(r)
  <2>1. Section(r)' = Section(r)
    BY <1>1, <1>16 DEF request_reset, Section, Types
  <2> QED BY <1>4, <1>16, <2>1 DEF request_reset
<1>17. CASE sleep_forever(r)
  <2>1. Section(r)' = Section(r)
    BY <1>1, <1>17 DEF sleep_forever, Section, Types
  <2> QED BY <1>4, <1>17, <2>1 DEF sleep_forever
<1> QED BY <1>10, <1>11, <1>12, <1>13, <1>14, <1>15, <1>16, <1>17 DEF ResettableNext

\* The reset itself, by a caller or by HOOKS.
LEMMA ResetApi ==
  ASSUME CallersNotReset, IInv, NEW r \in Resettable, do_task_reset(r),
         lock[r], pc[r] # "disabled", Resetting(r) # {} \/ pc[r] \in {"call", "sleep"},
         UNCHANGED state, Resetting(r)' = {}, apiWaiting' = apiWaiting,
         \A q \in Resettable \ {r} : Resetting(q)' = Resetting(q)
  PROVE  Api!Next
<1>1. Section(r) = "ending" /\ Section(r)' = "restart"
  BY DEF IInv, Types, Section, do_task_reset, Goto, state
<1>2. \A q \in Resettable \ {r} : Section(q)' = Section(q)
  BY SectionKept DEF IInv, Types, do_task_reset, Goto, state
<1>3. apiSection' = [apiSection EXCEPT ![r] = "restart"] /\ apiSection[r] = "ending"
  BY <1>1, <1>2, SectionStep
<1>4. apiWaiting' = [c \in Callers |-> IF c = r THEN NoTask ELSE apiWaiting[c]]
  BY DEF apiWaiting, CallersNotReset
<1>5. Api!Reset(r)
  BY <1>3, <1>4 DEF Api!Reset, Api!Enter, state
<1> QED BY <1>5 DEF Api!Next

\* The steps of the others.
LEMMA OthersApi ==
  ASSUME CallersNotReset, IInv, (\E c \in Callers : CallerNext(c)) \/ HooksNext
  PROVE  [Api!Next]_(Api!vars)
<1> USE DEF state
<1>1. ASSUME NEW c \in Callers, NEW r \in Resettable, NEW wait \in BOOLEAN, task_reset(c, r, wait)
      PROVE  Api!Next
  <2>1. call[c].step = "none" /\ apiWaiting[c] = NoTask /\ r # c /\ c # NoTask /\ r # NoTask
    BY <1>1, Ids DEF task_reset, InOwnCode, apiWaiting, Waiters
  <2>2. Types /\ pc' = pc /\ apiSection[r] = Section(r)
    BY <1>1, SectionStep DEF task_reset, IInv
  <2>3. CASE lock[r]
    <3>1. \A q \in Resettable : Resetting(q)' = Resetting(q)
      BY <1>1, <2>1, <2>2, <2>3, ResettingChanged DEF task_reset, NoCall
    <3>2. apiSection' = apiSection /\ apiSection[r] # "enabled"
      BY <1>1, <2>2, <2>3, <3>1, SectionKept, SectionStep DEF task_reset, Section
    <3>3. waiters' = [waiters EXCEPT ![r] = @ \union {IF wait THEN c ELSE TASK_ID_COUNT}]
      BY <1>1, <2>3 DEF task_reset
    <3>4. apiWaiting' = IF wait THEN [apiWaiting EXCEPT ![c] = r] ELSE apiWaiting
      BY <1>1, <2>1, <2>2, <2>3 DEF task_reset, apiWaiting, Types, NoCall
    <3>5. Api!task_reset(c, r)
      BY <2>1, <3>2, <3>3, <3>4 DEF Api!task_reset
    <3> QED BY <3>5 DEF Api!Next
  <2>4. CASE ~lock[r]
    <3>1. \A q \in Resettable : Resetting(q)' = Resetting(q) \union (IF q = r THEN {c} ELSE {})
      BY <1>1, <2>1, <2>2, <2>4, ResettingChanged DEF task_reset
    <3>2. pc[r] # "disabled"
      BY <2>4 DEF IInv, LockOK, Own
    <3>3. lock' = [lock EXCEPT ![r] = TRUE] /\ waiters' = waiters
      BY <1>1, <2>4 DEF task_reset
    <3>4. Section(r) = "enabled" /\ Section(r)' = "ending"
      BY <2>2, <2>4, <3>1, <3>2, <3>3 DEF Section, Types
    <3>5. \A q \in Resettable \ {r} : Section(q)' = Section(q)
      BY <2>2, <3>1, <3>3, SectionKept DEF Types
    <3>6. apiSection' = [apiSection EXCEPT ![r] = "ending"] /\ apiSection[r] = "enabled"
      BY <2>2, <3>4, <3>5, SectionStep
    <3>7. apiWaiting' = apiWaiting
      BY <1>1, <2>1, <2>2, <2>4 DEF task_reset, apiWaiting, Types
    <3>8. Api!task_reset(c, r)
      BY <2>1, <3>3, <3>6, <3>7 DEF Api!task_reset, Api!Enter
    <3> QED BY <3>8 DEF Api!Next
  <2> QED BY <2>3, <2>4
<1>2. ASSUME NEW c \in Callers, reset_now(c) PROVE Api!Next
  <2>1. PICK r \in Resettable : r = call[c].id /\ c \in Resetting(r)
    BY <1>2 DEF reset_now, Resetting, IInv, Types, CallOK
  <2>2. \A q \in Resettable : Resetting(q)' = Resetting(q) \ {c}
    BY <1>2, <2>1, ResettingChanged DEF reset_now, IInv
  <2>3. Resetting(r) = {c} /\ lock[r] /\ pc[r] # "disabled"
    BY <2>1 DEF IInv, LockOK, Own
  <2>4. \A q \in Resettable \ {r} : c \notin Resetting(q)
    BY <2>1 DEF Resetting
  <2>5. Resetting(r)' = {} /\ \A q \in Resettable \ {r} : Resetting(q)' = Resetting(q)
    <3>1. ASSUME NEW q \in Resettable \ {r} PROVE Resetting(q)' = Resetting(q)
      <4>1. Resetting(q)' = Resetting(q) \ {c} /\ c \notin Resetting(q)
        BY <2>2, <2>4
      <4> QED BY <4>1
    <3>2. Resetting(r)' = {}
      BY <2>2, <2>3
    <3> QED BY <3>1, <3>2
  <2>6. apiWaiting' = apiWaiting
    BY <1>2, <2>1 DEF reset_now, apiWaiting, Calls, CallersNotReset, NoCall
  <2>7. do_task_reset(r) /\ UNCHANGED state
    BY <1>2, <2>1 DEF reset_now
  <2> QED BY <2>3, <2>5, <2>6, <2>7, ResetApi
<1>3. ASSUME NEW c \in Callers, reset_done(c) PROVE Api!Next
  <2>1. call[c].id \in Resettable /\ c \notin waiters[call[c].id] /\ apiWaiting[c] = call[c].id
    BY <1>3 DEF reset_done, IInv, CallOK, WaitOK, apiWaiting
  <2>2. UNCHANGED <<lock, pc, waiters>> /\ call' = [call EXCEPT ![c] = NoCall] /\ call[c].step # "reset"
    BY <1>3 DEF reset_done
  <2>3. \A q \in Resettable : Resetting(q)' = Resetting(q)
    <3>1. NoCall.step # "reset"
      BY DEF NoCall
    <3> QED BY <2>2, <3>1, ResettingChanged DEF IInv
  <2>4. apiSection' = apiSection
    BY <2>2, <2>3, SectionKept, SectionStep
  <2>5. apiWaiting' = [apiWaiting EXCEPT ![c] = NoTask]
    BY <2>2 DEF apiWaiting, NoCall, IInv, Types
  <2>6. Api!task_reset_returns(c)
    BY <2>1, <2>2, <2>4, <2>5, Ids DEF Api!task_reset_returns
  <2> QED BY <2>6 DEF Api!Next
<1>4. ASSUME deferred_task_reset \/ deferred_loop PROVE UNCHANGED Api!vars
  <2>1. UNCHANGED <<lock, pc, waiters, call>>
    BY <1>4 DEF deferred_task_reset, deferred_loop
  <2>2. \A q \in Resettable : Resetting(q)' = Resetting(q)
    BY <2>1, ResettingKept
  <2> QED BY <2>1, <2>2, SectionKept, SectionStep, WaitingKept DEF Api!vars
<1>5. CASE deferred_reset
  <2>1. hooks.id \in Resettable /\ pc[hooks.id] \in {"call", "sleep"}
    BY <1>5 DEF deferred_reset, IInv, CallOK, LockOK, Deferred, Taken
  <2>2. lock[hooks.id] /\ Resetting(hooks.id) = {}
    BY <1>5, <2>1 DEF deferred_reset, IInv, LockOK, Deferred, Taken
  <2>3. call' = call
    BY <1>5, <2>1 DEF deferred_reset, Calls, CallersNotReset, IInv, Types
  <2>4. (\A q \in Resettable : Resetting(q)' = Resetting(q)) /\ apiWaiting' = apiWaiting
    BY <2>3, ResettingKept, WaitingKept
  <2>5. do_task_reset(hooks.id) /\ UNCHANGED state
    BY <1>5 DEF deferred_reset
  <2> QED BY <2>1, <2>2, <2>4, <2>5, ResetApi
<1> QED BY <1>1, <1>2, <1>3, <1>4, <1>5 DEF CallerNext, HooksNext

\* Locks, waiters and events implement what task.h promises: a task is reset
\* only while it has resets enabled or when it next enables them, and a caller
\* that waits returns only after the reset.
THEOREM Refinement ==
  ASSUME CallersNotReset
  PROVE  Spec => ImplementsApi
<1>1. IInv /\ [Next]_vars => [Api!Next]_(Api!vars)
  <2> SUFFICES ASSUME IInv, [Next]_vars PROVE [Api!Next]_(Api!vars)
    OBVIOUS
  <2>1. CASE Next
    BY <2>1, ResettableApi, OthersApi DEF Next
  <2>2. CASE UNCHANGED vars
    BY <2>2 DEF vars, state, Api!vars, apiSection, apiWaiting, Section, Resetting
  <2> QED BY <2>1, <2>2
<1> QED BY <1>1, InitApi, Invariance, PTL DEF Spec, ImplementsApi, Api!Spec
=============================================================================
