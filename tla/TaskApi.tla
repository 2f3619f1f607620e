------------------------------ MODULE TaskApi ------------------------------
(***************************************************************************)
(* What the task runtime promises its clients, with no scheduler, no       *)
(* interrupt and no timer in sight (include/task.h):                       *)
(*   - an event that is posted to a task stays with that task until one    *)
(*     of its wait calls returns it, and is returned once;                 *)
(*   - a wait call hands back the events it collected and did not return;  *)
(*   - a mutex has at most one holder and only its holder releases it.     *)
(* EcTask is shown to implement this module.                               *)
(***************************************************************************)
CONSTANTS Tasks, Events, Mutexes

VARIABLES
  pending,    \* events posted to a task that no wait call has collected
  collected,  \* events a wait call in progress has taken and not yet returned
  returned,   \* result of the last wait call, {} while one is in progress
  holders     \* tasks between a return of mutex_lock and mutex_unlock

apiVars == <<pending, collected, returned, holders>>

Init == /\ pending   = [t \in Tasks |-> {}]
        /\ collected = [t \in Tasks |-> {}]
        /\ returned  = [t \in Tasks |-> {}]
        /\ holders   = [m \in Mutexes |-> {}]

Post(t, e) == /\ pending' = [pending EXCEPT ![t] = @ \union {e}]
              /\ UNCHANGED <<collected, returned, holders>>

\* A wait call starts: the result of the previous one is gone.
Begin(t) == /\ collected[t] = {}
            /\ returned' = [returned EXCEPT ![t] = {}]
            /\ UNCHANGED <<pending, collected, holders>>

\* A wait call in progress takes everything that is pending at once.
Collect(t) == /\ returned[t] = {}
              /\ collected' = [collected EXCEPT ![t] = @ \union pending[t]]
              /\ pending'   = [pending EXCEPT ![t] = {}]
              /\ UNCHANGED <<returned, holders>>

\* It returns S and puts the rest back.
Return(t, S) == /\ S \subseteq collected[t]
                /\ returned[t] = {}
                /\ returned'  = [returned EXCEPT ![t] = S]
                /\ pending'   = [pending EXCEPT ![t] = @ \union (collected[t] \ S)]
                /\ collected' = [collected EXCEPT ![t] = {}]
                /\ UNCHANGED holders

Acquire(t, m) == /\ holders[m] = {}
                 /\ holders' = [holders EXCEPT ![m] = {t}]
                 /\ UNCHANGED <<pending, collected, returned>>

Release(t, m) == /\ holders[m] = {t}
                 /\ holders' = [holders EXCEPT ![m] = {}]
                 /\ UNCHANGED <<pending, collected, returned>>

Next == \E t \in Tasks :
           \/ \E e \in Events : Post(t, e)
           \/ Begin(t)
           \/ Collect(t)
           \/ \E S \in SUBSET Events : Return(t, S)
           \/ \E m \in Mutexes : Acquire(t, m) \/ Release(t, m)

Spec == Init /\ [][Next]_apiVars
=============================================================================
