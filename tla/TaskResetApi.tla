---------------------------- MODULE TaskResetApi ----------------------------
(***************************************************************************)
(* What include/task.h promises of task_reset: a task is never reset while *)
(* it has resets disabled; a request that comes then is executed when it   *)
(* next enables them; a caller that waits returns once the task has been   *)
(* reset.                                                                  *)
(***************************************************************************)
CONSTANTS Resettable, Callers, NoTask, Anyone

VARIABLES
  section,                \* of a task: "enabled", "disabled"; "ending", a
                          \* reset is decided; "restart", it has been reset
  queued,                 \* per task: callers to be told; Anyone: a request
                          \* that nobody waits for
  waiting                 \* per caller: the task it waits for

vars == <<section, queued, waiting>>

Init ==
  /\ section = [r \in Resettable |-> "enabled"]
  /\ queued = [r \in Resettable |-> {}]
  /\ waiting = [c \in Callers |-> NoTask]

Enter(r, s) == section' = [section EXCEPT ![r] = s]

task_disable_resets(r) ==
  /\ section[r] = "enabled" /\ Enter(r, "disabled")
  /\ UNCHANGED <<queued, waiting>>

task_enable_resets(r) ==
  /\ section[r] = "disabled"
  /\ Enter(r, IF queued[r] = {} THEN "enabled" ELSE "ending")
  /\ UNCHANGED <<queued, waiting>>

task_reset(c, r) ==
  /\ waiting[c] = NoTask /\ r # c
  /\ \/ /\ section[r] = "enabled" /\ Enter(r, "ending")
        /\ UNCHANGED <<queued, waiting>>
     \/ /\ section[r] # "enabled"
        /\ \/ /\ queued' = [queued EXCEPT ![r] = @ \union {c}]
              /\ waiting' = [waiting EXCEPT ![c] = r]
           \/ /\ queued' = [queued EXCEPT ![r] = @ \union {Anyone}]
              /\ UNCHANGED waiting
        /\ UNCHANGED section

\* What the task was waiting for itself is over.
Reset(r) ==
  /\ section[r] = "ending" /\ Enter(r, "restart")
  /\ waiting' = [c \in Callers |-> IF c = r THEN NoTask ELSE waiting[c]]
  /\ UNCHANGED queued

\* task_reset_cleanup
Tell(r) ==
  /\ section[r] = "restart"
  /\ \E c \in queued[r] : queued' = [queued EXCEPT ![r] = @ \ {c}]
  /\ UNCHANGED <<section, waiting>>

Finish(r) ==
  /\ section[r] = "restart" /\ queued[r] = {}
  /\ Enter(r, "enabled")
  /\ UNCHANGED <<queued, waiting>>

task_reset_returns(c) ==
  /\ waiting[c] # NoTask /\ c \notin queued[waiting[c]]
  /\ waiting' = [waiting EXCEPT ![c] = NoTask]
  /\ UNCHANGED <<section, queued>>

Next ==
  \/ \E r \in Resettable :
       \/ task_disable_resets(r) \/ task_enable_resets(r)
       \/ Reset(r) \/ Tell(r) \/ Finish(r)
  \/ \E c \in Callers :
       \/ task_reset_returns(c)
       \/ \E r \in Resettable : task_reset(c, r)

Spec == Init /\ [][Next]_vars

\* A reset that is decided is executed and a caller that waits returns, if
\* tasks enable resets again and again.
Served ==
  /\ \A r \in Resettable : section[r] = "ending" ~> section[r] # "ending"
  /\ \A c \in Callers : waiting[c] # NoTask ~> waiting[c] = NoTask
=============================================================================
