# Verification of the Chromium OS embedded controller firmware

TLA+ models of the Chromium OS embedded controller firmware (`platform/ec`),
checked with TLC and proved with TLAPS. Everything is translated from the C sources under
`src/`; `PROJECT.json` ("map") names the lines behind each definition.

The firmware is large (over 7000 files), but most of it is device drivers and
board configuration. What every part rests on is small: a preemptive priority
scheduler with events, mutexes and task resets, one timer per task on a shared
hardware timer, deferred calls, and the channels to the application processor
(AP): host commands and MKBP events. These are modelled, and three parts with a
protocol of their own: rollback protection and the hash of verified boot, and the
protocol layer of USB Power Delivery (PD). The rest is in the plan below.

## 1. Inventory

| Component | Sources | State | Operations | Models |
|---|---|---|---|---|
| Task runtime | `core/cortex-m/task.c`, `switch.S`, `irq_handler.h` | `current_task`, `tasks_ready`, `tasks_enabled`, `need_resched`, per-task `events`, per-mutex `lock` and `waiters` | `task_set_event`, `task_wait_event[_mask]`, `usleep`, `mutex_lock/unlock`, `task_enable/disable_task`, `svc_handler`, interrupt entry and exit | `EcTask`, `TaskApi` |
| Task reset | `core/cortex-m/task.c:584-850` | `task_reset_state` (lock and waiter bits), `deferred_reset_task_ids` | `task_reset`, `task_enable/disable_resets`, `task_reset_cleanup`, `deferred_task_reset` | `EcTaskReset`, `TaskResetApi` |
| Timers | `common/timer.c`, `chip/stm32/hwtimer32.c` | `clksrc_high`, `timer_running`, `timer_deadline`, `next_deadline`; counter, status and compare registers | `timer_arm`, `timer_cancel`, `get_time`, `process_timers` | `EcTimer` |
| Hooks | `common/hooks.c` | `__deferred_until`, `hook_task_started`, last tick and second | `hook_call_deferred`, the loop of `hook_task` | `EcHooks` |
| MKBP events | `common/mkbp_event.c` | `struct mkbp_state`, the line to the AP, the deferred safety net | `mkbp_send_event`, `force_mkbp_if_events`, `EC_CMD_GET_NEXT_EVENT` | `Mkbp` |
| MKBP FIFO | `common/mkbp_fifo.c` | ring of entries, depth, two mutexes | add, peek and remove, clear keyboard, set depth | `Mkbp`, `MkbpQueue` |
| Host commands | `common/host_command_task.c`, `host_command.c`, `chip/stm32/spi.c` | the one `args0` and packet buffers, `pending_args`, `command_pending`, `saved_result`; state of the SPI target | receive in the interrupt of the chip select, process in the task, respond, status, resend | `HostCommand` |
| Rollback | `common/rollback.c`, `common/rwsig.c`, `common/flash.c:742-778` | two flash regions with id, minimum version, secret, cookie; the version of the RW image; `rwsig_status`, `disable_jump` | read latest, update version, add entropy, reset the secret, verify, wait and jump to RW, abort, the host's writes and jumps | `Rollback`, `MinVersion` |
| Verified boot hash | `common/vboot_hash.c`, `common/flash.c:742-763` | region, position, digest, `want_abort`, `in_progress`; the deferred erase | start, abort, recalculate, hash a chunk in a deferred call, invalidate on a write or erase | `VbootHash` |
| USB PD protocol layer | `common/usbc/usb_prl_sm.c` | message ids, `xmit_status`, flags and states of tx, rch and tch | send, receive, chunk, retry, discard, soft reset | `Prl` |
| Queue | `common/queue.c` | free-running head and tail | add, remove, peek, advance | planned |
| Others | PD policy engine and type-C, power sequencing, charge manager, keyboard scan, motion sense, I2C, console, flash and sysjump, firmware update, EC-EC link, Zephyr shim, drivers, boards | | | see `PROJECT.json` |

How they interact:

* Interrupts and tasks post events with `task_set_event`; a task sleeps in a
  wait call until it has one. The only communication of the runtime is the
  event bitmap, the ready bitmap and, for mutexes, the waiters bitmap.
* A wait with a timeout arms the task's timer. The hardware timer's interrupt
  posts `TASK_EVENT_TIMER` to the task and triggers a reschedule.
* `hook_call_deferred` writes a deadline and wakes HOOKS, the lowest task but
  for idle, which waits with the timeout to the closest deadline.
* MKBP events are set by any task, raised to the AP through a line or a message
  that may deschedule and fail, and fetched by a host command; a deferred call
  retries if the AP does not come.
* A host command is received by an interrupt into static buffers, processed by
  the HOSTCMD task, and answered by the driver, unless the host has given up;
  slow commands answer "in progress" and are polled.
* `task_reset` starts another task anew through its reset lock, at once or, if
  it has resets disabled, later by a deferred call of HOOKS.
* Verified boot (RWSIG) compares the version of RW with the minimum before it jumps
  there, and raises the minimum; host commands and the console update the same
  regions. Meanwhile the host may write RW, which aborts the jump by an event, or
  jump there itself.
* The AP asks for a hash of a region of the flash; HOOKS computes it chunk by chunk
  while host commands write and erase the flash, abort and ask again.
* The PD task runs the policy engine and the parts of the protocol layer in
  turn; they exchange flags with each other, and with the port controller's
  interrupt the transmit status and a queue of received messages.

What is hard:

* *Preemption at every instruction.* No lock protects the bitmaps; each
  operation is a sequence of atomic accesses whose order matters (set the event
  before the ready bit, register before trying the lock, look again before
  sleeping).
* *Nesting.* The decision to reschedule is taken at the end of an interrupt,
  with interrupts enabled.
* *Wrap-around.* The time has a hardware and a software half that move
  separately; the counter runs while everything else happens.
* *Unlock, then act.* Several operations release a lock and complete afterwards
  (post MUTEX events, cancel the safety net, remove the entry they peeked at).
* *Failure and retry* of the interrupt to the AP, overtaken by newer attempts.
* *Buffers and flags that are shared* by consecutive requests: the single
  `args0` of host commands, the flags between the PD state machines. Whoever
  comes late reads what belongs to the next one.
* *Results that go stale while they are computed*: the flash changes under the hash,
  before, between and after the chunks.
* *Power loss and failing flash operations* between the steps of an update.
* *Lossy lines*: a PD message whose acknowledgement is lost is sent again and
  must not be taken for a new one, across soft resets of either side.

What makes each component correct:

* Task runtime: mutexes exclude; no event or wake-up is lost or delivered
  twice; the highest priority ready task runs; a timer does not outlive its
  wait; waits come back.
* Timers: time is coherent; nothing expires early, nothing late.
* Hooks: a scheduled call is not forgotten and not slept through.
* MKBP: ACTIVE means the AP has been told; a set event is announced or will be
  retried; the FIFO is a bounded queue whose head can be reached.
* Task reset: no task is reset while it has resets disabled; requests and the
  wake-ups of their callers are not lost.
* Host commands: an answer goes to the request it answers, a command reported
  as done is done, the driver listens again after every transaction.
* Rollback: the minimum version never goes back, entropy is not lost, an old
  secret does not survive its reset, rwsig brings no older image to run.
* Boot hash: a digest answered as done is that of the flash as it is, for the region
  in the answer; a request to recalculate returns, with its own result.
* PD protocol layer: messages reach the policy engine once and in order, only
  duplicates are dropped, a message has one outcome and what is reported as sent was
  accepted, but for situations that section 6 names.

`PROJECT.json` ("hazards") lists each hazard with its line and its properties.

## 2. Modules

| Module | Role |
|---|---|
| `TaskApi` | abstract: what `include/task.h` promises of events and mutexes |
| `EcTask` | detailed: the runtime, one action per access to shared memory |
| `EcTaskProofs` | its inductive invariant, theorems, and the refinement |
| `EcTimer` | the task timers over a counter of parametric width |
| `EcTimerProofs` | its inductive invariants and theorems |
| `EcHooks` | the hook task's loop and its callers; its theorems are in `VbootHashProofs` |
| `TaskResetApi` | abstract: what `include/task.h` promises of task resets |
| `EcTaskReset` | detailed: reset locks, waiters, deferred resets |
| `EcTaskResetProofs` | its inductive invariant, theorems, and the refinement |
| `MkbpQueue` | abstract: a bounded queue of entry types |
| `Mkbp` | detailed: event bits, interrupt to the AP, FIFO, safety net |
| `MkbpProofs` | its inductive invariants, theorems, and the refinement |
| `HostCommand` | host, SPI target and host command task |
| `HostCommandProofs` | its inductive invariant and theorems |
| `MinVersion` | abstract: a minimum version that rises, a secret that is added to |
| `Rollback` | detailed: two regions, one flash access at a time |
| `RollbackProofs` | its inductive invariant, theorems, and the refinement |
| `VbootHash` | the chunk-wise hash, its aborts, the writes and erases |
| `VbootHashProofs` | its inductive invariant and theorems, and those of `EcHooks`, which runs the chunks |
| `Prl` | one PD port with its partner |
| `PrlProofs` | its inductive invariants and theorems |
| `MC_*` | constants for TLC |

### EcTask

State is named as in the code; sets stand for bitmaps. Each task has a program
counter `pc`, at `"run"` when it is in its own code. One action is one access to
shared memory, so a task can be preempted between any two, with these merged:
`svc_handler` (it masks all interrupts), sections between `interrupt_disable`
and `interrupt_enable`, and the three stores of `task_set_event` inside a
handler (no task runs between them, and they commute with those of a nested
handler). `ldrex/strex` is one step: a store that fails repeats.

| Code | Actions |
|---|---|
| `task_start` | `task_start` (the flag of `start_called`, the store of `__task_start` and its `__schedule` in one) |
| `task_set_event` | `task_set_event`, `set_event_svc`; `task_set_event_masked` with interrupts disabled; `irq_set_event` in a handler |
| `__wait_evt` | `arm`, `check`, `desched`, `cancel`, `clear_timer` |
| `task_wait_event`, `task_wait_event_mask`, `usleep` | they differ in the mask (`StartWait`); `wait_again`, `wait_return` are the end of the loop |
| `mutex_lock` | `mutex_lock` (registers), `take_lock`, `contend`, `clear_waiter` |
| `mutex_unlock` | `mutex_unlock` (critical section), `notify_waiter`, `unlock_svc`, `unlock_done` |
| `task_enable_all_tasks` | `task_enable_all_tasks`, `all_ready`, `resched` |
| `task_enable_task`, `task_disable_task` | same names, `resched` |
| `DECLARE_IRQ`, `task_resched_if_needed` | `irq_enter`, routine steps, `irq_no_resched`, `irq_resched`, `irq_exit` |

Interrupts nest by priority and stop at three places: in the routine, between
the test of `need_resched` and the return, and idle. A timer may expire at any
moment while it is armed; `EcTimer` has the deadlines.

Assumptions about the callers: tasks do not end while they hold a mutex, they
nest mutexes in ascending order, the idle task makes no calls, interrupts post
to tasks other than idle, and HOOK_INIT hooks do not wait for ever. Mutexes are
unlocked by their owner. `lateEnabled` and `booted` are history variables.

### EcTimer

`ticks` is the real time, the counter is `ticks % PERIOD` and can tick between
any two steps. The handler of `__hw_clock_source_irq` is five steps (read
status, clear it, scan, program, look again); a pass over the timers is one
step because no task runs meanwhile. `timer_arm` is the high word, the low word,
the re-check of the high word with its single second attempt, the running bit,
and the comparison with `next_deadline`. Tasks run by priority, so a task in
`timer_arm` is preempted by timers of higher ones. The model assumes that the
overflow interrupt is served before the next overflow and that `timer_arm` does
not last for two (71 minutes each, the watchdog fires in seconds).
`StatusWindow` says if the counter may tick between the read and the clear of
the status register; `MC_EcTimer_status.cfg` turns it on.

### EcHooks

The loop of `hook_task`, with one step for each section with interrupts
disabled and for each read of the clock. HOOKS is the lowest task, hence a call
of `hook_call_deferred` is atomic for it and may come between any two of its
steps. Two callers that preempt each other within `hook_call_deferred` for the
same routine are not modelled. Its wait is abstracted to what `EcTask` shows of
it: it returns for the wake event or when its time is over.

### Mkbp

Three tasks by ascending priority: HOOKS (buttons, and the deferred call),
HOSTCMD (the AP's commands), KEYSCAN (keys, and clearing the keyboard). Tasks
of higher priority run first, unless they are blocked on `fifo_add_mutex` or
descheduled in a transport that may sleep (`MayFail`). Sections under
`state.lock` or `fifo_remove_mutex` are one step; `fifo_add_mutex` is held
across `mkbp_send_event` and is a variable. The event data is not modelled,
an entry is its type. `netLost` and `keysCleared` are history variables that
mark the two situations in which the properties do not hold.

### EcTaskReset

A task is its number, and numbers are priorities; HOOKS is 0. The word
`task_reset_state` is its bit `TASK_RESET_LOCK` (`lock`) and the waiters. Each
atomic access, or section with interrupts disabled, is one action; `MayRun` lets
a task take one only if none of higher priority is inside these functions
(`Runs`). `do_task_reset` makes the task ready and does not reschedule: that it may run at
once is as if an interrupt came there. A task in its own code sleeps and wakes at will. The first start of a
task cannot race with a reset, as callers run only after it or preempt it.
Waits for `TASK_EVENT_RESET_DONE` are reduced to the event; the deferred call is
a flag that HOOKS takes (`EcHooks` shows that no scheduled call is lost). The
callers of the run are not reset themselves (section 6 has the other case).

`TaskResetApi` has for each task one of four sections: resets enabled, disabled,
a reset is decided, the task restarts; and the requests that are queued. Its
`Served` is the progress that `task_reset` promises to a caller that waits, which
`RequestsServed` claims of the code.

### HostCommand

The host drives NSS, may give up any transaction and forget a command in
progress. The interrupt of NSS is one action for each thing it can find, and
comes between any two steps of the task (`At` makes the task wait while an edge
is pending). A request is its number and its kind; an answer names the request
it was produced for, so that a wrong pairing can be seen. `args0` has the request,
the result and whether there is response data; `out_msg` and the DMA (`tx`) are
separate, because an answer is built in one and clocked out of the other.
Chipset startup and shutdown come from HOOKS. `overlaps` records whether a request came
while the task had another one: after the task's answer (the driver may then
not be ready) or after the host gave up.

### Rollback

Every access to the flash is a step: three reads of `get_latest_rollback`, erase,
write, and the write of the last word (the cookie). Between any two, other tasks
run, the operation fails, or power is lost. Erasing a region leaves it without
cookie, writing leaves a torn secret until the cookie is there. A secret is the
set of entropies hashed into it, so that "old" and "lost" can be said.
`Updaters` are the tasks that write (RWSIG, the host command's deferred call,
the console); nothing in the code keeps them apart, and the properties about the
contents assume one at a time (`SingleUpdater`). An update takes effect at the write
of the cookie, which is the step that refines `MinVersion`.

`rwsig_task` is modelled from its check, once after a reset, to its jump
(`rwsig_status`, with `"jumping"` for `rwsig_jump_now` and `"done"` for the loop at
its end). It reads the version of RW first (`op.next`), compares it at the end of
`get_latest_rollback`, may raise the minimum, waits, protects the flash and jumps.
Between any two of these steps the host may write or erase RW (`rwVersion`), which sets the
event that makes the wait end in an abort (`abort`), send the abort itself, or ask
for a jump (`EC_REBOOT_JUMP_RW`, `EC_REBOOT_JUMP_RO`). Only a write can make an image older
than the minimum run, and in three ways the code lets it; `gap` is a history variable that names the
one that was taken, and `RwNotOlder` excepts it by that name:

* `"hash"`: RW was written while a hash of the flash was in progress. The write aborts the hash
  and returns before it aborts the jump (`flash.c:745-749`).
* `"late"`: RW was written between the end of the wait and the protection of the flash in
  `rwsig_jump_now`; nobody looks at the event any more.
* `"jump_rw"`: `EC_REBOOT_JUMP_RW` jumps to RW without asking whether it has been
  checked, as long as the check has not failed (`system.c:1037-1038`).

In a system that is not locked anything may run, and `RwNotOlder` says nothing of it.

### VbootHash

HOOKS runs `vboot_hash_next_chunk` and `flash_erase_deferred`, one step for each
access to what the host command task also uses (`pc`); `vboot_hash_abort` in HOOKS
is its test and three stores. The host command task has a higher priority than HOOKS,
so its commands are atomic for HOOKS and come between any two of its steps, but for the
two in which it sleeps: the poll of RECALC, and the physical write of the flash,
which follows the abort or invalidation (`host`). The console's commands, which call the
same functions from a second task, are left out.

Offsets and sizes count chunks of `CHUNK_SIZE`. The flash has for each chunk how
often it was changed, and a digest is the sequence of chunks that went into it,
with the version that was read; so a digest is right if it is that of the
region in the flash as it is. A nonce is left out: it goes into the digest once, before
the first chunk. `mapped` says whether the build reads the flash directly, or through the
shared memory, which may be in use (`SkipChunk`), and with reads that fail
(`FailChunk`). At boot the RW image may have been hashed in one call already, as EFS2 does.

`spoilt` records what befell the hash since its start: a chunk was skipped, a read
failed, a deferred erase met it, or the end of an abort of the hash before it
cleared its size or its digest. The properties except these by name (section 6).

### Prl

One port, SOP messages, PD revision 3.0. The loop of the PD task runs the policy
engine, rx, rch, tch, tx and tch again (`pc`); each entry function that the code
calls inside a state's run is an operator on the record `port`, applied within
the action. The policy engine is what it does with the layer: start a
message, with or without an AMS, react to discards, errors and soft resets.
`PE_FLAGS_MSG_DISCARDED` stays set (`result = "discarded"`) until a state of the policy engine reads or clears
it, which any turn may or may not do (`DiscardRead`): not all its states look at it
(`usb_pe_drp_sm.c:1230`). The
partner numbers its messages, retries (a message may be cached twice), answers
chunk requests, resets. A hard reset ends the behaviour.

Assumptions on the TCPC: it is done with one message before it gets the next; it
reports the end of a transmission before a message that was received later is
cached; the transmit timer expires only when it has not got the message.

`mishaps` are seven situations the code gets into, after which a property does
not hold; each is excluded by name in the property it breaks (section 6). After `unclaimed`
the model does not follow what the policy engine does with the flag. Two of the seven,
`wrapped` and `late`, were found by the proofs: within the bounds of the run `prl` neither
breaks a property, a wrap needs more messages, and a late status two of the policy engine.

## 3. Runs

| Run | Shows | Bounds |
|---|---|---|
| `task_safety` | types, exclusion, no lost wake-up, no lost event, priorities, timers confined, refinement of `TaskApi` | 3 tasks, 2 nesting interrupts, 1 mutex, 3 calls of any kind, 1 event from an interrupt, any number of timeouts |
| `task_live` | events are seen, locks granted, timed waits return | 3 tasks, 1 interrupt, 2 calls |
| `task_reset` | one holder of a reset lock; refinement of `TaskResetApi`; requests are served | 2 resettable tasks, 3 callers with priorities between and above them, 4 calls |
| `timer` | coherent time, never early, on time | period 3, 10 ticks (three wraps), delays to 4 (beyond a period), 2 tasks |
| `hooks` | no call lost, no oversleep | 2 routines, 3 calls, 8 ticks, tick interval 3 |
| `mkbp` | ACTIVE is raised, events and head announced, FIFO is a queue | 3 types of which 2 in the FIFO, depth 2 or 1, 3 events, activations may fail |
| `hostcmd` | answers to their requests, done means done, ready when idle, processing ends | 4 requests of 5 kinds |
| `rollback` | version, entropy, reset of the secret, no older image by rwsig although the host writes RW, coherent reads, refinement of `MinVersion` | 1 updater, 1 reader, versions 0 and 1, 2 entropies, any number of resets |
| `prl` | in order and once, only duplicates dropped, no outcome or discard of a message that already has one, sent means accepted; each but for the mishaps its property names | 1 request of the policy engine, plus a soft reset and Accept for each reset; 2 messages and 1 soft reset of the partner; cache of 2; ids modulo 4 |
| `vboot_hash` | a hash answered as done is right, RECALC answers for its region and returns | 2 chunks; regions of 2, 1 and 0 chunks and one that does not fit; 2 writes or erases, 1 skipped chunk, any number of starts, aborts and failed reads |
| `hostcmd_resend`, `prl_waiting` | statements of comments that the code does not keep (section 6) | smallest that shows it |

Why the bounds are enough. Contention on a mutex with preemption takes an
owner, a waiter and idle; three calls let a task lock, unlock by the unbounded
`mutex_unlock`, and meet another. Two
interrupts nest. The main loop's wait, unlocking and timeouts are not bounded,
so that a bounded number of calls never leaves a task stuck. The timer's period
must be smaller than the delays for a deadline to be in the next period and in
the same low word; a task has to be able to arm twice over three wraps. In
`hooks`, the delays exceed the tick interval, so that deferred calls
come before, at and after a tick, and three calls let a routine be scheduled,
re-scheduled and cancelled. In `mkbp`, 3 events with a FIFO of 2 overflow it and
wrap its indices; `interrupt_id` is counted modulo 4, more than the number of
activations under way at once (three tasks), as 256 is in the code (section 4, `IdsAreFresh`).

In `task_reset`, callers below, between and above the two tasks preempt and are
preempted; four calls let one be refused, queued behind a section, queued behind a
reset, and come after it. In `hostcmd`, four requests are a slow command, a
status, a request that overtakes, and a resend. In `rollback`, the two entropies
are one reset of the secret (one in each region), or two additions; histories of
any length arise because resets, failures, checks, the host's writes and its jumps are not
bounded. Two versions are an image that is older than the minimum and one that is not; a
third value stands for an erased RW. A hash may be in progress at any write
(`CONFIG_VBOOT_HASH`). The proofs remove the bounds. In `vboot_hash`, two chunks are one that was hashed and one that is not yet, an update of
either may come before, between and after them, and a second one while the first is
being done; the proofs remove the bounds. In `prl`, a chunked message takes three line messages, so that
with the resets the identifiers wrap (modulo 4; 8 in the code) while a retry is
still cached.

Deadlock is checked for `EcTask`, in which a wait without event and timeout is
left by interrupts at least, and for `Rollback`, where the power may always be
lost, and not for the others, whose clock, calls or messages are bounded.

Fairness (`EcTask!Fairness`). Strong fairness for the steps of each task but
idle, and for the end of each handler: both are disabled again and again by
interrupts, and get time only if interrupts do not use up the CPU, which the
firmware's watchdog (petted by HOOKS, the lowest task: `docs/core_runtime.md`)
enforces. Strong fairness for the timer interrupt and the expiry of
an armed timer: the interrupt recurs at every overflow at the latest and then
finds the deadlines that have passed (`EcTimer`, `OnTime`). No fairness is
assumed for the tasks' choice to make calls, for events or for other interrupts.
Under strong fairness of a whole task, a bounded number of calls means that
higher priority tasks eventually wait and let lower ones run.

`EcTaskReset!Fairness`: weak fairness for the steps inside the calls, as the
priorities are in the guards; strong fairness for `task_enable_resets`,
because a task must enable resets "periodically" (`include/config.h:4313-4315`),
and for HOOKS, which every other task preempts. `HostCommand!Fairness`: weak, for
the interrupt and the task; the host owes nothing. `VbootHash!FairSpec`: weak, for
HOOKS, which no step of another task disables, and for the end of `usleep` and of the
physical write. `Prl!FairSpec`: weak fairness
for the PD task's loop, strong for the expiry of the timer of rch, which is
looked at once in each round.

## 4. Proofs

For any number of tasks, interrupts, events and mutexes, and any bounds,
`EcTaskProofs` proves `Spec => []IInv`, from it the six invariants of
`task_safety`, and `Spec => Api!Spec`. The assumptions are
those of `EcTask` on its constants: at least two tasks, the timer interrupt
exists, MUTEX and TIMER are not among the custom events, mutexes are naturals.

None of the invariants is inductive alone. `IInv` is the conjunction of

* `TypeOK`;
* `CallOK`: where a task is in a call says what its locals are. A task with a
  mutex in `want` is trying the lock or in an untimed wait for MUTEX; a running
  timer or a TIMER event belongs to a timed wait at one of its inner steps.
  Confinement of timers needs it: `cancel` and `clear_timer` are on
  every path out of a wait that armed one;
* `LockOK`: whoever has a mutex has its lock field taken, from which exclusion
  follows because `take_lock` needs the field clear;
* `ReadyOK`: the running task is ready, and a task with an event is ready or is
  being made ready; `svc_handler` removes only a task without events;
* `PriorityOK`: the choice of the last `svc_handler` still stands, unless a
  reschedule is owed;
* `WakeOK`: a task in `mutex_lock` is in the waiters; once it waits and the
  mutex is free, MUTEX is in its events, in its collected events, or in the
  snapshot of a task that is unlocking. The case that matters is the unlock: the
  snapshot is taken with the store that frees the lock, so it contains every
  task that could have seen the lock taken.

Each has its own step lemma with one step per action. The refinement maps
`pending` to the custom events, `collected` and `returned` to the result of the
wait in progress and of the last one, and `holders` to the tasks between
`take_lock` and `mutex_unlock`; every action maps to one abstract step or a
stutter.

For any tasks, priorities and number of calls, `EcTaskResetProofs` proves that a
reset lock has one holder and that `EcTaskReset` implements `TaskResetApi`. It
assumes `CallersNotReset`: tasks that call `task_reset` are not reset themselves.
This is needed, `MC_EcTaskReset_caller.cfg` shows the refinement fail without it.
Besides types and `CallOK` (a call is about a task), the invariant has

* `LockOK`: of the task itself, inside `task_reset_cleanup` or with resets disabled,
  its callers that took the lock and HOOKS, one has the lock and the others have not.
  The hard state is `"start"`: a task that has just been reset reads its word
  first, and if it could do that while a caller is still about to reset it, both
  would go on. It cannot, because that caller has the higher priority;
* `WaitOK`: a caller is among the waiters of one task at most, waits for that one
  and has not been told; from its removal to the end of its call it is told once.
  So the event that ends a call is that of its own task.

The steps between the store of a lock and the effect on the task are stutters.
What has been decided (`"ending"`) lasts until the reset itself.

For any number of routines and any intervals, the last section of `VbootHashProofs` proves
`NoCallLost` and `NoOversleep` of `EcHooks` (it extends both modules, which share no name: the
hash and the hook task that runs it are proved about separately). The invariant adds that time does not go back between the
reads of the loop, that a call after the start of the task always posts the wake
event, and `SleepOK`: from the look at the clock to the end of the wait, nothing
is due before the sleep is over unless the wake event is pending. A call that
comes between the scan of the timers and the wait keeps it by its event. The
clock's bound `MaxTime` is any positive natural; so the theorems say nothing
of the wrap of the 64-bit time.

For any numbers of versions, entropies and readers, `RollbackProofs` proves the
invariants of `rollback`, and that `Rollback` implements `MinVersion`. It assumes
`SingleUpdater`: there is at most one task that updates. This is needed,
`MC_Rollback_race.cfg` shows the version go back with two. The inductive invariant `IInv` is the conjunction of

* `TypeOK`, and `RegionsOK`: there is a newest valid region, and the ids and
  versions of valid ones are naturals and known versions;
* `OpOK`: the arguments of each call fit its kind; the check of rwsig holds the version that RW
  has, unless the system is not locked, an abort is pending or `gap` names a way around it;
* `StepOK`: what the updater holds at each step. Between its first
  read and its write nobody else writes, so its copy is the region in force,
  the region it rewrites is the other one, and the new block adds to it;
* `ResultOK`: what a call may report when it is done. At `"success"` the secret in
  force has the entropy that was asked for; in the second round of a reset it
  has the entropy of the first one, whose region is not the one being rewritten;
* `ReportedOK`: the reported entropy and resets, and an image that was verified
  is not older than the version in force, also while it waits to be run: no write comes in
  that wait without an abort pending or a `gap`, and no update without the end of the task's call.

A reset keeps the regions and forgets the updater, so `RegionsOK` and `ReportedOK`
are what survives it, at whatever step it comes. The refinement maps
every step to a stutter but the write of the cookie.

`ReadCoherent` is about the readers, of which `IInv` says nothing. Its invariant `CInv`
adds what a reader has at each of its three reads: unless two updates touched the
flash since the call began, a region that was in force at a moment of the call is as it was,
and the scan finds that one, or the other one once its update is complete.

For any size of the flash and any regions to hash and to update, `VbootHashProofs`
proves `AnswerIsTrue` and `RecalcAnswers`. It assumes that the RW image lies within
the flash. The inductive invariant `IInv` is the conjunction of

* `TypeOK`, and `Fits`: the region is within the flash, so no read is beyond it;
* `BootOK` and `EraseCallOK`: nothing is in progress before the tasks run, and the result of
  an erase stays BUSY from its request to its end, so that its region does not change;
* unless a chunk was skipped, `HashOK`. `ControlOK`: while HOOKS is inside a chunk the hash
  is in progress and no second call is scheduled. `ProgressOK`: if it is not to be aborted, what
  went into the hash is the content, as it is now, of the chunks before the position.
  `OverlapOK`: a start that overtakes the stores of an abort, or a deferred erase,
  has hashed nothing before HOOKS is through. `UpdateOK`: what is about to be written
  or erased is no part of a valid hash: it was aborted, is empty, or lies
  elsewhere. `DoneOK`: a hash that is done is right;
* `RecalcOK`: while a RECALC waits and nothing spoilt its hash, the region is the one it
  asked for, and the hash is valid by the time it is no longer in progress.

A skipped chunk breaks `ControlOK` as well, because the call is then scheduled twice;
only a start from which HOOKS is through makes the invariant hold again. An update
keeps a digest by `ContentKept`: an update of chunks that the region does not have
leaves its content.

For any number of tasks and any width of the counter, `EcTimerProofs` proves what the
`timer` run checks. `NeverEarly` rests on `LagOK` alone: the software high word never runs
ahead of the counter, also when an overflow is lost. The other two assume
`~StatusWindow`, that no overflow comes between the read and the clear of the status
register; `MC_EcTimer_status.cfg` shows why. Their invariant is the conjunction of

* `TypeOK`, and `ClockOK`: the high word lags by exactly the overflow that is pending;
* `HardwareOK`: what the compare register has, against `next_deadline`, at each step of
  the interrupt; when it is quiet the register is ahead of the counter;
* `ReadOK`: what a task in `get_time` has read. The low word belongs to a time within
  the call; the second look at the high word tells which of two high words it goes with;
* `ScheduleOK`: each running timer is served by the overflow that ends its high word or
  by a match at or before its low word.

Products of a high word and the period are beyond the SMT solver when the period is a
constant of any value; they are confined to the lemmas on the words of a time.

For any number of requests, `HostCommandProofs` proves the three invariants of `hostcmd`.
The exceptions are those that the properties name (`overlaps`). `IInv` is
the conjunction of

* `TypeOK`, and `SendingOK`: the chipset is on while the task sends, because the hook
  that turns it off runs in HOOKS, which has a lower priority;
* unless the host gave up a request, `PendingOK` and `RequestOK`: `args0`, the packet and
  `pending_args` are of the request that the host waits for; `AnswerOK`: so is what lies in
  `out_msg` and in the DMA; `ProgressOK`: a command the host waits for is finished or runs, and
  "in progress" and "not busy" are true until they are read. One request is under way at a time, that is what keeps the one `args0` safe;
* unless requests overlapped, `ReadyOK`: in every state of the driver but READY
  somebody is about to take it out of it: the edge that is pending, the event of the task,
  or the step the task is at.

For any types of events, depth of the FIFO and number of events, `MkbpProofs` proves
the three invariants of `mkbp` and that `Mkbp` implements `MkbpQueue`. It assumes that HOOKS
has a lower priority than HOSTCMD, as in every `ec.tasklist` of the repository. The
invariant has

* `TypeOK`, and `CallOK`: a task is at a step of its own, and has something to send there;
* `FifoOK`: the end of the ring is its start and the number of entries, modulo the depth.
  `Slot` is a remainder by a constant of any value, so the lemma `SlotIs` says what it is
  for the two rounds in which it is used;
* `HeadOK`: while nobody cleared the keyboard, the bit of the first entry's type is set, or
  who put the entry is about to set it, or HOSTCMD has taken the bit and will put it back,
  remove the entry, or announce the next one;
* `OwnerOK`: an interrupt on its way belongs to an activation that is under way.

What the AP is told needs `IdsAreFresh` besides: when an activation begins, no other one
that has told the AP, and has not looked at the state since, has the same id.
`interrupt_id` has 8 bits, so 256 activations would have to overtake one to break it; with
2 ids instead TLC finds an ACTIVE interrupt that the AP does not see. `RaisedOK` says that
whoever finds his own id in the state has told the AP and the AP has not taken it
back. `AnnouncedOK` follows an event from `mkbp_send_event` to the AP: it is announced, the
net is spread, the interrupt is on its way or somebody is about to do one of these. An event that
HOSTCMD has taken and may put back counts; in that window the deferred call could look and find
nothing, but HOOKS cannot run while HOSTCMD does.

For any number of ids, any depth of the cache and any number of messages and resets,
`PrlProofs` proves types and the four invariants of `prl`. It begins with lemmas that say,
for each action, which fields of `port` it changes and how (`...Effect`), because every
proof needs them and the nested entry functions are too large to be expanded again each
time. On them rest five inductive invariants, each using the ones before it:

* `Core`: the types, and `Flow`: a received message is with rch or with tch, which looks at it in
  its next turn; tch takes a message of the policy engine in the round in which it was sent, and
  while it sends, rch waits;
* `Fresher`, for `FreshNotDropped`: neighbours in the cache with the same id are copies, their ids go
  on to the partner's counter, the first has the stored id only if it is the stored message, and
  with an empty cache the partner's next id is not the stored one. While a Soft_Reset is
  prepared or on its way no id is stored; a `late` message breaks that;
* `InOrder`, for `InOrderOnce`: the numbers in `passed`, followed by the message that is being
  received, rise; those in the cache are later, but for copies of the stored one at its head; no
  request for a chunk is on its way while a message waits to be looked at. It has two parts, of
  which the second (`Exact`) ends when a chunk is overwritten;
* `Settled`, for `NoStrayOutcome`: who waits for an outcome. The policy engine that awaits
  Accept has sent Soft_Reset (`Awaits`). Unless `unread` came before: while tch sends, the
  policy engine waits for an outcome (or the message was withdrawn because of a received one), and
  once `complete` or `error` has it tx is idle and can give no second one (`Outcomes`, `Requests`);
  whatever tx has or the TCPC was given, other than a chunk request, is what tch
  sends or takes next, or the Soft_Reset that is awaited, so that its discard is waited for too (`Claims`);
* `Agreed`, for `SentWasAccepted`. Unless one of the five mishaps that the property names came before, the message in tx is that of the policy
  engine, and a success in `status` or in `complete` means that the partner has accepted it
  (`Carried`); a Soft_Reset goes out only while its outcome is awaited (`Resets`); and
  in the states in which the ids of the two sides are to agree, the next id is not the one the
  partner has stored (`Ids`), so that it does not take the next message for a retry.

`Settled` and `Agreed` were checked with TLC before they were proved. The proof of
`SentWasAccepted` failed for a reason: with ids that come round the property is false, and
likewise `FreshNotDropped` with a late status. Both were then named as mishaps, and
`MC_Prl_late.cfg` shows the second.

Only model-checked: liveness (fairness and ENABLED are beyond the prover): `task_live`,
`ProcessingEnds`, `RecalcEnds`, `RequestsServed`. Every safety property of every passing run is
proved.

## 5. Not modelled

* `CONFIG_TASK_PROFILING`, stack-overflow checks, console commands, FPU context.
* `force_time`, time across sysjump, `udelay`, other hardware timers. `get_time`
  from contexts in which the timer interrupt cannot run: the source says that it
  may be off by one high word there.
* The 32-bit wrap of `time_remaining_us` in `task_wait_event_mask`.
* MKBP wake masks; `mkbp_clear_fifo`, which has no caller; the data that
  `fifo_remove` copies when the FIFO is empty.
* Task reset of a task that has a mutex: nothing in `task.c` handles it.
* Host commands by other transports (I2C, eSPI/LPC), version-2 packets, rate
  limiting, and host commands that other tasks send to themselves.
* Rollback: the flash driver's own protection, the content of the hash,
  `CONFIG_ROLLBACK` without a secret; the build without the RWSIG task, which checks in
  `main.c` and by `EC_CMD_RWSIG_CHECK_STATUS`; `EC_REBOOT_DISABLE_JUMP`, which
  only denies jumps; `EC_CMD_FLASH_PROTECT` (the protection changes at a reset and in
  `rwsig_jump_now`); the deferred erase, and flash that is programmed from outside. RW is written by commands
  from RO only (`CONFIG_INTERNAL_STORAGE`: `system_unsafe_to_overwrite`). A signature
  is good or not, whatever is written.
* VbootHash: nonces, the console commands, SHA in hardware, builds with
  `CONFIG_EXTERNAL_STORAGE` that keep the hash while RW runs (`flash.c:750-757`), and
  flash writes by the host that fail (the region counts as changed).
* Prl: cable messages (SOP', SOP''), revision 2.0, unchunked extended messages,
  hard reset, BIST, and the policy engine but for its use of the layer.
* All components with status `not_modelled` in `PROJECT.json`, with the reason.

## 6. Where code and documents differ

Runs that end in the violation:

| Run | Code | Statement |
|---|---|---|
| `hostcmd_resend` | the result put there by `host_command_resend_response` is overwritten by its return value (`host_command_task.c:402`) | comment at `host_command_task.c:97-98` |
| `prl_waiting` | a message that is not extended blocks the wait for a chunk for ever (`usb_prl_sm.c:1740`) | comment at `usb_prl_sm.c:1735-1737` |

Further configurations, kept beside the runs, in which TLC finds the property
violated by what the code does:

| Configuration | Property | Code | Statement |
|---|---|---|---|
| `MC_EcTask_nested.cfg` | `ReschedBeforeReturn` | an interrupt that nests after the outer handler's test leaves the reschedule to a later one (`task.c:401`) | `docs/core_runtime.md:119-123` |
| `MC_EcTask_stray.cfg` | `NoMutexEventLeft` | a MUTEX event can arrive after `mutex_unlock` cleared it (`task.c:949`) | comment at `task.c:948` |
| `MC_EcTimer_late.cfg` | `AlwaysProgrammed` | a timer armed while the counter wraps may not be programmed (`timer.c:154`) | `docs/core_runtime.md:260-261` |
| `MC_EcTimer_status.cfg` | `HighWordCountsRollbacks` | an overflow between read and clear of the status is lost (`hwtimer32.c:80`) | `docs/core_runtime.md:248-249` |
| `MC_Mkbp_cleared.cfg` | `HeadAnnounced` | clearing the keyboard can leave a head without its event bit (`mkbp_fifo.c:137`) | comments at `mkbp_fifo.c:229`, `mkbp_event.c:461-466` |
| `MC_Mkbp_net.cfg` | `EventsAnnounced` | a new safety net can be cancelled in place of the old one (`mkbp_event.c:384`) | comment at `mkbp_event.c:207-211` |
| `MC_Mkbp_type.cfg` | `EntryOfItsEvent` | the entry removed may not be the one that was peeked at (`mkbp_fifo.c:227`) | comment at `mkbp_fifo.c:213-216` |
| `MC_Rollback_race.cfg` | `NeverDecreased` | two tasks that update at once can lower the minimum version (`rollback.c:300`) | comments at `rollback.c:286` and `:292` |
| `MC_Rollback_written.cfg` | `NoJumpAfterWrite` | a write to RW that finds a hash in progress does not abort the jump (`flash.c:748`) | comment at `flash.c:766-767` |
| `MC_HostCommand_setup.cfg` | `SetupPostponed` | the end of a transaction in another state than PROCESSING sets up the receive buffer although the task still uses it (`spi.c:482`) | comment at `spi.c:478-480` |
| `MC_VbootHash_busy.cfg` | `BusyIsRetried` | a chunk that finds the shared memory in use is scheduled again, but the position moves on and the digest without it is answered as done (`vboot_hash.c:96`) | comment at `vboot_hash.c:96` |
| `MC_EcTaskReset_caller.cfg` | `ImplementsApi` | a caller that is reset while it waits stays among the waiters; the event it left ends its next wait early (`task.c:595`) | `include/task.h:382` |
| `MC_Prl_late.cfg` | `OnlyDuplicatesIgnored` | the partner's Accept is ignored as a duplicate, because a message with its id was stored after the ids were reset for Soft_Reset (`usb_prl_sm.c:2263`) | comment at `usb_prl_sm.c:2261` |

`MC_Rollback_unchecked.cfg` refutes `NeverOlder`, which is `RwNotOlder` without its exceptions, by
`EC_REBOOT_JUMP_RW`; no document says otherwise.

Observations on `VbootHash`, excepted by name in its properties:

* `Torn`: between the stores `want_abort = 0` and `hash = NULL` of `vboot_hash_abort`
  in HOOKS, a GET is answered DONE with the digest that is being invalidated
  (`vboot_hash.c:72-77`).
* `cleared`: a START or RECALC between the test of `in_progress` and these stores loses its size
  or its digest.
* The blocking hash at boot ignores the abort that a failed read asks for, and
  returns success with the rest of the image hashed (`vboot_hash.c:138-156`).

Observations on `Prl`, each a named mishap or an outcome of an action. They break
no statement of the code's documents, but a property has to except them:

* `missed`: the status FAILED of a message is overwritten when one is
  received, and the policy engine is told nothing (`usb_prl_sm.c:986`).
* `overwritten`: a message that comes while a chunk waits to be processed takes its
  place, although rch is not waiting for one.
* `unread`: a chunk request's TX_COMPLETE or TX_ERROR is taken for the outcome of the next
  message (`usb_prl_sm.c:1690`).
* `unclaimed`: a message begins with `PE_FLAGS_MSG_DISCARDED` set, and the state that sent it
  takes the flag for its outcome (`usb_pe_drp_sm.c:2301`), while the message is still
  sent. The flag was left by the discard of a chunk request, for which the
  policy engine waits for nothing (`usb_prl_sm.c:986-991`), or by a state that
  does not look at it (`usb_pe_drp_sm.c:1228-1230`); entering a ready state clears it.
* `unsynced`: a soft reset that is discarded has reset the port's identifiers
  and not the partner's (`usb_pe_drp_sm.c:4263`).
* `wrapped`: messages that the partner never got use up ids (`usb_prl_sm.c:956`). After
  eight of them the next message has the id that the partner stored; it is acknowledged and
  dropped, and the policy engine is told that it was sent.
* `late`: the TCPC ends a transmission from before `prl_init` with SUCCESS while the
  Soft_Reset is prepared; a message received then is stored without discarding the
  Soft_Reset (`usb_prl_sm.c:2279`), and the partner's Accept may have its id.
* The timeout in `tch_wait_chunk_request_run` tells the policy engine that the
  message was sent (`usb_prl_sm.c:2083`); a duplicate cached across a soft reset is delivered again; the
  result of `tcpm_transmit` is ignored (`usb_prl_sm.c:1122`).

## 7. Plan

Done: `TaskApi` and `EcTask`, `EcTimer`, `EcHooks`, `TaskResetApi` and `EcTaskReset`,
`MkbpQueue` and `Mkbp`, `HostCommand`, `MinVersion` and `Rollback`, `VbootHash`, `Prl`, all
with proofs.

Next, most important first:

1. `Mkbp`: liveness of HOSTCMD against a preempted adder; wake masks.
2. `Prl`: hard reset, and two ports of the same code facing each other.
3. `EcWait`: the wait loop with times of small width (wrap of the remaining
   time).
4. `Queue` operators against sequences, for small widths of the indices.
