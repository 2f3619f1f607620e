----------------------------- MODULE Rollback -----------------------------
(***************************************************************************)
(* Rollback protection (common/rollback.c) and its use by verified boot    *)
(* (common/rwsig.c).  Two flash regions hold the minimum version and the   *)
(* device secret; the valid one with the highest id counts, an update goes *)
(* to the other one.  Nothing locks the regions: the update is a sequence  *)
(* of flash accesses between which other tasks run (the erase and          *)
(* board_get_entropy may sleep), flash operations fail and power is lost.  *)
(*                                                                         *)
(* rwsig_task checks the RW image once after a reset and, if nothing tells *)
(* it to abort, jumps to it after a while.  The host may write or erase RW *)
(* meanwhile, or jump to it by a command of its own.                       *)
(*                                                                         *)
(* A secret is the set of entropies hashed into it.                        *)
(***************************************************************************)
EXTENDS Integers

CONSTANTS
  Updaters,               \* tasks of RO that update: RWSIG, HOOKS, CONSOLE
  Readers,                \* tasks that read the version or the secret
  CONFIG_ROLLBACK_VERSION,
  CONFIG_ROLLBACK_MPU_PROTECT,  \* erase and write with interrupts disabled
  CONFIG_VBOOT_HASH,      \* a hash of the flash may be in progress
  MaxVersion,             \* bound: versions of RW images
  MaxEntropies            \* bound: entropies provided

Tasks == Updaters \union Readers
Regions == {0, 1}
Versions == 0 .. MaxVersion
Entropies == 1 .. MaxEntropies
NoEntropy == 0
NoVersion == -1           \* of an RW image that is erased
Images == Versions \union {NoVersion}

ASSUME RollbackAssumption ==
  /\ MaxVersion \in Nat /\ MaxEntropies \in Nat
  /\ CONFIG_ROLLBACK_VERSION \in Versions
  /\ CONFIG_ROLLBACK_MPU_PROTECT \in BOOLEAN /\ CONFIG_VBOOT_HASH \in BOOLEAN

\* struct rollback_data; valid: it has the cookie.
Torn == 0
Data == [id : Int, version : Int, secret : SUBSET (Entropies \union {Torn}), valid : BOOLEAN]
Invalid(id, version) == [id |-> id, version |-> version, secret |-> {}, valid |-> FALSE]
Blank == Invalid(-1, -1)

VARIABLES
  flash,                  \* contents of the regions
  image,                  \* "RO" or "RW"
  rwVersion,              \* version of the RW image in the flash
  protected,              \* "rollback": EC_FLASH_PROTECT_ROLLBACK_NOW, "all":
                          \* EC_FLASH_PROTECT_ALL_NOW, "none"
  locked,                 \* system_is_locked(): no console commands
  rwsig_status,           \* rwsig_task: "unknown", "in_progress", "valid" and
                          \* waiting, "jumping", "done" and yielding forever
  abort,                  \* TASK_EVENT_ABORT is pending for rwsig_task
  disable_jump,           \* set by system_disable_jump
  pc, op, best, data,     \* per task: step, its call, region, local copy
  entropies,              \* number of entropies provided
  seen, touched,          \* history, since a task's call: what was in force,
                          \* the updates that have been at the flash
  added, wiped,           \* history: entropies reported as added; first
                          \* entropy of each reset of the secret reported
  gap                     \* history: how an RW image that was not checked
                          \* may come to run or has, or "none"

platform == <<image, rwVersion, protected, locked>>
boot == <<platform, rwsig_status, abort, disable_jump, gap>>
locals == <<op, best, data>>
overlap == <<seen, touched>>
history == <<added, wiped>>
vars == <<flash, boot, pc, locals, entropies, overlap, history>>

\* A call: the arguments of rollback_update; for a reset of the secret, the
\* entropy it began with and the number of updates left.
PlainOp(kind, next) ==
  [kind |-> kind, next |-> next, entropy |-> NoEntropy, first |-> NoEntropy, repeat |-> 0]
AddOp(kind, entropy, first, repeat) ==
  [kind |-> kind, next |-> -1, entropy |-> entropy, first |-> first, repeat |-> repeat]
NoOp == PlainOp("none", -1)

\* The image's .image.ROLLBACK section is region 0 with id 0.
Init ==
  /\ flash = [r \in Regions |->
       IF r = 0 THEN [id |-> 0, version |-> CONFIG_ROLLBACK_VERSION, secret |-> {}, valid |-> TRUE]
                ELSE Blank]
  /\ image = "RO" /\ rwVersion \in Images
  /\ protected \in {"none", "rollback", "all"} /\ locked \in BOOLEAN
  /\ rwsig_status = "unknown" /\ abort = FALSE /\ disable_jump = FALSE
  /\ pc = [p \in Tasks |-> "idle"] /\ op = [p \in Tasks |-> NoOp]
  /\ best = [p \in Tasks |-> -1] /\ data = [p \in Tasks |-> Blank]
  /\ entropies = 0
  /\ seen = [p \in Tasks |-> {}] /\ touched = [p \in Tasks |-> 0]
  /\ added = {} /\ wiped = {} /\ gap = "none"

\* The region that get_latest_rollback finds when it is left alone.
Newest(r) ==
  /\ flash[r].valid
  /\ \A s \in Regions \ {r} : flash[s].valid => flash[s].id < flash[r].id

Current == IF \E r \in Regions : Newest(r)
           THEN flash[CHOOSE r \in Regions : Newest(r)] ELSE Blank
Visible(d) == <<d.version, d.secret>>

\* With the MPU, no other task runs between an erase and its write.
InWrite(p) == pc[p] \in {"write", "cookie"}
MayRun(p) ==
  CONFIG_ROLLBACK_MPU_PROTECT => \A q \in Tasks \ {p} : ~InWrite(q)
OthersMayRun == CONFIG_ROLLBACK_MPU_PROTECT => \A q \in Tasks : ~InWrite(q)

Goto(p, step) == pc' = [pc EXCEPT ![p] = step]

\* What the calls under way may see after a change of the regions.
Ended == {"idle", "success", "error"}
Observe(begins) ==
  /\ seen' = [p \in Tasks |-> IF pc'[p] \in Ended THEN {} ELSE seen[p] \union {Visible(Current')}]
  /\ touched' = [p \in Tasks |-> IF pc'[p] \in Ended THEN 0
       ELSE IF begins /\ touched[p] < 2 THEN touched[p] + 1 ELSE touched[p]]

\* The copy is cleared when the call comes to its end.
Clear(p) ==
  /\ best' = [best EXCEPT ![p] = -1]
  /\ data' = [data EXCEPT ![p] = Blank]

Finish(p, step) ==
  /\ Goto(p, step) /\ Clear(p)
  /\ seen' = [seen EXCEPT ![p] = {}]
  /\ touched' = [touched EXCEPT ![p] = 0]
  /\ UNCHANGED op

\* Start of a call that begins with get_latest_rollback.
Call(p, o) ==
  /\ op' = [op EXCEPT ![p] = o]
  /\ Goto(p, "scan0") /\ Clear(p)
  /\ seen' = [seen EXCEPT ![p] = {Visible(Current)}]
  /\ touched' = [touched EXCEPT ![p] = IF \E q \in Updaters : InWrite(q) THEN 1 ELSE 0]

-----------------------------------------------------------------------------
(***************************************************************************)
(* The calls.                                                              *)
(***************************************************************************)
rollback_get_minimum_version(p) ==
  /\ p \in Readers /\ pc[p] = "idle" /\ MayRun(p)
  /\ Call(p, PlainOp("get", -1))
  /\ UNCHANGED <<flash, boot, entropies, history>>

\* A command of the console, which is restricted when the system is locked.
rollback_update_version(p) ==
  /\ p \in Updaters /\ pc[p] = "idle" /\ MayRun(p)
  /\ image = "RO" /\ ~locked /\ protected = "none"
  /\ \E version \in Versions : Call(p, PlainOp("version", version))
  /\ UNCHANGED <<flash, boot, entropies, history>>

\* Mutant: resetting the secret adds entropy once.
AddOnce(p) ==
  /\ p \in Updaters /\ pc[p] = "idle" /\ MayRun(p)
  /\ image = "RO" /\ protected = "none" /\ entropies < MaxEntropies
  /\ \E kind \in {"entropy", "reset"} : Call(p, AddOp(kind, entropies + 1, entropies + 1, 1))
  /\ entropies' = entropies + 1
  /\ UNCHANGED <<flash, boot, history>>

\* A reset of the secret repeats, so that both regions are rewritten.
add_entropy(p) ==
  /\ p \in Updaters /\ pc[p] = "idle" /\ MayRun(p)
  /\ image = "RO" /\ protected = "none"
  /\ \E kind \in {"entropy", "reset"} :
       LET repeat == IF kind = "reset" THEN 2 ELSE 1 IN
       /\ entropies + repeat <= MaxEntropies
       /\ entropies' = entropies + repeat
       /\ Call(p, AddOp(kind, entropies + 1, entropies + 1, repeat))
  /\ UNCHANGED <<flash, boot, history>>

\* Of rwsig_task, once after a reset.  The version of RW is read first, and
\* compared with the minimum version at the end of the call that begins here.
rwsig_check_signature(p) ==
  /\ p \in Updaters /\ pc[p] = "idle" /\ MayRun(p)
  /\ image = "RO" /\ rwsig_status = "unknown"
  /\ rwsig_status' = "in_progress"
  /\ Call(p, PlainOp("check", rwVersion))
  /\ UNCHANGED <<flash, platform, abort, disable_jump, gap, entropies, history>>

-----------------------------------------------------------------------------
(***************************************************************************)
(* get_latest_rollback: three reads, of which the last one is not checked. *)
(***************************************************************************)
\* Mutant: the cookie is not looked at.
ScanAny(p, region, step) ==
  /\ MayRun(p)
  /\ IF flash[region].id > data[p].id
     THEN /\ best' = [best EXCEPT ![p] = region]
          /\ data' = [data EXCEPT ![p] = flash[region]]
     ELSE UNCHANGED <<best, data>>
  /\ Goto(p, step)
  /\ UNCHANGED <<flash, boot, op, entropies, overlap, history>>

Scan(p, region, step) ==
  /\ MayRun(p)
  /\ IF flash[region].valid /\ flash[region].id > data[p].id
     THEN /\ best' = [best EXCEPT ![p] = region]
          /\ data' = [data EXCEPT ![p] = flash[region]]
     ELSE UNCHANGED <<best, data>>
  /\ Goto(p, step)
  /\ UNCHANGED <<flash, boot, op, entropies, overlap, history>>

read_region(p) ==
  \/ pc[p] = "scan0" /\ Scan(p, 0, "scan1")
  \/ pc[p] = "scan1" /\ Scan(p, 1, "fetch")

\* No valid region: only the secret is cleared, the rest of the caller's
\* structure keeps what was on its stack.
read_latest(p) ==
  /\ pc[p] = "fetch" /\ MayRun(p)
  /\ IF best[p] # -1
     THEN data' = [data EXCEPT ![p] = flash[best[p]]] /\ UNCHANGED best
     ELSE /\ best' = [best EXCEPT ![p] = 0]
          /\ \E i \in -1 .. 1, v \in -1 .. MaxVersion :
               data' = [data EXCEPT ![p] = Invalid(i, v)]
  /\ Goto(p, "decide")
  /\ UNCHANGED <<flash, boot, op, entropies, overlap, history>>

read_fails(p) ==
  /\ pc[p] \in {"scan0", "scan1", "fetch"} /\ MayRun(p)
  /\ Finish(p, "error")
  /\ UNCHANGED <<flash, boot, entropies, history>>

-----------------------------------------------------------------------------
(***************************************************************************)
(* rollback_update.                                                        *)
(***************************************************************************)
IsUpdate(p) == op[p].kind \in {"version", "entropy", "reset", "rwsig"}

\* Without entropy: do not decrease; no need to update if it is correct.
update_refused(p) ==
  /\ pc[p] = "decide" /\ IsUpdate(p) /\ MayRun(p)
  /\ op[p].entropy = NoEntropy /\ op[p].next <= data[p].version
  /\ Finish(p, IF op[p].next = data[p].version THEN "success" ELSE "error")
  /\ UNCHANGED <<flash, boot, entropies, history>>

\* The block that an update writes.
Updated(d, o) ==
  [id |-> d.id + 1,
   version |-> IF o.next < d.version THEN d.version ELSE o.next,
   secret |-> d.secret \union ({o.entropy} \ {NoEntropy}),
   valid |-> TRUE]

\* An update that is not refused writes data to a region.
Prepare(p, d, region) ==
  /\ pc[p] = "decide" /\ IsUpdate(p) /\ MayRun(p)
  /\ op[p].entropy # NoEntropy \/ op[p].next > data[p].version
  /\ data' = [data EXCEPT ![p] = d]
  /\ best' = [best EXCEPT ![p] = region]
  /\ Goto(p, "erase")
  /\ UNCHANGED <<flash, boot, op, entropies, overlap, history>>

\* Mutant: the secret is not written back with a new version.
UpdateDropsSecret(p) ==
  Prepare(p, IF op[p].entropy = NoEntropy
             THEN [Updated(data[p], op[p]) EXCEPT !.secret = {}]
             ELSE Updated(data[p], op[p]), 1 - best[p])

\* Mutant: the region after the last one is not the first.
UpdateNextRegion(p) == Prepare(p, Updated(data[p], op[p]), best[p] + 1)

\* Mutant: the update goes to the region that is in force.
UpdateSameRegion(p) == Prepare(p, Updated(data[p], op[p]), best[p])

update_prepare(p) == Prepare(p, Updated(data[p], op[p]), 1 - best[p])

add_entropy_fails(p) ==
  /\ pc[p] = "decide" /\ op[p].entropy # NoEntropy /\ MayRun(p)
  /\ Finish(p, "error")
  /\ UNCHANGED <<flash, boot, entropies, history>>

erase(p) ==
  /\ pc[p] = "erase" /\ MayRun(p)
  /\ flash' = [flash EXCEPT ![best[p]] = Blank]
  /\ Goto(p, "write")
  /\ Observe(TRUE)
  /\ UNCHANGED <<boot, locals, entropies, history>>

\* A failed erase leaves the region as it was or erased.
erase_fails(p) ==
  /\ pc[p] = "erase" /\ MayRun(p)
  /\ flash' \in {flash, [flash EXCEPT ![best[p]] = Blank]}
  /\ Goto(p, "error") /\ Clear(p)
  /\ Observe(TRUE)
  /\ UNCHANGED <<boot, op, entropies, history>>

\* The structure is written from its start, the cookie is its last word.
write(p) ==
  /\ pc[p] = "write"
  /\ flash' = [flash EXCEPT ![best[p]] =
       [data[p] EXCEPT !.secret = @ \union {Torn}, !.valid = FALSE]]
  /\ Goto(p, "cookie")
  /\ Observe(FALSE)
  /\ UNCHANGED <<boot, locals, entropies, history>>

write_cookie(p) ==
  /\ pc[p] = "cookie"
  /\ flash' = [flash EXCEPT ![best[p]] = data[p]]
  /\ Goto(p, "success") /\ Clear(p)
  /\ Observe(FALSE)
  /\ UNCHANGED <<boot, op, entropies, history>>

write_fails(p) ==
  /\ InWrite(p)
  /\ Finish(p, "error")
  /\ UNCHANGED <<flash, boot, entropies, history>>

-----------------------------------------------------------------------------
(***************************************************************************)
(* What the callers do with the result.                                    *)
(***************************************************************************)
Return(p) ==
  /\ Goto(p, "idle") /\ Clear(p)
  /\ op' = [op EXCEPT ![p] = NoOp]
  /\ seen' = [seen EXCEPT ![p] = {}]
  /\ touched' = [touched EXCEPT ![p] = 0]

get_returns(p) ==
  /\ op[p].kind = "get" /\ pc[p] \in {"decide", "error"} /\ MayRun(p)
  /\ Return(p)
  /\ UNCHANGED <<flash, boot, entropies, history>>

update_fails(p) ==
  /\ IsUpdate(p) /\ pc[p] = "error" /\ MayRun(p)
  /\ Return(p)
  /\ UNCHANGED <<flash, boot, entropies, history>>

update_succeeds(p) ==
  /\ op[p].kind = "version" /\ pc[p] = "success" /\ MayRun(p)
  /\ Return(p)
  /\ UNCHANGED <<flash, boot, entropies, history>>

\* The loop of add_entropy_deferred: other entropy for the other region.
add_entropy_repeat(p) ==
  /\ op[p].kind = "reset" /\ op[p].repeat > 1
  /\ pc[p] = "success" /\ MayRun(p)
  /\ Call(p, AddOp("reset", op[p].entropy + 1, op[p].first, 1))
  /\ UNCHANGED <<flash, boot, entropies, history>>

add_entropy_done(p) ==
  /\ op[p].kind \in {"entropy", "reset"} /\ op[p].repeat <= 1
  /\ pc[p] = "success" /\ MayRun(p)
  /\ added' = added \union {op[p].entropy}
  /\ wiped' = IF op[p].kind = "reset" THEN wiped \union {op[p].first} ELSE wiped
  /\ Return(p)
  /\ UNCHANGED <<flash, boot, entropies>>

\* rwsig_check_signature has the minimum version.  A failure of the update
\* other than EC_ERROR_ACCESS_DENIED fails the check.
rwsig_reject(p) ==
  /\ op[p].kind \in {"check", "rwsig"} /\ MayRun(p)
  /\ pc[p] = "error" \/ (pc[p] = "decide" /\ op[p].kind = "check")
  /\ rwsig_status' = "done" /\ abort' = FALSE
  /\ disable_jump' = (disable_jump \/ locked)
  /\ gap' = "none"
  /\ Return(p)
  /\ UNCHANGED <<flash, platform, entropies, history>>

\* The signature is good.  No update if the version is the same, the block is
\* protected, or (CONFIG_FLASH_PROTECT_RW) the system is locked and RW is not.
Accept(p) ==
  /\ op[p].kind = "check" /\ pc[p] = "decide" /\ MayRun(p)
  /\ \/ /\ op[p].next = data[p].version \/ protected # "none" \/ locked
        /\ Finish(p, "success")
     \/ /\ op[p].next # data[p].version /\ protected = "none"
        /\ Call(p, PlainOp("rwsig", op[p].next))
  /\ UNCHANGED <<flash, boot, entropies, history>>

rwsig_accept(p) ==
  /\ data[p].version >= 0 /\ op[p].next >= data[p].version
  /\ Accept(p)

rwsig_verified(p) ==
  /\ op[p].kind \in {"check", "rwsig"} /\ pc[p] = "success" /\ MayRun(p)
  /\ rwsig_status' = "valid"
  /\ Return(p)
  /\ UNCHANGED <<flash, platform, abort, disable_jump, gap, entropies, history>>

-----------------------------------------------------------------------------
(***************************************************************************)
(* The jump of rwsig_task, and the host commands that get in its way.      *)
(***************************************************************************)
tasks == <<pc, locals, overlap>>

\* Whatever the tasks are at ends here.
Restart(copy, status) ==
  /\ image' = copy /\ rwsig_status' = status
  /\ abort' = FALSE /\ disable_jump' = FALSE
  /\ pc' = [p \in Tasks |-> "idle"] /\ op' = [p \in Tasks |-> NoOp]
  /\ best' = [p \in Tasks |-> -1] /\ data' = [p \in Tasks |-> Blank]
  /\ seen' = [p \in Tasks |-> {}] /\ touched' = [p \in Tasks |-> 0]

\* The wait ends with the timer, or with an event of the host: rwsig_continue
\* or rwsig_abort.  More than one of them at a time aborts.
rwsig_wait_ends ==
  /\ rwsig_status = "valid" /\ OthersMayRun
  /\ rwsig_status' \in IF abort THEN {"done"} ELSE {"jumping", "done"}
  /\ abort' = FALSE
  /\ gap' = IF rwsig_status' = "done" THEN "none" ELSE gap
  /\ UNCHANGED <<flash, platform, disable_jump, tasks, entropies, history>>

\* A system that is locked boots to RW only if all flash is protected.
MayJump == locked => protected' = "all" /\ ~disable_jump

rwsig_jump_now ==
  /\ rwsig_status = "jumping" /\ OthersMayRun
  /\ protected' \in {protected, "all"} /\ MayJump
  /\ Restart("RW", "done")
  /\ UNCHANGED <<flash, rwVersion, locked, gap, entropies, history>>

\* If the reboot that rwsig_jump_now may ask for comes next, it is a reset.
rwsig_jump_denied ==
  /\ rwsig_status = "jumping" /\ OthersMayRun
  /\ protected' \in {protected, "all"} /\ ~MayJump
  /\ rwsig_status' = "done" /\ abort' = FALSE /\ gap' = "none"
  /\ UNCHANGED <<flash, image, rwVersion, locked, disable_jump, tasks, entropies, history>>

Note(way) == gap' = IF locked THEN way ELSE "none"

\* What tells rwsig_task to abort is pending until its wait has ended.
Abort == abort' = (rwsig_status \in {"unknown", "in_progress", "valid"})

\* The host command EC_CMD_RWSIG_ACTION.
rwsig_abort ==
  /\ image = "RO" /\ rwsig_status \notin {"jumping", "done"} /\ OthersMayRun
  /\ Abort /\ gap' = "none"
  /\ UNCHANGED <<flash, platform, rwsig_status, disable_jump, tasks, entropies, history>>

\* RW is written or erased, and rwsig_task told to abort.
RwChanges(versions) ==
  /\ image = "RO" /\ protected # "all" /\ OthersMayRun
  /\ rwVersion' \in versions
  /\ UNCHANGED <<flash, image, protected, locked, rwsig_status, disable_jump, tasks,
                 entropies, history>>

ChangeRw(versions) ==
  /\ RwChanges(versions)
  /\ Abort
  /\ IF rwsig_status = "jumping" THEN Note("late") ELSE gap' = "none"

\* It is not told by a write that finds a hash in progress.
ChangeRwInHash(versions) ==
  /\ CONFIG_VBOOT_HASH
  /\ RwChanges(versions)
  /\ UNCHANGED abort
  /\ CASE rwsig_status = "jumping" -> Note("late")
       [] rwsig_status \in {"in_progress", "valid"} /\ ~abort -> Note("hash")
       [] OTHER -> gap' = "none"

\* Mutant: a write does not abort the jump.
WriteNoAbort ==
  /\ RwChanges(Versions)
  /\ UNCHANGED <<abort, gap>>

flash_command_write == ChangeRw(Versions) \/ ChangeRwInHash(Versions)
flash_command_erase == ChangeRw({NoVersion}) \/ ChangeRwInHash({NoVersion})

\* EC_REBOOT_JUMP_RW: nothing asks whether the image has been checked.
reboot_jump_rw ==
  /\ image = "RO" /\ OthersMayRun
  /\ locked => ~disable_jump
  /\ Note("jump_rw")
  /\ Restart("RW", "done")
  /\ UNCHANGED <<flash, rwVersion, protected, locked, entropies, history>>

\* EC_REBOOT_JUMP_RO: to stay there.
reboot_jump_ro ==
  /\ image = "RW" /\ ~locked /\ OthersMayRun
  /\ Restart("RO", "done")
  /\ UNCHANGED <<flash, rwVersion, protected, locked, gap, entropies, history>>

\* A reset or a loss of power at any moment.  The protection for this boot may
\* have been set or cleared, and the write protection that locks the system.
\* With EC_RESET_FLAG_STAY_IN_RO the check is one that does not come.
reset ==
  /\ Restart("RO", "unknown")
  /\ gap' = "none"
  /\ protected' \in {"none", "rollback", "all"} /\ locked' \in BOOLEAN
  /\ UNCHANGED <<flash, rwVersion, entropies, history>>

-----------------------------------------------------------------------------
TaskNext(p) ==
  \/ rollback_get_minimum_version(p) \/ rollback_update_version(p)
  \/ add_entropy(p) \/ rwsig_check_signature(p)
  \/ read_region(p) \/ read_latest(p) \/ read_fails(p)
  \/ update_refused(p) \/ update_prepare(p) \/ add_entropy_fails(p)
  \/ erase(p) \/ erase_fails(p)
  \/ write(p) \/ write_cookie(p) \/ write_fails(p)
  \/ get_returns(p) \/ update_fails(p) \/ update_succeeds(p)
  \/ add_entropy_repeat(p) \/ add_entropy_done(p)
  \/ rwsig_reject(p) \/ rwsig_accept(p) \/ rwsig_verified(p)

\* These leave the tasks and the regions alone.
HostNext ==
  \/ rwsig_wait_ends \/ rwsig_jump_denied \/ rwsig_abort
  \/ flash_command_write \/ flash_command_erase

RestartNext == reset \/ rwsig_jump_now \/ reboot_jump_rw \/ reboot_jump_ro

Next == RestartNext \/ HostNext \/ \E p \in Tasks : TaskNext(p)

Spec == Init /\ [][Next]_vars

-----------------------------------------------------------------------------
(***************************************************************************)
(* Properties.  All but NeverDecreased are about one updater at a time.    *)
(***************************************************************************)
SingleUpdater == \A p, q \in Updaters : p = q

Ops == [kind : {"none", "get", "version", "entropy", "reset", "check", "rwsig"},
        next : -1 .. MaxVersion, entropy : {NoEntropy} \union Entropies,
        first : {NoEntropy} \union Entropies, repeat : 0 .. 2]
Steps == {"idle", "scan0", "scan1", "fetch", "decide", "erase", "write", "cookie",
          "success", "error"}

\* Types of the state of rollback.c and rwsig.c.
TypeOK ==
  /\ flash \in [Regions -> Data]
  /\ image \in {"RO", "RW"} /\ rwVersion \in Images
  /\ protected \in {"none", "rollback", "all"} /\ locked \in BOOLEAN
  /\ rwsig_status \in {"unknown", "in_progress", "valid", "jumping", "done"}
  /\ abort \in BOOLEAN /\ disable_jump \in BOOLEAN
  /\ gap \in {"none", "hash", "late", "jump_rw"}
  /\ pc \in [Tasks -> Steps] /\ op \in [Tasks -> Ops]
  /\ best \in [Tasks -> -1 .. 1] /\ data \in [Tasks -> Data]
  /\ entropies \in 0 .. MaxEntropies
  /\ touched \in [Tasks -> 0 .. 2]
  /\ added \subseteq Entropies /\ wiped \subseteq Entropies

\* The regions implement one version that is only raised and one secret that
\* is only added to, although each change is several flash operations any of
\* which may fail or be the last one before a reset (rollback_update,
\* rollback.c:254-352).
Min == INSTANCE MinVersion WITH
  InitialVersion <- CONFIG_ROLLBACK_VERSION,
  minimum <- Current.version, secret <- Current.secret
ImplementsMinVersion == Min!Spec

\* Entropy that rollback_add_entropy reported as added is in the secret from
\* then on, also after resets, failed updates and updates of the version
\* (rollback.c:313-323: the secret is written back to the other region).
EntropyKept == added \subseteq Current.secret

\* Once a reset of the secret is reported as done, no valid region has a
\* secret from before: both have been rewritten (add_entropy_deferred,
\* rollback.c:413-437).
OldSecretGone == \A r \in Regions : flash[r].valid => wiped \subseteq flash[r].secret

\* With the console restricted, rwsig_task brings no image to run that is
\* older than the minimum version in force, although the host may write RW
\* during the check and the wait for the jump (rwsig_task, rwsig.c:275-290;
\* flash_abort_or_invalidate_hash, flash.c:765-778).  Three ways around the
\* check are excepted by name: "hash", RW was written while a hash was in
\* progress, and rwsig_task not told (flash.c:745-749); "late", it was written
\* between the end of the wait and the protection of the flash; "jump_rw",
\* the host commands the jump itself (system.c:1037-1038).
RwNotOlder == locked /\ image = "RW" /\ gap = "none" => rwVersion >= Current.version

\* The comment of flash_abort_or_invalidate_hash: "If RW flash has been
\* written to, make sure we do not automatically jump to RW after the
\* timeout." (flash.c:766-767).
NoJumpAfterWrite == image = "RW" => gap \in {"none", "jump_rw"}

\* RwNotOlder without its exceptions, which EC_REBOOT_JUMP_RW refutes.
NeverOlder == locked /\ image = "RW" => rwVersion >= Current.version

\* get_latest_rollback reads a region again after it has chosen it: what it
\* gives is what was in force at some moment of the call, unless two updates
\* were at the flash meanwhile (rollback.c:114-148).
ReadCoherent ==
  \A p \in Tasks : pc[p] = "decide" /\ touched[p] < 2 => Visible(data[p]) \in seen[p]

\* The comment of rollback_update: "Do not accept to decrease the value."
\* (rollback.c:286 and 292), here for tasks that update at the same time.
NeverDecreased == [][Current'.version >= Current.version]_vars
=============================================================================
