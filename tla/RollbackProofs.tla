-------------------------- MODULE RollbackProofs --------------------------
(***************************************************************************)
(* Theorems of Rollback, for every number of versions, entropies and       *)
(* readers, with and without the MPU: if one task updates at a time, every *)
(* failure and every reset leaves the promises of MinVersion intact.       *)
(***************************************************************************)
EXTENDS Rollback, TLAPS

Adds(p) == op[p].kind \in {"entropy", "reset"}
InErase(p) == pc[p] \in {"erase", "write", "cookie"}
Checks(p) == op[p].kind \in {"check", "rwsig"}

(***************************************************************************)
(* The inductive invariant.                                                *)
(***************************************************************************)
\* There is always a newest region; ids and versions of valid ones are sane.
RegionsOK ==
  /\ \E r \in Regions : Newest(r)
  /\ \A r \in Regions : flash[r].valid => flash[r].id \in Nat /\ flash[r].version \in Versions

\* The arguments of a call fit its kind.
OpOK(p) ==
  /\ Adds(p) => op[p].entropy \in Entropies /\ op[p].first \in Entropies /\ op[p].next = -1
  /\ ~Adds(p) => op[p].entropy = NoEntropy
  /\ op[p].kind \in {"version", "rwsig"} => op[p].next \in Versions
  /\ Checks(p) => rwsig_status = "in_progress" /\ image = "RO"
  /\ Checks(p) /\ locked /\ ~abort /\ gap = "none" => op[p].next = rwVersion
  /\ op[p].kind = "version" => ~locked
  /\ op[p].kind = "reset" /\ op[p].repeat > 1 =>
       op[p].entropy = op[p].first /\ op[p].entropy + 1 \in Entropies
  /\ InErase(p) => IsUpdate(p)
  /\ pc[p] = "decide" \/ InErase(p) => best[p] \in Regions
  /\ p \notin Updaters => op[p].kind \in {"none", "get"}

\* What the updater has read, chosen and prepared is about the regions as
\* they are.
StepOK(p) ==
  /\ pc[p] = "scan0" => best[p] = -1 /\ data[p] = Blank
  /\ pc[p] = "scan1" => IF flash[0].valid THEN best[p] = 0 /\ data[p] = flash[0]
                                          ELSE best[p] = -1 /\ data[p] = Blank
  /\ pc[p] \in {"fetch", "decide"} => best[p] \in Regions /\ Newest(best[p])
  /\ pc[p] = "decide" => data[p] = flash[best[p]]
  /\ InErase(p) =>
       /\ best[p] \in Regions /\ Newest(1 - best[p])
       /\ data[p] = Updated(flash[1 - best[p]], op[p])
       /\ op[p].entropy # NoEntropy \/ op[p].next > flash[1 - best[p]].version
  /\ InWrite(p) => ~flash[best[p]].valid

\* What a call may report when it is done.
ResultOK(p) ==
  /\ op[p].kind = "reset" /\ op[p].repeat <= 1 => op[p].first \in Current.secret
  /\ pc[p] = "success" =>
       /\ Adds(p) => op[p].entropy \in Current.secret
       /\ op[p].kind = "reset" /\ op[p].repeat <= 1 =>
            \A r \in Regions : flash[r].valid => op[p].first \in flash[r].secret
       /\ Checks(p) /\ locked => op[p].next >= Current.version

\* rwsig_task is to jump, or has.
Verified == \/ rwsig_status = "valid" /\ ~abort
            \/ rwsig_status = "jumping" \/ image = "RW"

\* What has been reported.
ReportedOK ==
  /\ EntropyKept /\ OldSecretGone
  /\ image = "RW" => rwsig_status = "done"
  /\ locked /\ gap = "none" /\ Verified => rwVersion >= Current.version

IInv ==
  /\ TypeOK /\ RegionsOK
  /\ \A p \in Tasks : OpOK(p)
  /\ \A p \in Updaters : StepOK(p) /\ ResultOK(p)
  /\ ReportedOK

-----------------------------------------------------------------------------
(***************************************************************************)
(* The newest region, and what stays as it is with it.                     *)
(***************************************************************************)
\* Newest, without its quantifier.
LEMMA NewestDef ==
  ASSUME NEW r \in Regions
  PROVE  Newest(r) <=> /\ flash[r].valid
                       /\ flash[1 - r].valid => flash[1 - r].id < flash[r].id
BY DEF Newest, Regions

\* The same of the next state.
LEMMA NewestDefNext ==
  ASSUME NEW r \in Regions
  PROVE  Newest(r)' <=> /\ flash'[r].valid
                        /\ flash'[1 - r].valid => flash'[1 - r].id < flash'[r].id
BY DEF Newest, Regions

\* The newest region is unique, and in force.
LEMMA CurrentIs ==
  ASSUME TypeOK, NEW r \in Regions, Newest(r)
  PROVE  Current = flash[r]
<1>1. \A s \in Regions : Newest(s) => s = r
  BY NewestDef DEF TypeOK, Data, Regions
<1> QED BY <1>1 DEF Current

\* The same of the next state.
LEMMA CurrentIsNext ==
  ASSUME TypeOK', NEW r \in Regions, Newest(r)'
  PROVE  Current' = flash'[r]
<1>1. \A s \in Regions : Newest(s)' => s = r
  BY NewestDefNext DEF TypeOK, Data, Regions
<1> QED BY <1>1 DEF Current

\* Most steps leave the flash alone.
LEMMA SameFlash ==
  ASSUME flash' = flash
  PROVE  Current' = Current /\ \A r \in Regions : Newest(r)' <=> Newest(r)
BY DEF Current, Newest

-----------------------------------------------------------------------------
(***************************************************************************)
(* Types.                                                                  *)
(***************************************************************************)
LEMMA OpTypes ==
  /\ NoOp \in Ops /\ PlainOp("get", -1) \in Ops
  /\ \A version \in Images : PlainOp("check", version) \in Ops
  /\ \A kind \in {"version", "rwsig"}, next \in Versions : PlainOp(kind, next) \in Ops
  /\ \A kind \in {"entropy", "reset"}, e, f \in Entropies, n \in 1 .. 2 : AddOp(kind, e, f, n) \in Ops
BY RollbackAssumption DEF NoOp, PlainOp, AddOp, Ops, NoEntropy, Versions, Images,
   NoVersion

\* Where a call of get_latest_rollback starts, and where calls end.
LEMMA CallType ==
  ASSUME TypeOK, NEW p \in Tasks, NEW o \in Ops, Call(p, o)
  PROVE  /\ op' \in [Tasks -> Ops] /\ pc' \in [Tasks -> Steps]
         /\ best' \in [Tasks -> -1 .. 1] /\ data' \in [Tasks -> Data]
         /\ touched' \in [Tasks -> 0 .. 2]
BY DEF TypeOK, Call, Goto, Clear, Steps, Blank, Invalid, Data

\* A return keeps the types of the locals.
LEMMA ReturnType ==
  ASSUME TypeOK, NEW p \in Tasks, Return(p)
  PROVE  /\ op' \in [Tasks -> Ops] /\ pc' \in [Tasks -> Steps]
         /\ best' \in [Tasks -> -1 .. 1] /\ data' \in [Tasks -> Data]
         /\ touched' \in [Tasks -> 0 .. 2]
BY OpTypes DEF TypeOK, Return, Goto, Clear, Steps, Blank, Invalid, Data

\* So does the end of an access to the regions.
LEMMA FinishType ==
  ASSUME TypeOK, NEW p \in Tasks, NEW step \in Steps, Finish(p, step)
  PROVE  /\ op' \in [Tasks -> Ops] /\ pc' \in [Tasks -> Steps]
         /\ best' \in [Tasks -> -1 .. 1] /\ data' \in [Tasks -> Data]
         /\ touched' \in [Tasks -> 0 .. 2]
BY DEF TypeOK, Finish, Goto, Clear, Steps, Blank, Invalid, Data

\* Restarts and host commands keep the types of the platform.
LEMMA PlatformType ==
  ASSUME TypeOK, RestartNext \/ HostNext
  PROVE  /\ image' \in {"RO", "RW"} /\ rwVersion' \in Images
         /\ protected' \in {"none", "rollback", "all"} /\ locked' \in BOOLEAN
         /\ rwsig_status' \in {"unknown", "in_progress", "valid", "jumping", "done"}
         /\ abort' \in BOOLEAN /\ disable_jump' \in BOOLEAN
         /\ gap' \in {"none", "hash", "late", "jump_rw"}
<1> USE DEF TypeOK, platform
<1>1. CASE reset \/ rwsig_jump_now
  BY <1>1 DEF reset, rwsig_jump_now, Restart
<1>2. CASE reboot_jump_rw \/ reboot_jump_ro
  BY <1>2 DEF reboot_jump_rw, reboot_jump_ro, Restart, Note
<1>3. CASE rwsig_wait_ends \/ rwsig_jump_denied \/ rwsig_abort
  BY <1>3 DEF rwsig_wait_ends, rwsig_jump_denied, rwsig_abort, Abort
<1>4. ASSUME NEW versions \in SUBSET Images, ChangeRw(versions)
      PROVE  /\ image' = image /\ rwVersion' \in Images /\ protected' = protected
             /\ locked' = locked /\ rwsig_status' = rwsig_status /\ abort' \in BOOLEAN
             /\ disable_jump' = disable_jump /\ gap' \in {"none", "late"}
  BY <1>4 DEF ChangeRw, RwChanges, Abort, Note
<1>5. ASSUME NEW versions \in SUBSET Images, ChangeRwInHash(versions)
      PROVE  /\ image' = image /\ rwVersion' \in Images /\ protected' = protected
             /\ locked' = locked /\ rwsig_status' = rwsig_status /\ abort' = abort
             /\ disable_jump' = disable_jump /\ gap' \in {"none", "hash", "late"}
  BY <1>5 DEF ChangeRwInHash, RwChanges, Note
<1>6. Versions \in SUBSET Images /\ {NoVersion} \in SUBSET Images
  BY DEF Images
<1> QED BY <1>1, <1>2, <1>3, <1>4, <1>5, <1>6 DEF RestartNext, HostNext, flash_command_write,
           flash_command_erase

\* Whatever the tasks are at ends with a restart.
LEMMA RestartStep ==
  ASSUME RestartNext
  PROVE  /\ pc' = [q \in Tasks |-> "idle"] /\ op' = [q \in Tasks |-> NoOp]
         /\ best' = [q \in Tasks |-> -1] /\ data' = [q \in Tasks |-> Blank]
         /\ seen' = [q \in Tasks |-> {}] /\ touched' = [q \in Tasks |-> 0]
         /\ flash' = flash /\ added' = added /\ wiped' = wiped /\ entropies' = entropies
BY DEF RestartNext, reset, rwsig_jump_now, reboot_jump_rw, reboot_jump_ro, Restart, history

\* The tasks and the regions are left alone by the host commands.
LEMMA HostStep ==
  ASSUME HostNext
  PROVE  /\ UNCHANGED <<pc, op, best, data, seen, touched>>
         /\ flash' = flash /\ added' = added /\ wiped' = wiped /\ entropies' = entropies
         /\ image' = image /\ locked' = locked
BY DEF HostNext, rwsig_wait_ends, rwsig_jump_denied, rwsig_abort, flash_command_write,
   flash_command_erase, ChangeRw, ChangeRwInHash, RwChanges, tasks, locals, overlap, history,
   platform

\* The first state satisfies the invariant.
LEMMA InitIInv == Init => IInv
<1> SUFFICES ASSUME Init PROVE IInv
  OBVIOUS
<1> USE RollbackAssumption
<1>1. TypeOK
  <2>1. flash \in [Regions -> Data] /\ Blank \in Data
    BY DEF Init, Data, Blank, Invalid, Versions
  <2>2. pc \in [Tasks -> Steps] /\ op \in [Tasks -> Ops]
    BY OpTypes DEF Init, Steps
  <2>3. best \in [Tasks -> -1 .. 1] /\ data \in [Tasks -> Data] /\ touched \in [Tasks -> 0 .. 2]
    BY <2>1 DEF Init
  <2>4. entropies \in 0 .. MaxEntropies /\ added \subseteq Entropies /\ wiped \subseteq Entropies
    BY DEF Init
  <2> QED BY <2>1, <2>2, <2>3, <2>4 DEF Init, TypeOK
<1>2. Newest(0)
  BY NewestDef DEF Init, Regions, Blank, Invalid
<1>3. RegionsOK
  BY <1>2 DEF RegionsOK, Init, Regions, Blank, Invalid, Versions
<1>4. ASSUME NEW p \in Tasks PROVE OpOK(p) /\ StepOK(p) /\ ResultOK(p)
  <2>1. pc[p] = "idle" /\ op[p].kind = "none" /\ op[p].entropy = NoEntropy
    BY DEF Init, NoOp, PlainOp
  <2> QED BY <2>1 DEF OpOK, StepOK, ResultOK, Adds, Checks, InErase, InWrite
<1>5. ReportedOK
  BY DEF Init, ReportedOK, EntropyKept, OldSecretGone, Verified
<1> QED BY <1>1, <1>3, <1>4, <1>5 DEF IInv, Tasks

\* Every step keeps the types.
LEMMA TypeStep == TypeOK /\ (\A p \in Tasks : OpOK(p)) /\ [Next]_vars => TypeOK'
<1> SUFFICES ASSUME TypeOK, \A p \in Tasks : OpOK(p), [Next]_vars PROVE TypeOK'
  OBVIOUS
<1> USE RollbackAssumption DEF NoEntropy
<1>1. CASE UNCHANGED vars
  BY <1>1 DEF TypeOK, vars, boot, platform, locals, overlap, history
<1>2. CASE RestartNext \/ HostNext
  <2>1. CASE RestartNext
    <3>1. NoOp \in Ops /\ Blank \in Data /\ "idle" \in Steps
      BY OpTypes DEF Blank, Invalid, Data, Steps
    <3> QED BY <2>1, <3>1, RestartStep, PlatformType DEF TypeOK
  <2>2. CASE HostNext
    BY <2>2, HostStep, PlatformType DEF TypeOK
  <2> QED BY <1>2, <2>1, <2>2
<1>3. ASSUME NEW p \in Tasks, TaskNext(p) PROVE TypeOK'
  <2> DEFINE Calls == /\ op' \in [Tasks -> Ops] /\ pc' \in [Tasks -> Steps]
                      /\ best' \in [Tasks -> -1 .. 1] /\ data' \in [Tasks -> Data]
                      /\ touched' \in [Tasks -> 0 .. 2]
  <2>1. CASE rollback_get_minimum_version(p) \/ rwsig_check_signature(p) \/ rollback_update_version(p)
    <3>1. rwVersion \in Images
      BY DEF TypeOK
    <3>2. Calls
      BY <2>1, <3>1, OpTypes, CallType DEF rollback_get_minimum_version,
         rwsig_check_signature, rollback_update_version
    <3> QED BY <2>1, <3>2 DEF TypeOK, rollback_get_minimum_version, rwsig_check_signature,
               rollback_update_version, boot, platform, history
  <2>2. CASE add_entropy(p)
    <3>1. PICK kind \in {"entropy", "reset"}, repeat \in {1, 2} :
            /\ entropies + repeat <= MaxEntropies /\ entropies' = entropies + repeat
            /\ Call(p, AddOp(kind, entropies + 1, entropies + 1, repeat))
      BY <2>2 DEF add_entropy
    <3>2. entropies + 1 \in Entropies
      BY <3>1 DEF Entropies, TypeOK
    <3>3. Calls
      BY <3>1, <3>2, OpTypes, CallType
    <3> QED BY <2>2, <3>1, <3>3 DEF TypeOK, add_entropy, boot, platform, history
  <2>3. CASE read_region(p)
    <3>1. flash[0] \in Data /\ flash[1] \in Data
      BY DEF TypeOK, Regions
    <3> QED BY <2>3, <3>1 DEF TypeOK, read_region, Scan, Goto, boot, platform, history,
               Steps, overlap
  <2>4. CASE read_latest(p)
    <3>1. ASSUME NEW i \in Int, NEW v \in Int
          PROVE  Invalid(i, v) \in Data
      BY DEF Invalid, Data
    <3>2. best[p] # -1 => flash[best[p]] \in Data
      BY DEF TypeOK, Regions
    <3>3. CASE best[p] = -1
      <4>1. PICK i \in -1 .. 1, v \in -1 .. MaxVersion : data' = [data EXCEPT ![p] = Invalid(i, v)]
        BY <2>4, <3>3 DEF read_latest
      <4>2. data' \in [Tasks -> Data]
        BY <3>1, <4>1 DEF TypeOK
      <4> QED BY <2>4, <3>3, <4>2 DEF TypeOK, read_latest, Goto, boot, platform, history,
                 Steps, overlap
    <3> QED BY <2>4, <3>2, <3>3 DEF TypeOK, read_latest, Goto, boot, platform, history,
               Steps, overlap
  <2>5. CASE read_fails(p) \/ update_refused(p) \/ add_entropy_fails(p) \/ write_fails(p)
    <3>1. Calls
      BY <2>5, FinishType DEF read_fails, update_refused, add_entropy_fails, write_fails,
         Steps
    <3> QED BY <2>5, <3>1 DEF TypeOK, read_fails, update_refused, add_entropy_fails,
               write_fails, boot, platform, history
  <2>6. CASE update_prepare(p)
    <3>1. op[p] \in Ops /\ data[p] \in Data
      BY DEF TypeOK
    <3>2. Updated(data[p], op[p]) \in Data
      BY <3>1 DEF Updated, Data, Ops, Torn
    <3>3. best[p] \in Regions
      BY <2>6 DEF update_prepare, Prepare, OpOK
    <3> QED BY <2>6, <3>2, <3>3 DEF TypeOK, update_prepare, Prepare, Goto, boot, platform,
               history, Steps, locals, overlap, Regions
  <2>7. CASE erase(p) \/ erase_fails(p)
    <3>1. best[p] \in Regions /\ Blank \in Data /\ touched' \in [Tasks -> 0 .. 2]
      BY <2>7 DEF erase, erase_fails, OpOK, InErase, Blank, Invalid, Data, Observe, TypeOK
    <3>2. flash' \in [Regions -> Data]
      BY <2>7, <3>1 DEF TypeOK, erase, erase_fails
    <3>3. Calls
      <4>1. CASE erase(p)
        BY <3>1, <4>1 DEF TypeOK, erase, Goto, Steps, locals
      <4>2. CASE erase_fails(p)
        BY <3>1, <4>2 DEF TypeOK, erase_fails, Goto, Clear, Steps
      <4> QED BY <2>7, <4>1, <4>2
    <3> QED BY <2>7, <3>2, <3>3 DEF TypeOK, erase, erase_fails, boot, platform, history
  <2>8. CASE write(p) \/ write_cookie(p)
    <3>1. best[p] \in Regions /\ data[p] \in Data /\ touched' \in [Tasks -> 0 .. 2]
      BY <2>8 DEF write, write_cookie, OpOK, InErase, Observe, TypeOK
    <3>2. [data[p] EXCEPT !.secret = @ \union {Torn}, !.valid = FALSE] \in Data
      BY <3>1 DEF Data
    <3>3. Blank \in Data
      BY DEF Blank, Invalid, Data
    <3>4. flash' \in [Regions -> Data]
      BY <2>8, <3>1, <3>2 DEF TypeOK, write, write_cookie
    <3>5. Calls
      <4>1. CASE write(p)
        BY <3>1, <4>1 DEF TypeOK, write, Goto, Steps, locals
      <4>2. CASE write_cookie(p)
        BY <3>1, <3>3, <4>2 DEF TypeOK, write_cookie, Goto, Clear, Steps
      <4> QED BY <2>8, <4>1, <4>2
    <3> QED BY <2>8, <3>4, <3>5 DEF TypeOK, write, write_cookie, boot, platform, history
  <2>9. CASE get_returns(p) \/ update_fails(p) \/ update_succeeds(p)
    BY <2>9, ReturnType DEF TypeOK, get_returns, update_fails, update_succeeds, boot,
       platform, history
  <2>10. CASE add_entropy_repeat(p)
    <3>1. op[p].first \in Entropies /\ op[p].entropy + 1 \in Entropies
      BY <2>10 DEF add_entropy_repeat, OpOK, Adds
    <3>2. Calls
      BY <2>10, <3>1, OpTypes, CallType DEF add_entropy_repeat
    <3> QED BY <2>10, <3>2 DEF TypeOK, add_entropy_repeat, boot, platform, history
  <2>11. CASE add_entropy_done(p)
    <3>1. op[p].entropy \in Entropies /\ op[p].first \in Entropies
      BY <2>11 DEF add_entropy_done, OpOK, Adds
    <3> QED BY <2>11, <3>1, ReturnType DEF TypeOK, add_entropy_done, boot, platform
  <2>12. CASE rwsig_reject(p) \/ rwsig_verified(p)
    BY <2>12, ReturnType DEF TypeOK, rwsig_reject, rwsig_verified, platform, history
  <2>13. CASE rwsig_accept(p)
    <3>2. CASE Call(p, PlainOp("rwsig", op[p].next))
      <4>1. op[p].next \in Versions
        BY <2>13 DEF TypeOK, rwsig_accept, Ops, Data, Versions
      <4> QED BY <2>13, <3>2, <4>1, OpTypes, CallType DEF TypeOK, rwsig_accept, Accept,
                 boot,
                 platform, history
    <3>3. CASE Finish(p, "success")
      <4>1. "success" \in Steps
        BY DEF Steps
      <4> QED BY <2>13, <3>3, <4>1, FinishType DEF TypeOK, rwsig_accept, Accept, boot, platform,
                 history
    <3> QED BY <2>13, <3>2, <3>3 DEF rwsig_accept, Accept
  <2> QED BY <1>3, <2>1, <2>2, <2>3, <2>4, <2>5, <2>6, <2>7, <2>8, <2>9, <2>10, <2>11,
             <2>12,
             <2>13 DEF TaskNext
<1> QED BY <1>1, <1>2, <1>3 DEF Next

-----------------------------------------------------------------------------
(***************************************************************************)
(* Arguments of the calls.                                                 *)
(***************************************************************************)
\* A step of a task leaves the others where they are.
LEMMA OtherTasks ==
  ASSUME TypeOK, NEW p \in Tasks, NEW q \in Tasks, q # p, TaskNext(p)
  PROVE  /\ pc'[q] = pc[q] /\ op'[q] = op[q] /\ best'[q] = best[q] /\ data'[q] = data[q]
         /\ rwVersion' = rwVersion /\ locked' = locked /\ image' = image /\ abort' \in {abort, FALSE}
<1> USE DEF TypeOK, boot, platform, locals, Goto, Clear
<1>1. CASE rollback_get_minimum_version(p) \/ rollback_update_version(p) \/ add_entropy(p)
           \/ rwsig_check_signature(p) \/ add_entropy_repeat(p)
  BY <1>1 DEF rollback_get_minimum_version, rollback_update_version, add_entropy,
     rwsig_check_signature, add_entropy_repeat, Call
<1>2. CASE read_region(p) \/ read_latest(p) \/ update_prepare(p)
  BY <1>2 DEF read_region, Scan, read_latest, update_prepare, Prepare
<1>3. CASE read_fails(p) \/ update_refused(p) \/ add_entropy_fails(p) \/ write_fails(p)
  BY <1>3 DEF read_fails, update_refused, add_entropy_fails, write_fails, Finish
<1>4. CASE erase(p) \/ erase_fails(p) \/ write(p) \/ write_cookie(p)
  BY <1>4 DEF erase, erase_fails, write, write_cookie
<1>5. CASE get_returns(p) \/ update_fails(p) \/ update_succeeds(p) \/ add_entropy_done(p)
           \/ rwsig_reject(p) \/ rwsig_verified(p)
  BY <1>5 DEF get_returns, update_fails, update_succeeds, add_entropy_done, rwsig_reject,
     rwsig_verified, Return
<1>6. CASE rwsig_accept(p)
  BY <1>6 DEF rwsig_accept, Accept, Call, Finish
<1> QED BY <1>1, <1>2, <1>3, <1>4, <1>5, <1>6 DEF TaskNext

\* A task that does not update only reads.
LEMMA ReaderSteps ==
  ASSUME NEW p \in Tasks \ Updaters, OpOK(p), TaskNext(p)
  PROVE  \/ rollback_get_minimum_version(p) \/ read_region(p) \/ read_latest(p)
         \/ read_fails(p) \/ get_returns(p)
<1>1. op[p].kind \in {"none", "get"} /\ op[p].entropy = NoEntropy /\ ~InErase(p)
  BY DEF OpOK, Adds, IsUpdate
<1> QED BY <1>1 DEF TaskNext, rollback_update_version, add_entropy, rwsig_check_signature,
           update_refused, update_prepare, Prepare, add_entropy_fails, erase, erase_fails, write,
           write_cookie, write_fails, update_fails, update_succeeds, add_entropy_repeat,
           add_entropy_done, rwsig_reject, rwsig_accept, Accept, rwsig_verified, IsUpdate, InErase,
           InWrite

\* It has no part in verified boot.
LEMMA ReaderBoot ==
  ASSUME NEW p \in Tasks \ Updaters, OpOK(p), TaskNext(p)
  PROVE  UNCHANGED boot
BY ReaderSteps DEF rollback_get_minimum_version, read_region, Scan, read_latest, read_fails,
   get_returns

\* Every step keeps the arguments of a call fit for its kind.
LEMMA OpStep ==
  ASSUME TypeOK, \A q \in Tasks : OpOK(q), SingleUpdater, [Next]_vars, NEW q \in Tasks
  PROVE  OpOK(q)'
<1> USE DEF NoEntropy
<1> OpOK(q)
  OBVIOUS
<1>1. CASE UNCHANGED vars
  BY <1>1 DEF vars, boot, platform, locals, OpOK, Adds, Checks, InErase, IsUpdate
<1>2. CASE RestartNext
  BY <1>2, RestartStep DEF NoOp, PlainOp, OpOK, Adds, Checks, InErase, IsUpdate
<1>5. CASE HostNext
  <2>1. UNCHANGED <<pc, op, best>> /\ image' = image /\ locked' = locked
    BY <1>5, HostStep
  <2>2. Checks(q) => rwsig_status' = "in_progress"
    BY <1>5 DEF HostNext, rwsig_wait_ends, rwsig_jump_denied, rwsig_abort, flash_command_write,
       flash_command_erase, ChangeRw, ChangeRwInHash, RwChanges, OpOK
  <2>3. Checks(q) /\ locked /\ ~abort' /\ gap' = "none" =>
          ~abort /\ gap = "none" /\ rwVersion' = rwVersion
    BY <1>5 DEF HostNext, rwsig_wait_ends, rwsig_jump_denied, rwsig_abort, Abort, platform,
       flash_command_write, flash_command_erase, ChangeRw, ChangeRwInHash, RwChanges, Note,
       OpOK, TypeOK
  <2> QED BY <2>1, <2>2, <2>3 DEF OpOK, Adds, Checks, InErase, IsUpdate
<1>3. ASSUME NEW p \in Tasks, p # q, TaskNext(p) PROVE OpOK(q)'
  <2>1. /\ pc'[q] = pc[q] /\ op'[q] = op[q] /\ best'[q] = best[q]
        /\ locked' = locked
    BY <1>3, OtherTasks
  <2>2. CASE q \in Updaters
    <3>1. UNCHANGED boot
      BY <1>3, <2>2, ReaderBoot DEF SingleUpdater
    <3> QED BY <2>1, <3>1 DEF OpOK, Adds, Checks, InErase, IsUpdate, boot, platform
  <2>3. CASE q \notin Updaters
    BY <2>1, <2>3 DEF OpOK, Adds, Checks, InErase, IsUpdate
  <2> QED BY <2>2, <2>3
<1>4. CASE TaskNext(q)
  <2> USE DEF TypeOK, boot, platform, locals, OpOK, Adds, Checks, InErase, IsUpdate, Goto, Clear
  <2>1. CASE rollback_get_minimum_version(q) \/ rollback_update_version(q) \/ rwsig_check_signature(q)
    BY <2>1 DEF rollback_get_minimum_version, rollback_update_version,
       rwsig_check_signature, Call, PlainOp
  <2>2. CASE add_entropy(q)
    BY <2>2, RollbackAssumption DEF add_entropy, Call, AddOp, Entropies
  <2>3. CASE read_fails(q) \/ update_refused(q) \/ add_entropy_fails(q) \/ write_fails(q)
    <3>1. UNCHANGED <<op, boot>> /\ pc'[q] \in {"success", "error"}
      BY <2>3 DEF read_fails, update_refused, add_entropy_fails, write_fails, Finish
    <3> QED BY <3>1
  <2>10. CASE read_region(q)
    BY <2>10 DEF read_region, Scan
  <2>4. CASE read_latest(q)
    BY <2>4 DEF read_latest, Regions
  <2>5. CASE update_prepare(q)
    BY <2>5 DEF update_prepare, Prepare, Regions
  <2>6. CASE erase(q) \/ write(q)
    <3>1. UNCHANGED <<op, best, boot>> /\ InErase(q) /\ pc'[q] \in {"write", "cookie"}
      BY <2>6 DEF erase, write
    <3> QED BY <3>1
  <2>11. CASE erase_fails(q) \/ write_cookie(q)
    <3>1. UNCHANGED <<op, boot>> /\ pc'[q] \in {"success", "error"}
      BY <2>11 DEF erase_fails, write_cookie
    <3> QED BY <3>1
  <2>7. CASE get_returns(q) \/ update_fails(q) \/ update_succeeds(q) \/ add_entropy_done(q)
           \/ rwsig_reject(q) \/ rwsig_verified(q)
    <3>1. op'[q] = NoOp /\ pc'[q] = "idle"
      BY <2>7 DEF get_returns, update_fails, update_succeeds, add_entropy_done,
         rwsig_reject, rwsig_verified, Return
    <3> QED BY <3>1 DEF NoOp, PlainOp
  <2>8. CASE add_entropy_repeat(q)
    BY <2>8 DEF add_entropy_repeat, Call, AddOp
  <2>9. CASE rwsig_accept(q)
    <3>1. CASE Finish(q, "success")
      <4>1. UNCHANGED <<op, boot>> /\ pc'[q] = "success"
        BY <2>9, <3>1 DEF rwsig_accept, Accept, Finish
      <4> QED BY <4>1
    <3>2. CASE Call(q, PlainOp("rwsig", op[q].next))
      <4>1. op[q].next \in Versions /\ Checks(q) /\ UNCHANGED boot
        BY <2>9 DEF rwsig_accept, Accept, Ops, Data, Versions
      <4>2. op'[q] = PlainOp("rwsig", op[q].next) /\ pc'[q] = "scan0"
        BY <3>2 DEF Call
      <4> QED BY <4>1, <4>2 DEF PlainOp
    <3> QED BY <2>9, <3>1, <3>2 DEF rwsig_accept, Accept
  <2> QED BY <1>4, <2>1, <2>2, <2>3, <2>4, <2>5, <2>6, <2>7, <2>8, <2>9, <2>10, <2>11
          DEF TaskNext
<1> QED BY <1>1, <1>2, <1>3, <1>4, <1>5 DEF Next

-----------------------------------------------------------------------------
(***************************************************************************)
(* What a step does to the regions: it invalidates the older one, or it    *)
(* completes an update, or it leaves them alone.                           *)
(***************************************************************************)
Older(r) == Newest(1 - r) /\ r \in Regions

\* A valid region stays as it is or becomes invalid, the one in force stays.
Weakens ==
  /\ RegionsOK' /\ Current' = Current
  /\ \A r \in Regions : /\ flash'[r].valid => flash'[r] = flash[r]
                        /\ Newest(r) => Newest(r)' /\ flash'[r] = flash[r]

Completes(p) ==
  /\ RegionsOK' /\ write_cookie(p) /\ best[p] \in Regions
  /\ flash'[1 - best[p]] = flash[1 - best[p]]
  /\ Current' = flash'[best[p]] /\ flash'[best[p]] = data[p]
  /\ data[p] = Updated(Current, op[p])
  /\ op[p].entropy # NoEntropy \/ op[p].next > Current.version

\* A step that leaves the flash alone keeps the region in force.
LEMMA SameWeakens ==
  ASSUME RegionsOK, flash' = flash
  PROVE  Weakens
BY SameFlash DEF RegionsOK, Weakens

\* So does a store of an invalid block to the other region.
LEMMA InvalidWeakens ==
  ASSUME TypeOK, TypeOK', RegionsOK, NEW r \in Regions, Older(r), NEW x \in Data,
         ~x.valid,
         flash' = [flash EXCEPT ![r] = x]
  PROVE  Weakens
<1>1. 1 - r \in Regions /\ Newest(1 - r) /\ r # 1 - r
  BY DEF Older, Regions
<1>2. flash'[r] = x /\ flash'[1 - r] = flash[1 - r]
  BY <1>1 DEF TypeOK, Regions
<1>3. Newest(1 - r)'
  BY <1>1, <1>2, NewestDef, NewestDefNext DEF Regions
<1>4. ~Newest(r)
  BY <1>1, NewestDef DEF TypeOK, Data, Regions
<1>5. Current' = Current
  BY <1>1, <1>2, <1>3, CurrentIs, CurrentIsNext
<1>6. \A s \in Regions : s = r \/ s = 1 - r
  BY DEF Regions
<1>7. RegionsOK'
  BY <1>1, <1>2, <1>3, <1>6 DEF RegionsOK
<1> QED BY <1>1, <1>2, <1>3, <1>4, <1>5, <1>6, <1>7 DEF Weakens

\* The write of the cookie puts the new block in force.
LEMMA CookieCompletes ==
  ASSUME TypeOK, TypeOK', RegionsOK, NEW p \in Updaters, OpOK(p), StepOK(p),
         write_cookie(p)
  PROVE  Completes(p)
<1>0. PICK r \in Regions : r = best[p]
  BY DEF StepOK, InErase, write_cookie
<1>1. /\ r \in Regions /\ 1 - r \in Regions /\ Newest(1 - r) /\ r # 1 - r
      /\ flash' = [flash EXCEPT ![r] = data[p]]
      /\ data[p] = Updated(flash[1 - r], op[p])
      /\ op[p].entropy # NoEntropy \/ op[p].next > flash[1 - r].version
  BY <1>0 DEF StepOK, InErase, write_cookie, Regions
<1>2. flash'[r] = data[p] /\ flash'[1 - r] = flash[1 - r]
  BY <1>1 DEF TypeOK, Regions
<1>3. Current = flash[1 - r]
  BY <1>1, CurrentIs
<1>4. /\ flash[1 - r].valid /\ flash[1 - r].id \in Nat /\ flash[1 - r].version \in Versions
  BY <1>1, NewestDef DEF RegionsOK
<1>5. data[p].valid /\ data[p].id = flash[1 - r].id + 1
  BY <1>1 DEF Updated
<1>6. Newest(r)'
  BY <1>1, <1>2, <1>4, <1>5, NewestDefNext
<1>7. Current' = flash'[r]
  BY <1>1, <1>6, CurrentIsNext
<1>8. data[p].version \in Versions
  <2>1. data[p].version = IF op[p].next < flash[1 - r].version
                          THEN flash[1 - r].version ELSE op[p].next
    BY <1>1 DEF Updated
  <2>2. op[p].next \in -1 .. MaxVersion
    BY DEF TypeOK, Ops, Tasks
  <2> QED BY <2>1, <2>2, <1>4, RollbackAssumption DEF Versions
<1>9. RegionsOK'
  <2>1. \A s \in Regions : s = r \/ s = 1 - r
    BY <1>1 DEF Regions
  <2> QED BY <2>1, <1>1, <1>2, <1>4, <1>5, <1>6, <1>8 DEF RegionsOK
<1> QED BY <1>0, <1>1, <1>2, <1>3, <1>7, <1>9 DEF Completes

\* A task that is not in its update leaves the flash alone.
LEMMA QuietStep ==
  ASSUME NEW p \in Tasks, TaskNext(p), ~InErase(p)
  PROVE  flash' = flash
<1>1. ~(erase(p) \/ erase_fails(p) \/ write(p) \/ write_cookie(p) \/ write_fails(p))
  BY DEF InErase, erase, erase_fails, write, write_cookie, write_fails, InWrite
<1> QED
  BY <1>1 DEF TaskNext, rollback_get_minimum_version, rollback_update_version,
     add_entropy,
     rwsig_check_signature, read_region, Scan, read_latest, read_fails, update_refused,
     update_prepare, Prepare, add_entropy_fails, get_returns, update_fails, update_succeeds,
     add_entropy_repeat, add_entropy_done, rwsig_reject, rwsig_accept, Accept, rwsig_verified

\* Every step keeps the region in force or completes an update.
LEMMA FlashStep ==
  ASSUME TypeOK, TypeOK', RegionsOK, \A p \in Tasks : OpOK(p),
         \A p \in Updaters : StepOK(p),
         [Next]_vars
  PROVE  Weakens \/ \E p \in Updaters : Completes(p)
<1>1. CASE UNCHANGED vars \/ HostNext \/ RestartNext
  BY <1>1, SameWeakens, RestartStep, HostStep DEF vars
<1>2. ASSUME NEW p \in Tasks, TaskNext(p), ~InErase(p) PROVE Weakens
  BY <1>2, QuietStep, SameWeakens
<1>3. ASSUME NEW p \in Tasks, TaskNext(p), InErase(p)
      PROVE  Weakens \/ \E q \in Updaters : Completes(q)
  <2>1. p \in Updaters
    BY <1>3 DEF OpOK, IsUpdate
  <2>2. best[p] \in Regions /\ Older(best[p]) /\ data[p] \in Data
    BY <2>1, <1>3 DEF StepOK, Older, TypeOK
  <2>3. CASE erase(p) \/ erase_fails(p)
    <3>1. flash' = flash \/ flash' = [flash EXCEPT ![best[p]] = Blank]
      BY <2>3 DEF erase, erase_fails
    <3>2. Blank \in Data /\ ~Blank.valid
      BY DEF Blank, Invalid, Data
    <3> QED BY <2>2, <3>1, <3>2, SameWeakens, InvalidWeakens
  <2>4. CASE write(p)
    <3> DEFINE x == [data[p] EXCEPT !.secret = @ \union {Torn}, !.valid = FALSE]
    <3>1. x \in Data /\ ~x.valid
      BY <2>2 DEF Data
    <3>2. flash' = [flash EXCEPT ![best[p]] = x]
      BY <2>4 DEF write
    <3> QED BY <2>2, <3>1, <3>2, InvalidWeakens
  <2>5. CASE write_cookie(p)
    BY <2>1, <2>5, CookieCompletes
  <2>6. CASE write_fails(p)
    BY <2>6, SameWeakens DEF write_fails
  <2>7. erase(p) \/ erase_fails(p) \/ write(p) \/ write_cookie(p) \/ write_fails(p)
    BY <1>3 DEF InErase, InWrite, TaskNext, rollback_get_minimum_version,
       rollback_update_version,
       add_entropy, rwsig_check_signature, read_region, Scan, read_latest, read_fails,
       update_refused, update_prepare, Prepare, add_entropy_fails, get_returns, update_fails,
       update_succeeds, add_entropy_repeat, add_entropy_done, rwsig_reject, rwsig_accept, Accept,
       rwsig_verified
  <2> QED BY <2>3, <2>4, <2>5, <2>6, <2>7
<1> QED BY <1>1, <1>2, <1>3 DEF Next

-----------------------------------------------------------------------------
(***************************************************************************)
(* What the updater knows of the regions.                                  *)
(***************************************************************************)
LEMMA StepStep ==
  ASSUME TypeOK, TypeOK', RegionsOK, \A p \in Tasks : OpOK(p),
         \A p \in Updaters : StepOK(p),
         SingleUpdater, [Next]_vars, NEW q \in Updaters
  PROVE  StepOK(q)'
<1> USE DEF InErase, InWrite
<1> StepOK(q) /\ OpOK(q) /\ q \in Tasks
  BY DEF Tasks
<1>1. CASE UNCHANGED vars \/ HostNext
  <2>1. flash' = flash /\ pc' = pc /\ op' = op /\ best' = best /\ data' = data
    BY <1>1, HostStep DEF vars, locals
  <2> QED BY <2>1 DEF StepOK, Newest
<1>2. CASE RestartNext
  BY <1>2, RestartStep DEF StepOK
<1>3. ASSUME NEW p \in Tasks, p # q, TaskNext(p) PROVE StepOK(q)'
  <2>1. p \notin Updaters
    BY <1>3 DEF SingleUpdater
  <2>2. ~InErase(p)
    BY <2>1 DEF OpOK, IsUpdate
  <2>3. flash' = flash
    BY <1>3, <2>2, QuietStep
  <2>4. pc'[q] = pc[q] /\ op'[q] = op[q] /\ best'[q] = best[q] /\ data'[q] = data[q]
    BY <1>3, OtherTasks
  <2> QED BY <2>3, <2>4 DEF StepOK, Newest
<1>4. CASE TaskNext(q)
  <2>1. CASE rollback_get_minimum_version(q) \/ rollback_update_version(q) \/ add_entropy(q)
             \/ rwsig_check_signature(q) \/ add_entropy_repeat(q)
    <3>1. pc'[q] = "scan0" /\ best'[q] = -1 /\ data'[q] = Blank
      BY <2>1 DEF rollback_get_minimum_version, rollback_update_version, add_entropy,
         rwsig_check_signature, add_entropy_repeat, Call, Goto, Clear, TypeOK
    <3> QED BY <3>1 DEF StepOK
  <2>2. CASE read_region(q)
    <3>1. \A r \in Regions : flash[r].valid => flash[r].id > Blank.id
      BY DEF RegionsOK, Blank, Invalid
    <3>2. flash' = flash
      BY <2>2 DEF read_region, Scan
    <3>3. CASE pc[q] = "scan0"
      <4>1. /\ pc'[q] = "scan1"
            /\ IF flash[0].valid THEN best'[q] = 0 /\ data'[q] = flash[0]
                                 ELSE best'[q] = -1 /\ data'[q] = Blank
        BY <2>2, <3>1, <3>3 DEF read_region, Scan, Goto, TypeOK, StepOK, Regions
      <4> QED BY <4>1, <3>2 DEF StepOK
    <3>4. CASE pc[q] = "scan1"
      <4>1. PICK r \in Regions : Newest(r)
        BY DEF RegionsOK
      <4>2. pc'[q] = "fetch" /\ best'[q] = r
        BY <2>2, <3>1, <3>4, <4>1, NewestDef DEF read_region, Scan, Goto, TypeOK, StepOK,
           Regions,
           Data
      <4> QED BY <3>2, <4>1, <4>2 DEF StepOK, Newest
    <3> QED BY <2>2, <3>3, <3>4 DEF read_region
  <2>3. CASE read_latest(q)
    <3>1. /\ flash' = flash /\ pc'[q] = "decide" /\ best'[q] = best[q]
          /\ data'[q] = flash[best[q]] /\ best[q] \in Regions /\ Newest(best[q])
      BY <2>3 DEF read_latest, Goto, TypeOK, StepOK, Regions
    <3> QED BY <3>1 DEF StepOK, Newest
  <2>4. CASE read_fails(q) \/ update_refused(q) \/ add_entropy_fails(q) \/ write_fails(q)
             \/ erase_fails(q) \/ write_cookie(q) \/ get_returns(q) \/ update_fails(q)
             \/ update_succeeds(q) \/ add_entropy_done(q) \/ rwsig_reject(q) \/ rwsig_verified(q)
    <3>1. pc'[q] \in {"idle", "success", "error"}
      BY <2>4 DEF read_fails, update_refused, add_entropy_fails, write_fails, erase_fails,
         write_cookie, get_returns, update_fails, update_succeeds, add_entropy_done, rwsig_reject,
         rwsig_verified, Return, Finish, Goto, TypeOK
    <3> QED BY <3>1 DEF StepOK
  <2>5. CASE update_prepare(q)
    <3>1. /\ flash' = flash /\ op' = op /\ pc'[q] = "erase" /\ best'[q] = 1 - best[q]
          /\ data'[q] = Updated(flash[best[q]], op[q])
          /\ best[q] \in Regions /\ Newest(best[q])
          /\ op[q].entropy # NoEntropy \/ op[q].next > flash[best[q]].version
      BY <2>5 DEF update_prepare, Prepare, Goto, TypeOK, StepOK
    <3>2. PICK r \in Regions : best[q] = r /\ Newest(r)
      BY <3>1
    <3>3. 1 - best'[q] = r /\ best'[q] \in Regions
      BY <3>1, <3>2 DEF Regions
    <3>4. Newest(r)'
      BY <3>1, <3>2, SameFlash
    <3>5. Newest(1 - best[q])'
      BY <3>3, <3>4 DEF Newest
    <3>6. data'[q] = Updated(flash[1 - best[q]], op[q])'
      BY <3>1, <3>2, <3>3 DEF Updated
    <3> QED BY <3>1, <3>2, <3>3, <3>5, <3>6 DEF StepOK
  <2>6. CASE erase(q) \/ write(q)
    <3>0. best[q] \in Regions /\ Newest(1 - best[q])
      BY <2>6 DEF erase, write, StepOK
    <3>1. PICK r \in Regions : r = best[q] /\ Newest(1 - r) /\ 1 - r \in Regions /\ r # 1 - r
      BY <3>0 DEF Regions
    <3>2. /\ op' = op /\ best' = best /\ data' = data /\ pc'[q] \in {"write", "cookie"}
          /\ ~flash'[r].valid /\ flash'[1 - r] = flash[1 - r]
      <4>1. CASE erase(q)
        BY <3>1, <4>1 DEF erase, locals, Goto, TypeOK, Blank, Invalid
      <4>2. CASE write(q)
        <5> DEFINE x == [data[q] EXCEPT !.secret = @ \union {Torn}, !.valid = FALSE]
        <5>1. ~x.valid
          BY DEF TypeOK, Data
        <5>2. flash' = [flash EXCEPT ![best[q]] = x]
          BY <4>2 DEF write
        <5> HIDE DEF x
        <5> QED BY <3>1, <4>2, <5>1, <5>2 DEF write, locals, Goto, TypeOK
      <4> QED BY <2>6, <4>1, <4>2
    <3>3. Newest(1 - r)'
      BY <3>1, <3>2, NewestDef, NewestDefNext DEF Regions
    <3>4. /\ data[q] = Updated(flash[1 - r], op[q])
          /\ op[q].entropy # NoEntropy \/ op[q].next > flash[1 - r].version
      BY <2>6, <3>1 DEF erase, write, StepOK
    <3> QED BY <3>1, <3>2, <3>3, <3>4 DEF StepOK, Newest, Updated
  <2>7. CASE rwsig_accept(q)
    <3>1. pc'[q] = "success" \/ (pc'[q] = "scan0" /\ best'[q] = -1 /\ data'[q] = Blank)
      BY <2>7 DEF rwsig_accept, Accept, Call, Finish, Goto, Clear, TypeOK
    <3> QED BY <3>1 DEF StepOK
  <2> QED BY <1>4, <2>1, <2>2, <2>3, <2>4, <2>5, <2>6, <2>7 DEF TaskNext
<1> QED BY <1>1, <1>2, <1>3, <1>4 DEF Next

-----------------------------------------------------------------------------
(***************************************************************************)
(* What is reported.                                                       *)
(***************************************************************************)
\* A completed update adds to the secret and sets the version that was given.
LEMMA CompletesAdds ==
  ASSUME NEW p \in Updaters, Completes(p)
  PROVE  /\ Current.secret \subseteq Current'.secret
         /\ op[p].entropy # NoEntropy => op[p].entropy \in Current'.secret
         /\ Current'.version = IF op[p].next < Current.version THEN Current.version ELSE op[p].next
         /\ Current'.secret = Current.secret \union ({op[p].entropy} \ {NoEntropy})
BY DEF Completes, Updated

\* Valid regions only lose their validity, except for the one that counts.
LEMMA ValidAfter ==
  ASSUME Weakens \/ \E p \in Updaters : Completes(p), NEW r \in Regions, flash'[r].valid
  PROVE  \/ flash[r].valid /\ flash'[r] = flash[r]
         \/ flash'[r] = Current'
<1>1. CASE Weakens
  BY <1>1 DEF Weakens
<1>2. ASSUME NEW p \in Updaters, Completes(p)
      PROVE  flash'[r] = flash[r] \/ flash'[r] = Current'
  <2>1. r = best[p] \/ r = 1 - best[p]
    BY <1>2 DEF Completes, Regions
  <2> QED BY <1>2, <2>1 DEF Completes
<1> QED BY <1>1, <1>2

\* No step takes entropy away from the secret in force.
LEMMA SecretGrows ==
  ASSUME Weakens \/ \E p \in Updaters : Completes(p)
  PROVE  Current.secret \subseteq Current'.secret
BY CompletesAdds DEF Weakens

\* An update in a locked system is of verified boot or keeps the version.
LEMMA LockedVersion ==
  ASSUME TypeOK, RegionsOK, NEW p \in Updaters, OpOK(p), Completes(p), locked
  PROVE  /\ op[p].kind = "rwsig" => Current'.version = op[p].next
         /\ op[p].kind # "rwsig" => Current'.version = Current.version
<1>1. IsUpdate(p)
  BY DEF Completes, write_cookie, OpOK, InErase
<1>2. Current.version \in Versions
  <2>1. PICK r \in Regions : Newest(r)
    BY DEF RegionsOK
  <2> QED BY <2>1, NewestDef, CurrentIs DEF RegionsOK
<1>3. CASE op[p].kind = "rwsig"
  <2>1. op[p].next \in Versions /\ op[p].next > Current.version
    BY <1>3 DEF OpOK, Adds, Completes
  <2> QED BY <1>2, <1>3, <2>1, CompletesAdds DEF Versions, TypeOK
<1>4. CASE Adds(p)
  <2>1. op[p].next = -1
    BY <1>4 DEF OpOK
  <2> QED BY <1>2, <1>4, <2>1, CompletesAdds, RollbackAssumption DEF Versions, Adds
<1> QED BY <1>1, <1>3, <1>4 DEF IsUpdate, OpOK, Adds

\* Every step keeps what a call may report.
LEMMA ResultStep ==
  ASSUME IInv, TypeOK', SingleUpdater, [Next]_vars, NEW q \in Updaters
  PROVE  ResultOK(q)'
<1> q \in Tasks /\ TypeOK /\ RegionsOK /\ OpOK(q) /\ StepOK(q) /\ ResultOK(q)
  BY DEF Tasks, IInv
<1>a. Weakens \/ \E p \in Updaters : Completes(p)
  BY FlashStep DEF IInv
<1>b. Current.secret \subseteq Current'.secret
  BY <1>a, SecretGrows
<1> DEFINE Reset(f) == f[q].kind = "reset" /\ f[q].repeat <= 1
<1>1. Reset(op') => op'[q].first \in Current'.secret
  <2>1. CASE op'[q] = op[q] \/ op'[q] = NoOp
    BY <2>1, <1>b DEF ResultOK, NoOp, PlainOp
  <2>2. CASE add_entropy_repeat(q)
    <3>1. op'[q].first = op[q].first /\ op[q].first \in Current.secret
      BY <2>2 DEF add_entropy_repeat, Call, AddOp, TypeOK, ResultOK, OpOK, Adds
    <3> QED BY <3>1, <1>b
  <2>3. CASE rollback_get_minimum_version(q) \/ rollback_update_version(q) \/ rwsig_check_signature(q)
             \/ rwsig_accept(q)
    <3>1. op'[q].kind # "reset" \/ op'[q] = op[q]
      BY <2>3 DEF rollback_get_minimum_version, rollback_update_version,
         rwsig_check_signature,
         rwsig_accept, Accept, Call, Finish, PlainOp, TypeOK, locals
    <3> QED BY <3>1, <2>1
  <2>4. CASE add_entropy(q)
    <3>1. op'[q].kind = "reset" => op'[q].repeat = 2
      BY <2>4 DEF add_entropy, Call, AddOp, TypeOK
    <3> QED BY <3>1
  <2>5. ASSUME NEW p \in Tasks, p # q, TaskNext(p) PROVE op'[q] = op[q]
    BY <2>5, OtherTasks
  <2>6. CASE UNCHANGED vars \/ HostNext \/ RestartNext
    BY <2>1, <2>6, RestartStep, HostStep DEF vars, locals
  <2>7. CASE TaskNext(q) /\ ~(add_entropy_repeat(q) \/ rollback_get_minimum_version(q)
               \/ rollback_update_version(q) \/ rwsig_check_signature(q) \/ rwsig_accept(q)
               \/ add_entropy(q))
    BY <2>1, <2>7 DEF TaskNext, read_region, Scan, read_latest, read_fails,
       update_refused,
       update_prepare, Prepare, add_entropy_fails, erase, erase_fails, write, write_cookie,
       write_fails, get_returns, update_fails, update_succeeds, add_entropy_done, rwsig_reject,
       rwsig_verified, Return, Finish, locals, TypeOK
  <2> QED BY <2>1, <2>2, <2>3, <2>4, <2>5, <2>6, <2>7 DEF Next
<1> DEFINE Done ==
      /\ op'[q].kind \in {"entropy", "reset"} => op'[q].entropy \in Current'.secret
      /\ Reset(op') => \A r \in Regions : flash'[r].valid => op'[q].first \in flash'[r].secret
      /\ op'[q].kind \in {"check", "rwsig"} /\ locked' => op'[q].next >= Current'.version
<1>2. ASSUME pc'[q] = "success" PROVE Done
  <2>1. CASE pc[q] = "success" /\ op'[q] = op[q] /\ flash' = flash /\ locked' = locked
    BY <2>1, SameFlash DEF ResultOK, Adds, Checks
  <2>2. CASE update_refused(q)
    <3>1. /\ op' = op /\ flash' = flash /\ locked' = locked
          /\ op[q].entropy = NoEntropy /\ op[q].next = data[q].version
      BY <1>2, <2>2 DEF update_refused, Finish, Goto, TypeOK, locals, boot, platform
    <3>2. Current = data[q]
      BY <2>2, CurrentIs DEF update_refused, StepOK
    <3>3. ~Adds(q) /\ op[q].kind # "check"
      BY <2>2, <3>1 DEF update_refused, OpOK, IsUpdate, Adds, Entropies, NoEntropy
    <3>4. op[q].kind = "rwsig" => op[q].next >= Current.version
      BY <3>1, <3>2 DEF OpOK, TypeOK, Versions
    <3> QED BY <3>1, <3>3, <3>4, SameFlash DEF Adds
  <2>3. CASE rwsig_accept(q)
    <3>1. /\ op[q].kind = "check" /\ op' = op /\ flash' = flash /\ locked' = locked
          /\ op[q].next >= data[q].version
      BY <1>2, <2>3 DEF rwsig_accept, Accept, Call, Finish, Goto, TypeOK, locals, boot, platform
    <3>2. Current = data[q]
      BY <2>3, CurrentIs DEF rwsig_accept, Accept, StepOK
    <3> QED BY <3>1, <3>2, SameFlash
  <2>4. CASE write_cookie(q)
    <3>1. Completes(q)
      BY <2>4, CookieCompletes
    <3>2. op' = op /\ locked' = locked
      BY <2>4 DEF write_cookie, locals, boot, platform
    <3>3. Adds(q) => op[q].entropy \in Current'.secret
      BY <3>1, CompletesAdds DEF OpOK, Entropies, NoEntropy
    <3>4. op[q].kind \in {"check", "rwsig"} /\ locked => op[q].next >= Current'.version
      BY <2>4, <3>1, LockedVersion DEF write_cookie, OpOK, InErase, IsUpdate, TypeOK,
         Versions
    <3>5. ASSUME Reset(op), NEW r \in Regions, flash'[r].valid
          PROVE  op[q].first \in flash'[r].secret
      <4>1. op[q].first \in Current.secret /\ op[q].first \in Current'.secret
        BY <3>5, <1>b DEF ResultOK
      <4>2. r = best[q] \/ r = 1 - best[q]
        BY <3>1 DEF Completes, Regions
      <4>3. Newest(1 - best[q]) /\ 1 - best[q] \in Regions
        BY <2>4 DEF write_cookie, StepOK, InErase, Regions
      <4>4. flash[1 - best[q]] = Current
        BY <4>3, CurrentIs
      <4> QED BY <3>1, <4>1, <4>2, <4>4 DEF Completes
    <3> QED BY <3>2, <3>3, <3>4, <3>5 DEF Adds
  <2>5. CASE UNCHANGED vars \/ HostNext
    BY <1>2, <2>1, <2>5, HostStep DEF vars, locals, boot, platform
  <2>6. CASE RestartNext
    BY <1>2, <2>6, RestartStep
  <2>7. ASSUME NEW p \in Tasks, p # q, TaskNext(p) PROVE Done
    <3>1. ~InErase(p)
      BY <2>7 DEF SingleUpdater, IInv, OpOK, IsUpdate
    <3> QED BY <1>2, <2>1, <2>7, <3>1, QuietStep, OtherTasks
  <2>8. CASE TaskNext(q) /\ ~(update_refused(q) \/ rwsig_accept(q) \/ write_cookie(q))
    <3>1. pc'[q] # "success"
      BY <2>8 DEF TaskNext, rollback_get_minimum_version, rollback_update_version,
         add_entropy,
         rwsig_check_signature, read_region, Scan, read_latest, read_fails, update_prepare,
         Prepare, add_entropy_fails, erase, erase_fails, write, write_fails, get_returns,
         update_fails, update_succeeds, add_entropy_repeat, add_entropy_done, rwsig_reject,
         rwsig_verified, Return, Call, Finish, Goto, TypeOK
    <3> QED BY <1>2, <3>1
  <2> QED BY <2>2, <2>3, <2>4, <2>5, <2>6, <2>7, <2>8 DEF Next
<1> QED BY <1>1, <1>2 DEF ResultOK, Adds, Checks

\* Only the check of rwsig_task has a part in the boot.
LEMMA BootStep ==
  ASSUME NEW p \in Tasks, TaskNext(p)
  PROVE  \/ rwsig_check_signature(p) \/ rwsig_reject(p) \/ rwsig_verified(p)
         \/ UNCHANGED boot
BY DEF TaskNext, rollback_get_minimum_version, rollback_update_version, add_entropy,
   read_region, Scan, read_latest, read_fails, update_refused, update_prepare, Prepare,
   add_entropy_fails, erase, erase_fails, write, write_cookie, write_fails, get_returns,
   update_fails, update_succeeds, add_entropy_repeat, add_entropy_done, rwsig_accept, Accept

\* Every step keeps what has been reported.
LEMMA ReportedStep ==
  ASSUME IInv, TypeOK', SingleUpdater, [Next]_vars
  PROVE  ReportedOK'
<1> TypeOK /\ RegionsOK /\ ReportedOK
  BY DEF IInv
<1>a. Weakens \/ \E p \in Updaters : Completes(p)
  BY FlashStep DEF IInv
<1>b. Current.secret \subseteq Current'.secret
  BY <1>a, SecretGrows
<1>c. PICK s \in Regions : Newest(s) /\ flash[s].valid /\ Current = flash[s]
  BY NewestDef, CurrentIs DEF RegionsOK
<1>d. ASSUME NEW p \in Tasks, add_entropy_done(p)
      PROVE  /\ op[p].entropy \in Current.secret /\ flash' = flash
             /\ op[p].kind = "reset" =>
                  \A r \in Regions : flash[r].valid => op[p].first \in flash[r].secret
  <2>1. p \in Updaters
    BY <1>d DEF add_entropy_done, IInv, OpOK
  <2> QED BY <1>d, <2>1 DEF add_entropy_done, IInv, ResultOK, Adds
<1>e. \/ added' = added /\ wiped' = wiped
      \/ \E p \in Tasks : add_entropy_done(p)
  <2>1. ASSUME NEW p \in Tasks, TaskNext(p), ~add_entropy_done(p)
        PROVE  added' = added /\ wiped' = wiped
    BY <2>1 DEF TaskNext, rollback_get_minimum_version, rollback_update_version,
       add_entropy,
       rwsig_check_signature, read_region, Scan, read_latest, read_fails, update_refused,
       update_prepare, Prepare, add_entropy_fails, erase, erase_fails, write, write_cookie,
       write_fails, get_returns, update_fails, update_succeeds, add_entropy_repeat, rwsig_reject,
       rwsig_accept, Accept, rwsig_verified, history
  <2> QED BY <2>1, RestartStep, HostStep DEF Next, vars, history
<1>1. added' \subseteq Current'.secret
  <2>1. ASSUME NEW p \in Tasks, add_entropy_done(p)
        PROVE  added' \subseteq added \union Current.secret
    BY <2>1, <1>d DEF add_entropy_done
  <2> QED BY <1>b, <1>e, <2>1 DEF ReportedOK, EntropyKept
<1>2. ASSUME NEW r \in Regions, flash'[r].valid PROVE wiped' \subseteq flash'[r].secret
  <2>1. CASE wiped' = wiped
    <3>1. wiped \subseteq Current.secret
      BY <1>c DEF ReportedOK, OldSecretGone
    <3>2. flash[r].valid => wiped \subseteq flash[r].secret
      BY DEF ReportedOK, OldSecretGone
    <3> QED BY <1>a, <1>b, <1>2, <2>1, <3>1, <3>2, ValidAfter
  <2>2. ASSUME NEW p \in Tasks,
               add_entropy_done(p) PROVE wiped' \subseteq flash'[r].secret
    <3>1. wiped \subseteq flash[r].secret /\ flash' = flash
      BY <1>2, <1>d, <2>2 DEF ReportedOK, OldSecretGone
    <3>2. op[p].kind = "reset" => op[p].first \in flash[r].secret
      BY <1>2, <1>d, <2>2
    <3> QED BY <2>2, <3>1, <3>2 DEF add_entropy_done
  <2> QED BY <1>e, <2>1, <2>2
<1>3. image' = "RW" => rwsig_status' = "done"
  <2>1. CASE UNCHANGED vars
    BY <2>1 DEF vars, boot, platform, ReportedOK
  <2>2. CASE RestartNext
    BY <2>2 DEF RestartNext, reset, rwsig_jump_now, reboot_jump_rw, reboot_jump_ro, Restart
  <2>3. CASE HostNext
    BY <2>3 DEF HostNext, rwsig_wait_ends, rwsig_jump_denied, rwsig_abort, flash_command_write,
       flash_command_erase, ChangeRw, ChangeRwInHash, RwChanges, platform, ReportedOK
  <2>4. ASSUME NEW p \in Tasks, TaskNext(p) PROVE image' = "RW" => rwsig_status' = "done"
    <3>1. CASE rwsig_check_signature(p) \/ rwsig_reject(p) \/ rwsig_verified(p)
      <4>1. image' = image /\ OpOK(p)
        BY <3>1 DEF rwsig_check_signature, rwsig_reject, rwsig_verified, platform, IInv
      <4> QED BY <3>1, <4>1 DEF rwsig_check_signature, rwsig_reject, rwsig_verified, OpOK, Checks
    <3>2. CASE UNCHANGED boot
      BY <3>2 DEF boot, platform, ReportedOK
    <3> QED BY <2>4, <3>1, <3>2, BootStep
  <2> QED BY <2>1, <2>2, <2>3, <2>4 DEF Next
<1>4. ASSUME locked', gap' = "none", Verified' PROVE rwVersion' >= Current'.version
  <2>1. CASE UNCHANGED vars
    BY <1>4, <2>1, SameFlash DEF vars, boot, platform, ReportedOK, Verified
  <2>2. CASE RestartNext
    <3>1. CASE rwsig_jump_now
      BY <1>4, <3>1, SameFlash DEF rwsig_jump_now, ReportedOK, Verified
    <3>2. CASE reset \/ reboot_jump_rw \/ reboot_jump_ro
      BY <1>4, <3>2 DEF reset, reboot_jump_rw, reboot_jump_ro, Restart, Note, Verified
    <3> QED BY <2>2, <3>1, <3>2 DEF RestartNext
  <2>3. CASE HostNext
    <3>1. Verified /\ gap = "none" /\ locked /\ rwVersion' = rwVersion
      BY <1>4, <2>3 DEF HostNext, rwsig_wait_ends, rwsig_jump_denied, rwsig_abort, Abort,
         flash_command_write, flash_command_erase, ChangeRw, ChangeRwInHash, RwChanges, Note,
         platform, Verified, ReportedOK, TypeOK
    <3> QED BY <2>3, <3>1, HostStep, SameFlash DEF ReportedOK
  <2>4. ASSUME NEW p \in Tasks, TaskNext(p), UNCHANGED boot
        PROVE  rwVersion' >= Current'.version
    <3>1. Verified /\ locked /\ gap = "none" /\ rwVersion' = rwVersion
      BY <1>4, <2>4 DEF boot, platform, Verified
    <3>2. rwVersion >= Current.version
      BY <3>1 DEF ReportedOK
    <3>3. CASE Weakens
      BY <3>1, <3>2, <3>3 DEF Weakens
    <3>4. ASSUME NEW q \in Updaters, Completes(q) PROVE rwVersion >= Current'.version
      <4>1. OpOK(q)
        BY DEF IInv, Tasks
      <4>2. op[q].kind # "rwsig"
        BY <3>1, <4>1 DEF OpOK, Checks, Verified
      <4> QED BY <3>1, <3>2, <3>4, <4>1, <4>2, LockedVersion
    <3> QED BY <1>a, <3>1, <3>3, <3>4
  <2>5. ASSUME NEW p \in Tasks, rwsig_verified(p) PROVE rwVersion' >= Current'.version
    <3>1. p \in Updaters /\ OpOK(p) /\ Checks(p)
      BY <2>5 DEF rwsig_verified, IInv, OpOK, Checks
    <3>2. flash' = flash /\ rwVersion' = rwVersion /\ locked /\ gap = "none" /\ ~abort
      BY <1>4, <2>5, <3>1 DEF rwsig_verified, platform, Verified, OpOK
    <3>3. op[p].next >= Current.version /\ op[p].next = rwVersion
      BY <2>5, <3>1, <3>2 DEF rwsig_verified, IInv, ResultOK, OpOK
    <3> QED BY <3>2, <3>3, SameFlash
  <2>6. ASSUME NEW p \in Tasks, rwsig_check_signature(p) \/ rwsig_reject(p)
        PROVE  ~Verified'
    <3>1. image' = "RO" /\ rwsig_status' \in {"in_progress", "done"}
      BY <2>6 DEF rwsig_check_signature, rwsig_reject, platform, IInv, OpOK, Checks
    <3> QED BY <3>1 DEF Verified
  <2> QED BY <1>4, <2>1, <2>2, <2>3, <2>4, <2>5, <2>6, BootStep DEF Next
<1> QED BY <1>1, <1>2, <1>3, <1>4 DEF ReportedOK, EntropyKept, OldSecretGone

LEMMA IInvStep == SingleUpdater /\ IInv /\ [Next]_vars => IInv'
<1> SUFFICES ASSUME SingleUpdater, IInv, [Next]_vars PROVE IInv'
  OBVIOUS
<1>1. TypeOK'
  BY TypeStep DEF IInv
<1>2. \A q \in Tasks : OpOK(q)'
  BY OpStep DEF IInv
<1>3. \A q \in Updaters : StepOK(q)'
  BY <1>1, StepStep DEF IInv
<1>4. \A q \in Updaters : ResultOK(q)'
  BY <1>1, ResultStep
<1>5. RegionsOK'
  BY <1>1, FlashStep DEF IInv, Weakens, Completes
<1>6. ReportedOK'
  BY <1>1, ReportedStep
<1> QED BY <1>1, <1>2, <1>3, <1>4, <1>5, <1>6 DEF IInv

-----------------------------------------------------------------------------
(***************************************************************************)
(* What get_latest_rollback gives while another task updates.              *)
(***************************************************************************)
\* A call sees what is in force now.
SeenOK(p) == pc[p] \notin Ended => Visible(Current) \in seen[p]

\* The region r that was in force when the call began is as it was: an update
\* that has been at the flash since is the only one, and goes to the other.
WasNewest(p, r) ==
  /\ flash[r].valid /\ Visible(flash[r]) \in seen[p]
  /\ touched[p] = 0 => Newest(r) /\ \A u \in Updaters : ~InWrite(u)

\* What the scan has found: r, or that update when it is complete.
Found(p, r) ==
  /\ pc[p] = "scan0" => best[p] = -1 /\ data[p] = Blank
  /\ pc[p] = "scan1" =>
       \/ r = 1 /\ data[p].id < flash[1].id
       \/ best[p] = 0 /\ data[p] = flash[0] /\ (r = 0 \/ Newest(0))
  /\ pc[p] = "fetch" => best[p] = r \/ (best[p] = 1 - r /\ Newest(1 - r))

Reading(p) == pc[p] \in {"scan0", "scan1", "fetch"}

ReadOK(p) ==
  touched[p] < 2 => /\ Reading(p) => \E r \in Regions : WasNewest(p, r) /\ Found(p, r)
                    /\ pc[p] = "decide" => Visible(data[p]) \in seen[p]

SeenType == seen \in [Tasks -> SUBSET (Int \X SUBSET (Entropies \union {Torn}))]

CInv == /\ IInv /\ SeenType
        /\ \A p \in Tasks : SeenOK(p)
        /\ \A p \in Tasks \ Updaters : ReadOK(p)

\* The history of a call is kept by the steps of others, but for what they do
\* to the flash.
LEMMA OthersSeen ==
  ASSUME TypeOK, SeenType, NEW p \in Tasks, NEW q \in Tasks, q # p, TaskNext(p)
  PROVE  \/ seen'[q] = seen[q] /\ touched'[q] = touched[q]
         \/ (erase(p) \/ erase_fails(p)) /\ Observe(TRUE)
         \/ (write(p) \/ write_cookie(p)) /\ Observe(FALSE)
<1> USE DEF TypeOK, SeenType, overlap
<1>1. CASE rollback_get_minimum_version(p) \/ rollback_update_version(p) \/ add_entropy(p)
           \/ rwsig_check_signature(p) \/ add_entropy_repeat(p)
  BY <1>1 DEF rollback_get_minimum_version, rollback_update_version, add_entropy,
     rwsig_check_signature, add_entropy_repeat, Call
<1>2. CASE read_region(p) \/ read_latest(p) \/ update_prepare(p)
  BY <1>2 DEF read_region, Scan, read_latest, update_prepare, Prepare
<1>5. CASE read_fails(p) \/ update_refused(p) \/ add_entropy_fails(p) \/ write_fails(p)
  BY <1>5 DEF read_fails, update_refused, add_entropy_fails, write_fails, Finish
<1>3. CASE erase(p) \/ erase_fails(p) \/ write(p) \/ write_cookie(p)
  BY <1>3 DEF erase, erase_fails, write, write_cookie
<1>4. CASE get_returns(p) \/ update_fails(p) \/ update_succeeds(p) \/ add_entropy_done(p)
           \/ rwsig_reject(p) \/ rwsig_verified(p)
  BY <1>4 DEF get_returns, update_fails, update_succeeds, add_entropy_done, rwsig_reject,
     rwsig_verified, Return
<1>6. CASE rwsig_accept(p)
  BY <1>6 DEF rwsig_accept, Accept, Call, Finish
<1> QED BY <1>1, <1>2, <1>3, <1>4, <1>5, <1>6 DEF TaskNext

\* The history of the task that makes the step.
LEMMA OwnSeen ==
  ASSUME TypeOK, SeenType, NEW p \in Tasks, TaskNext(p)
  PROVE  \/ pc'[p] \in Ended
         \/ pc[p] \notin Ended /\ seen' = seen /\ flash' = flash
         \/ flash' = flash /\ seen'[p] = {Visible(Current)}
         \/ \E begins \in BOOLEAN : Observe(begins)
<1> USE DEF TypeOK, SeenType, overlap, Ended
<1>1. CASE rollback_get_minimum_version(p) \/ rollback_update_version(p) \/ add_entropy(p)
           \/ rwsig_check_signature(p) \/ add_entropy_repeat(p)
  BY <1>1 DEF rollback_get_minimum_version, rollback_update_version, add_entropy,
     rwsig_check_signature, add_entropy_repeat, Call
<1>2. CASE rwsig_accept(p)
  BY <1>2 DEF rwsig_accept, Accept, Call, Finish, Goto
<1>3. CASE read_region(p) \/ read_latest(p) \/ update_prepare(p)
  BY <1>3 DEF read_region, Scan, read_latest, update_prepare, Prepare
<1>6. CASE read_fails(p) \/ update_refused(p) \/ add_entropy_fails(p) \/ write_fails(p)
  BY <1>6 DEF read_fails, update_refused, add_entropy_fails, write_fails, Finish, Goto
<1>4. CASE erase(p) \/ erase_fails(p) \/ write(p) \/ write_cookie(p)
  BY <1>4 DEF erase, erase_fails, write, write_cookie
<1>5. CASE get_returns(p) \/ update_fails(p) \/ update_succeeds(p) \/ add_entropy_done(p)
           \/ rwsig_reject(p) \/ rwsig_verified(p)
  BY <1>5 DEF get_returns, update_fails, update_succeeds, add_entropy_done, rwsig_reject,
     rwsig_verified, Return, Goto
<1> QED BY <1>1, <1>2, <1>3, <1>4, <1>5, <1>6 DEF TaskNext

\* What is in force is always a version and a secret.
LEMMA VisibleType ==
  ASSUME TypeOK
  PROVE  Visible(Current) \in Int \X SUBSET (Entropies \union {Torn})
<1>1. Current \in Data
  <2>1. Blank \in Data
    BY DEF Blank, Invalid, Data
  <2>2. \A r \in Regions : flash[r] \in Data
    BY DEF TypeOK
  <2> QED BY <2>1, <2>2 DEF Current
<1> QED BY <1>1 DEF Visible, Data

\* What a reader has seen is a version and a secret.
LEMMA SeenTypeStep ==
  ASSUME TypeOK, TypeOK', SeenType, [Next]_vars
  PROVE  SeenType'
<1> DEFINE V == Int \X SUBSET (Entropies \union {Torn})
<1>1. Visible(Current) \in V /\ Visible(Current') \in V
  <2>1. Blank \in Data /\ \A r \in Regions : flash'[r] \in Data
    BY DEF TypeOK, Blank, Invalid, Data
  <2>2. Current' \in Data
    BY <2>1 DEF Current
  <2> QED BY <2>2, VisibleType DEF Visible, Data
<1> HIDE DEF V
<1> USE DEF SeenType
<1>2. ASSUME NEW p \in Tasks, NEW o, Call(p, o) PROVE seen' \in [Tasks -> SUBSET V]
  BY <1>1, <1>2 DEF Call, V
<1>3. ASSUME NEW p \in Tasks, Return(p) PROVE seen' \in [Tasks -> SUBSET V]
  BY <1>3 DEF Return, V
<1>4. ASSUME NEW begins, Observe(begins) PROVE seen' \in [Tasks -> SUBSET V]
  BY <1>1, <1>4 DEF Observe, V
<1>8. ASSUME NEW p \in Tasks, NEW step, Finish(p, step) PROVE seen' \in [Tasks -> SUBSET V]
  BY <1>8 DEF Finish, V
<1>5. CASE UNCHANGED vars \/ HostNext
  BY <1>5, HostStep DEF vars, overlap
<1>6. CASE RestartNext
  BY <1>6, RestartStep
<1>7. ASSUME NEW p \in Tasks, TaskNext(p) PROVE seen' \in [Tasks -> SUBSET V]
  <2>1. CASE rollback_get_minimum_version(p) \/ rollback_update_version(p) \/ add_entropy(p)
             \/ rwsig_check_signature(p) \/ add_entropy_repeat(p) \/ rwsig_accept(p)
    BY <1>2, <1>8, <2>1 DEF rollback_get_minimum_version, rollback_update_version, add_entropy,
       rwsig_check_signature, add_entropy_repeat, rwsig_accept, Accept, overlap, V
  <2>2. CASE read_region(p) \/ read_latest(p) \/ read_fails(p) \/ update_refused(p)
             \/ update_prepare(p) \/ add_entropy_fails(p) \/ write_fails(p)
    BY <1>8, <2>2 DEF read_region, Scan, read_latest, read_fails, update_refused,
       update_prepare, Prepare, add_entropy_fails, write_fails, overlap, V
  <2>3. CASE erase(p) \/ erase_fails(p) \/ write(p) \/ write_cookie(p)
    BY <1>4, <2>3 DEF erase, erase_fails, write, write_cookie
  <2>4. CASE get_returns(p) \/ update_fails(p) \/ update_succeeds(p) \/ add_entropy_done(p)
             \/ rwsig_reject(p) \/ rwsig_verified(p)
    BY <1>3, <2>4 DEF get_returns, update_fails, update_succeeds, add_entropy_done,
       rwsig_reject,
       rwsig_verified
  <2> QED BY <1>7, <2>1, <2>2, <2>3, <2>4 DEF TaskNext
<1> QED BY <1>5, <1>6, <1>7 DEF Next, V

\* Whatever comes to be in force is seen by the calls under way.
LEMMA SeenStep ==
  ASSUME TypeOK, SeenType, \A p \in Tasks : SeenOK(p), [Next]_vars, NEW q \in Tasks
  PROVE  SeenOK(q)'
<1> SeenOK(q)
  OBVIOUS
<1>1. CASE UNCHANGED vars \/ HostNext
  BY <1>1, SameFlash, HostStep DEF vars, overlap, SeenOK, Visible
<1>2. CASE RestartNext
  BY <1>2, RestartStep DEF SeenOK, Ended
<1>3. ASSUME NEW begins, Observe(begins),
             pc'[q] \notin Ended PROVE Visible(Current') \in seen'[q]
  BY <1>3 DEF Observe
<1>4. ASSUME NEW p \in Tasks, p # q, TaskNext(p) PROVE SeenOK(q)'
  <2>1. pc'[q] = pc[q]
    BY <1>4, OtherTasks
  <2>2. CASE erase(p) \/ erase_fails(p) \/ write(p) \/ write_cookie(p)
    <3>1. Observe(TRUE) \/ Observe(FALSE)
      BY <2>2 DEF erase, erase_fails, write, write_cookie
    <3> QED BY <1>3, <2>1, <3>1 DEF SeenOK, Visible
  <2>3. CASE ~(erase(p) \/ erase_fails(p) \/ write(p) \/ write_cookie(p))
    <3>1. seen'[q] = seen[q]
      BY <1>4, <2>3, OthersSeen
    <3>2. flash' = flash
      BY <1>4, <2>3 DEF TaskNext, rollback_get_minimum_version, rollback_update_version,
         add_entropy, rwsig_check_signature, read_region, Scan, read_latest, read_fails,
         update_refused, update_prepare, Prepare, add_entropy_fails, write_fails, get_returns,
         update_fails, update_succeeds, add_entropy_repeat, add_entropy_done, rwsig_reject,
         rwsig_accept, Accept, rwsig_verified
    <3> QED BY <2>1, <3>1, <3>2, SameFlash DEF SeenOK, Visible
  <2> QED BY <2>2, <2>3
<1>5. CASE TaskNext(q)
  <2>1. CASE flash' = flash /\ seen'[q] = {Visible(Current)}
    BY <2>1, SameFlash DEF SeenOK, Visible
  <2>2. CASE pc[q] \notin Ended /\ seen' = seen /\ flash' = flash
    BY <2>2, SameFlash DEF SeenOK, Visible
  <2>3. CASE \E begins \in BOOLEAN : Observe(begins)
    BY <1>3, <2>3 DEF SeenOK, Visible
  <2> QED BY <1>5, <2>1, <2>2, <2>3, OwnSeen DEF SeenOK
<1> QED BY <1>1, <1>2, <1>4, <1>5 DEF Next

\* No update starts to write without an erase.
LEMMA WriteBegins ==
  ASSUME TypeOK, NEW p \in Tasks, TaskNext(p), ~InErase(p)
  PROVE  ~InWrite(p)'
<1> USE DEF TypeOK, InErase, InWrite, Goto
<1>1. CASE rollback_get_minimum_version(p) \/ rollback_update_version(p) \/ add_entropy(p)
           \/ rwsig_check_signature(p) \/ add_entropy_repeat(p)
  BY <1>1 DEF rollback_get_minimum_version, rollback_update_version, add_entropy,
     rwsig_check_signature, add_entropy_repeat, Call
<1>2. CASE read_region(p) \/ read_latest(p) \/ update_prepare(p)
  BY <1>2 DEF read_region, Scan, read_latest, update_prepare, Prepare
<1>5. CASE read_fails(p) \/ update_refused(p) \/ add_entropy_fails(p) \/ rwsig_accept(p)
  BY <1>5 DEF read_fails, update_refused, add_entropy_fails, rwsig_accept, Accept, Call, Finish
<1>3. CASE erase(p) \/ erase_fails(p) \/ write(p) \/ write_cookie(p) \/ write_fails(p)
  BY <1>3 DEF erase, erase_fails, write, write_cookie, write_fails, Finish
<1>4. CASE get_returns(p) \/ update_fails(p) \/ update_succeeds(p) \/ add_entropy_done(p)
           \/ rwsig_reject(p) \/ rwsig_verified(p)
  BY <1>4 DEF get_returns, update_fails, update_succeeds, add_entropy_done, rwsig_reject,
     rwsig_verified, Return
<1> QED BY <1>1, <1>2, <1>3, <1>4, <1>5 DEF TaskNext

\* The step of another task leaves the region that was in force alone, and if
\* an update has completed since, everything.
LEMMA OthersRead ==
  ASSUME IInv, TypeOK', SeenType, SingleUpdater, NEW p \in Tasks \ Updaters,
         NEW q \in Tasks, q # p,
         TaskNext(q), pc[p] \notin Ended, NEW r \in Regions, WasNewest(p, r), touched'[p] < 2
  PROVE  /\ WasNewest(p, r)' /\ flash'[r] = flash[r]
         /\ Newest(1 - r) => flash' = flash
<1> p \in Tasks /\ TypeOK /\ RegionsOK
  BY DEF IInv, Tasks
<1> touched[p] \in 0 .. 2 /\ pc'[p] \notin Ended
  <2>1. pc'[p] = pc[p]
    BY OtherTasks
  <2> QED BY <2>1 DEF TypeOK
<1> 1 - r \in Regions /\ r # 1 - r /\ \A s \in Regions : s = r \/ s = 1 - r
  BY DEF Regions
<1>1. CASE ~InErase(q)
  <2>1. flash' = flash
    BY <1>1, QuietStep
  <2>2. seen'[p] = seen[p] /\ touched'[p] = touched[p]
    BY <1>1, OthersSeen DEF InErase, erase, erase_fails, write, write_cookie, InWrite
  <2>3. ASSUME NEW u \in Updaters, ~InWrite(u) PROVE ~InWrite(u)'
    <3>1. CASE u = q
      BY <1>1, <3>1, WriteBegins
    <3>2. CASE u # q
      BY <2>3, <3>2, OtherTasks DEF Tasks, InWrite
    <3> QED BY <3>1, <3>2
  <2>4. Newest(r)' <=> Newest(r)
    BY <2>1, SameFlash
  <2> QED BY <2>1, <2>2, <2>3, <2>4 DEF WasNewest, Visible
<1>2. CASE InErase(q)
  <2>1. q \in Updaters /\ best[q] \in Regions /\ Newest(1 - best[q]) /\ (InWrite(q) => ~flash[best[q]].valid)
    BY <1>2 DEF IInv, OpOK, StepOK, IsUpdate
  <2>2. InWrite(q) => touched[p] # 0
    BY <2>1 DEF WasNewest
  <2>3. ASSUME best[q] = 1 - r, touched'[p] # 0, seen[p] \subseteq seen'[p],
               flash' = flash \/ \E x : flash' = [flash EXCEPT ![best[q]] = x]
        PROVE  WasNewest(p, r)' /\ flash'[r] = flash[r]
    <3>1. flash'[r] = flash[r]
      BY <2>3 DEF TypeOK
    <3> QED BY <2>3, <3>1 DEF WasNewest, Visible
  <2>4. CASE erase(q) \/ erase_fails(q)
    <3>1. Observe(TRUE) /\ (flash' = flash \/ flash' = [flash EXCEPT ![best[q]] = Blank])
      BY <2>4 DEF erase, erase_fails
    <3>2. touched[p] = 0 /\ touched'[p] = 1 /\ seen[p] \subseteq seen'[p]
      BY <3>1 DEF Observe
    <3>3. Newest(r)
      BY <3>2 DEF WasNewest
    <3>4. best[q] = 1 - r /\ ~Newest(1 - r)
      BY <2>1, <3>3, NewestDef DEF TypeOK, Data, Regions
    <3> QED BY <2>3, <3>1, <3>2, <3>4
  <2>5. CASE write(q) \/ write_cookie(q)
    <3>1. /\ Observe(FALSE) /\ InWrite(q)
          /\ \E x : flash' = [flash EXCEPT ![best[q]] = x]
      BY <2>5 DEF write, write_cookie, InWrite
    <3>2. touched'[p] # 0 /\ seen[p] \subseteq seen'[p]
      BY <2>2, <3>1 DEF Observe
    <3>3. best[q] = 1 - r /\ ~Newest(1 - r)
      BY <2>1, <3>1, NewestDef DEF WasNewest
    <3> QED BY <2>3, <3>1, <3>2, <3>3
  <2>6. CASE write_fails(q)
    <3>1. InWrite(q) /\ flash' = flash /\ seen'[p] = seen[p] /\ touched'[p] = touched[p]
      BY <2>6 DEF write_fails, Finish, TypeOK, SeenType
    <3> QED BY <2>2, <3>1 DEF WasNewest, Visible
  <2>7. erase(q) \/ erase_fails(q) \/ write(q) \/ write_cookie(q) \/ write_fails(q)
    BY <1>2, <2>1 DEF InErase, InWrite, TaskNext, rollback_get_minimum_version,
       rollback_update_version, add_entropy, rwsig_check_signature, read_region, Scan, read_latest,
       read_fails, update_refused, update_prepare, Prepare, add_entropy_fails, get_returns,
       update_fails, update_succeeds, add_entropy_repeat, add_entropy_done, rwsig_reject,
       rwsig_accept, Accept, rwsig_verified
  <2> QED BY <2>4, <2>5, <2>6, <2>7
<1> QED BY <1>1, <1>2

\* A read that two updates do not overtake finds what was in force.
LEMMA ReadStep ==
  ASSUME CInv, TypeOK', SingleUpdater, [Next]_vars, NEW p \in Tasks \ Updaters
  PROVE  ReadOK(p)'
<1> /\ IInv /\ TypeOK /\ RegionsOK /\ SeenType /\ p \in Tasks /\ SeenOK(p) /\ ReadOK(p)
    /\ touched[p] \in 0 .. 2 /\ pc[p] \in Steps
  BY DEF CInv, IInv, TypeOK
<1>1. CASE UNCHANGED vars \/ HostNext
  <2>1. UNCHANGED <<flash, pc, op, best, data, seen, touched>>
    BY <1>1, HostStep DEF vars, locals, overlap
  <2> QED BY <2>1 DEF ReadOK, Reading, WasNewest, Found, Newest, InWrite, Visible
<1>2. CASE RestartNext
  BY <1>2, RestartStep DEF ReadOK, Reading
<1>3. ASSUME NEW q \in Tasks, q # p, TaskNext(q) PROVE ReadOK(p)'
  <2> SUFFICES ASSUME touched'[p] < 2
               PROVE  /\ Reading(p)' => \E r \in Regions : WasNewest(p, r)' /\ Found(p, r)'
                      /\ pc'[p] = "decide" => Visible(data[p])' \in seen'[p]
    BY DEF ReadOK
  <2>1. pc'[p] = pc[p] /\ best'[p] = best[p] /\ data'[p] = data[p]
    BY <1>3, OtherTasks
  <2>2. pc[p] \notin Ended => touched[p] < 2 /\ seen[p] \subseteq seen'[p]
    BY <1>3, <2>1, OthersSeen DEF Observe
  <2>3. pc'[p] = "decide" => Visible(data[p])' \in seen'[p]
    BY <2>1, <2>2 DEF ReadOK, Visible, Ended
  <2>4. ASSUME Reading(p)' PROVE \E r \in Regions : WasNewest(p, r)' /\ Found(p, r)'
    <3>1. Reading(p) /\ pc[p] \notin Ended
      BY <2>1, <2>4 DEF Reading, Ended
    <3>2. PICK r \in Regions : WasNewest(p, r) /\ Found(p, r)
      BY <2>2, <3>1 DEF ReadOK
    <3>3. WasNewest(p, r)' /\ flash'[r] = flash[r] /\ (Newest(1 - r) => flash' = flash)
      BY <1>3, <3>1, <3>2, OthersRead
    <3>4. Newest(1 - r) => Newest(1 - r)'
      BY <3>3 DEF Newest
    <3>5. r = 0 \/ r = 1
      BY DEF Regions
    <3>6. Found(p, r)'
      BY <2>1, <3>2, <3>3, <3>4, <3>5 DEF Found
    <3> QED BY <3>3, <3>6
  <2> QED BY <2>3, <2>4
<1>4. CASE rollback_get_minimum_version(p)
  <2>1. /\ pc'[p] = "scan0" /\ best'[p] = -1 /\ data'[p] = Blank /\ flash' = flash
        /\ seen'[p] = {Visible(Current)}
        /\ touched'[p] = IF \E q \in Updaters : InWrite(q) THEN 1 ELSE 0
    BY <1>4 DEF rollback_get_minimum_version, Call, Goto, Clear, TypeOK, SeenType
  <2>2. PICK r \in Regions : Newest(r)
    BY DEF RegionsOK
  <2>3. flash[r].valid /\ Current = flash[r] /\ Newest(r)'
    BY <2>1, <2>2, NewestDef, CurrentIs, SameFlash
  <2>4. \A u \in Updaters : InWrite(u)' <=> InWrite(u)
    BY <1>4 DEF rollback_get_minimum_version, Call, Goto, InWrite, TypeOK, Tasks
  <2>5. WasNewest(p, r)' /\ Found(p, r)'
    BY <2>1, <2>3, <2>4 DEF WasNewest, Found, Visible
  <2> QED BY <2>1, <2>5 DEF ReadOK
<1>5. CASE read_region(p)
  <2>1. /\ flash' = flash /\ seen' = seen /\ touched' = touched
        /\ pc'[p] \in {"scan1", "fetch"} /\ Reading(p)
    BY <1>5 DEF read_region, Scan, Goto, overlap, Reading, TypeOK
  <2>2. \A u \in Updaters : InWrite(u)' <=> InWrite(u)
    BY <1>5 DEF read_region, Scan, Goto, InWrite, TypeOK, Tasks
  <2> SUFFICES ASSUME touched[p] < 2 PROVE \E r \in Regions : WasNewest(p, r)' /\ Found(p, r)'
    BY <2>1 DEF ReadOK
  <2>3. PICK r \in Regions : WasNewest(p, r) /\ Found(p, r)
    BY <2>1 DEF ReadOK
  <2>4. \A s \in Regions : Newest(s)' <=> Newest(s)
    BY <2>1, SameFlash
  <2>5. WasNewest(p, r)'
    BY <2>1, <2>2, <2>3, <2>4 DEF WasNewest, Visible
  <2>6. \A s \in Regions : flash[s] \in Data /\ (flash[s].valid => flash[s].id \in Nat)
    BY DEF TypeOK, RegionsOK
  <2>7. CASE pc[p] = "scan0"
    <3>1. best[p] = -1 /\ data[p] = Blank /\ flash[r].valid
      BY <2>3, <2>7 DEF Found, WasNewest
    <3>2. /\ pc'[p] = "scan1"
          /\ IF flash[0].valid THEN best'[p] = 0 /\ data'[p] = flash[0]
                               ELSE best'[p] = -1 /\ data'[p] = Blank
      BY <1>5, <2>6, <2>7, <3>1 DEF read_region, Scan, Goto, TypeOK, Regions, Blank,
         Invalid
    <3>3. CASE r = 0
      BY <2>1, <2>5, <3>1, <3>2, <3>3 DEF Found
    <3>4. CASE r = 1
      <4>1. \/ data'[p].id < flash[1].id
            \/ data'[p] = flash[0] /\ best'[p] = 0 /\ Newest(0)
        <5>1. CASE ~flash[0].valid
          BY <2>6, <3>1, <3>2, <3>4, <5>1 DEF Blank, Invalid, Regions
        <5>2. CASE flash[0].valid
          <6>1. Newest(0) \/ Newest(1)
            BY DEF RegionsOK, Regions
          <6>2. Newest(1) => flash[0].id < flash[1].id
            BY <5>2, NewestDef DEF Regions
          <6> QED BY <3>2, <5>2, <6>1, <6>2
        <5> QED BY <5>1, <5>2
      <4>2. 0 \in Regions
        BY DEF Regions
      <4> QED BY <2>1, <2>4, <2>5, <3>2, <3>4, <4>1, <4>2 DEF Found
    <3> QED BY <3>3, <3>4 DEF Regions
  <2>8. CASE pc[p] = "scan1"
    <3>1. /\ pc'[p] = "fetch"
          /\ IF flash[1].valid /\ flash[1].id > data[p].id THEN best'[p] = 1 ELSE best'[p] = best[p]
      BY <1>5, <2>8 DEF read_region, Scan, Goto, TypeOK, Regions
    <3>2. best'[p] = r \/ (best'[p] = 1 - r /\ Newest(1 - r))
      <4>1. CASE r = 1 /\ data[p].id < flash[1].id
        <5>1. data[p].id \in Int /\ flash[1].id \in Int /\ flash[1].valid
          BY <2>3, <2>6, <4>1 DEF TypeOK, Data, WasNewest, Regions
        <5> QED BY <3>1, <4>1, <5>1
      <4>2. CASE best[p] = 0 /\ data[p] = flash[0] /\ r = 0
        <5>1. flash[0].valid /\ flash[0].id \in Nat
          BY <2>3, <2>6, <4>2 DEF WasNewest, Regions
        <5>2. CASE flash[1].valid /\ flash[1].id > flash[0].id
          <6>1. Newest(1)
            BY <2>6, <5>1, <5>2, NewestDef DEF Regions
          <6> QED BY <3>1, <4>2, <5>2, <6>1
        <5> QED BY <3>1, <4>2, <5>2
      <4>3. CASE best[p] = 0 /\ data[p] = flash[0] /\ Newest(0) /\ r = 1
        <5>1. ~(flash[1].valid /\ flash[1].id > flash[0].id)
          BY <2>6, <4>3, NewestDef DEF Regions
        <5> QED BY <3>1, <4>3, <5>1
      <4> QED BY <2>3, <2>8, <4>1, <4>2, <4>3 DEF Found, Regions
    <3>3. Newest(1 - r) => Newest(1 - r)'
      BY <2>1 DEF Newest
    <3> QED BY <2>5, <3>1, <3>2, <3>3 DEF Found
  <2> QED BY <1>5, <2>7, <2>8 DEF read_region
<1>6. CASE read_latest(p)
  <2>1. flash' = flash /\ seen' = seen /\ touched' = touched /\ pc[p] = "fetch" /\ pc'[p] = "decide"
    BY <1>6 DEF read_latest, Goto, overlap, TypeOK
  <2>2. ASSUME touched[p] < 2 PROVE Visible(data'[p]) \in seen[p]
    <3>1. PICK r \in Regions : WasNewest(p, r) /\ Found(p, r)
      BY <2>1, <2>2 DEF ReadOK, Reading
    <3>2. best[p] = r \/ (best[p] = 1 - r /\ Newest(1 - r))
      BY <2>1, <3>1 DEF Found
    <3>3. data'[p] = flash[best[p]]
      BY <1>6, <3>2 DEF read_latest, Regions, TypeOK
    <3>4. Newest(1 - r) => Current = flash[1 - r]
      BY CurrentIs DEF Regions
    <3> QED BY <2>1, <3>1, <3>2, <3>3, <3>4 DEF WasNewest, SeenOK, Ended
  <2> QED BY <2>1, <2>2 DEF ReadOK, Reading, Visible
<1>7. CASE read_fails(p) \/ get_returns(p)
  <2>1. pc'[p] \in {"error", "idle"}
    BY <1>7 DEF read_fails, get_returns, Return, Finish, Goto, TypeOK
  <2> QED BY <2>1 DEF ReadOK, Reading
<1> QED BY <1>1, <1>2, <1>3, <1>4, <1>5, <1>6, <1>7, ReaderSteps DEF Next, CInv, IInv

-----------------------------------------------------------------------------
(***************************************************************************)
(* The theorems.                                                           *)
(***************************************************************************)
\* With one updater, the inductive invariant holds in every state.
THEOREM Invariance ==
  ASSUME SingleUpdater
  PROVE  Spec => []IInv
<1>1. IInv /\ [Next]_vars => IInv'
  BY IInvStep
<1> QED BY <1>1, InitIInv, PTL DEF Spec

\* The state of rollback.c and rwsig.c keeps its types.
THEOREM TypeCorrect ==
  ASSUME SingleUpdater
  PROVE  Spec => []TypeOK
<1>1. IInv => TypeOK
  BY DEF IInv
<1> QED BY <1>1, Invariance, PTL

\* Entropy that was reported as added is never lost from the secret, whatever
\* fails and whenever the power is lost.
THEOREM EntropyIsKept ==
  ASSUME SingleUpdater
  PROVE  Spec => []EntropyKept
<1>1. IInv => EntropyKept
  BY DEF IInv, ReportedOK
<1> QED BY <1>1, Invariance, PTL

\* After a reset of the secret was reported, no region keeps an older secret.
THEOREM OldSecretIsGone ==
  ASSUME SingleUpdater
  PROVE  Spec => []OldSecretGone
<1>1. IInv => OldSecretGone
  BY DEF IInv, ReportedOK
<1> QED BY <1>1, Invariance, PTL

\* In a locked system rwsig_task jumps to no RW image that is older than the
\* minimum version in force, whatever the host writes to RW meanwhile, but for
\* the ways around its check that RwNotOlder names.
THEOREM RwIsNotOlder ==
  ASSUME SingleUpdater
  PROVE  Spec => []RwNotOlder
<1>1. IInv => RwNotOlder
  BY DEF IInv, ReportedOK, RwNotOlder, Verified
<1> QED BY <1>1, Invariance, PTL

\* get_latest_rollback gives the version and the secret that were in force at
\* some moment of the call, although it reads a region again after it has
\* chosen it, unless two updates were at the flash meanwhile.
THEOREM ReadsAreCoherent ==
  ASSUME SingleUpdater
  PROVE  Spec => []ReadCoherent
<1>1. Init => CInv
  <2> SUFFICES ASSUME Init PROVE CInv
    OBVIOUS
  <2>1. \A p \in Tasks : SeenOK(p) /\ ReadOK(p)
    BY DEF Init, SeenOK, ReadOK, Reading, Ended
  <2> QED BY <2>1, InitIInv DEF CInv, Init, SeenType
<1>2. CInv /\ [Next]_vars => CInv'
  <2> SUFFICES ASSUME CInv, [Next]_vars PROVE CInv'
    OBVIOUS
  <2>1. IInv'
    BY IInvStep DEF CInv
  <2>2. TypeOK /\ TypeOK'
    BY <2>1 DEF CInv, IInv
  <2>3. SeenType' /\ \A p \in Tasks : SeenOK(p)'
    BY <2>2, SeenTypeStep, SeenStep DEF CInv
  <2>4. \A p \in Tasks \ Updaters : ReadOK(p)'
    BY <2>2, ReadStep
  <2> QED BY <2>1, <2>3, <2>4 DEF CInv
<1>3. CInv => ReadCoherent
  <2> SUFFICES ASSUME CInv, NEW p \in Tasks, pc[p] = "decide", touched[p] < 2
               PROVE  Visible(data[p]) \in seen[p]
    BY DEF ReadCoherent
  <2>1. CASE p \in Updaters
    <3>1. best[p] \in Regions /\ Newest(best[p]) /\ data[p] = flash[best[p]]
      BY <2>1 DEF CInv, IInv, StepOK
    <3>2. data[p] = Current
      BY <3>1, CurrentIs DEF CInv, IInv
    <3> QED BY <3>2 DEF CInv, SeenOK, Ended
  <2>2. CASE p \notin Updaters
    BY <2>2 DEF CInv, ReadOK
  <2> QED BY <2>1, <2>2
<1> QED BY <1>1, <1>2, <1>3, PTL DEF Spec

\* The two regions implement one version that is only raised and one secret
\* that is only added to: a step of an update is a stutter until the cookie
\* is written, which is the whole change.
THEOREM Refinement ==
  ASSUME SingleUpdater
  PROVE  Spec => ImplementsMinVersion
<1>1. Init => Min!Init
  <2> SUFFICES ASSUME Init PROVE Min!Init
    OBVIOUS
  <2>1. TypeOK /\ Newest(0)
    <3>1. IInv
      BY InitIInv
    <3> QED BY <3>1, NewestDef DEF IInv, Init, Regions, Blank, Invalid
  <2>2. Current = flash[0]
    BY <2>1, CurrentIs DEF Regions
  <2> QED BY <2>2 DEF Init, Min!Init, Regions
<1>2. IInv /\ IInv' /\ [Next]_vars => [Min!Next]_<<Current.version, Current.secret>>
  <2> SUFFICES ASSUME IInv, IInv', [Next]_vars
               PROVE  [Min!Next]_<<Current.version, Current.secret>>
    OBVIOUS
  <2>1. CASE Weakens
    BY <2>1 DEF Weakens
  <2>2. ASSUME NEW p \in Updaters, Completes(p) PROVE Min!Next
    <3>1. op[p] \in Ops /\ OpOK(p) /\ TypeOK
      BY DEF IInv, TypeOK, Tasks
    <3>2. PICK r \in Regions : Newest(r) /\ Current = flash[r] /\ Current.version \in Versions
      BY NewestDef, CurrentIs DEF IInv, RegionsOK
    <3>3. CASE op[p].entropy = NoEntropy
      <4>1. op[p].next > Current.version
        BY <2>2, <3>3 DEF Completes
      <4>2. Current'.version > Current.version
        BY <2>2, <3>1, <3>2, <4>1, CompletesAdds DEF Ops, Versions
      <4>3. Current'.secret = Current.secret
        BY <2>2, <3>3, CompletesAdds
      <4> QED BY <4>2, <4>3 DEF Min!Next, Min!Raise
    <3>4. CASE op[p].entropy # NoEntropy
      <4>1. op[p].entropy \in Entropies /\ op[p].next = -1
        BY <3>1, <3>4 DEF OpOK
      <4>2. Current'.version = Current.version
        BY <2>2, <3>2, <4>1, CompletesAdds, RollbackAssumption DEF Versions
      <4>3. Current'.secret = Current.secret \union {op[p].entropy}
        BY <2>2, <3>4, CompletesAdds
      <4> QED BY <4>1, <4>2, <4>3 DEF Min!Next, Min!AddEntropy
    <3> QED BY <3>3, <3>4
  <2> QED BY <2>1, <2>2, FlashStep DEF IInv
<1> QED BY <1>1, <1>2, Invariance, PTL DEF Spec, ImplementsMinVersion, Min!Spec
=============================================================================
