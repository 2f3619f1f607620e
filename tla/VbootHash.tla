----------------------------- MODULE VbootHash -----------------------------
(***************************************************************************)
(* The verified boot hash (common/vboot_hash.c) and the flash operations   *)
(* that abort or invalidate it (common/flash.c).                           *)
(*                                                                         *)
(* The HOOKS task hashes a region of the flash chunk by chunk in deferred  *)
(* calls, and runs the deferred erase.  The host command task starts,      *)
(* aborts and asks for hashes and writes the flash.  HOOKS has the lowest  *)
(* priority: the host command task may come between any two of its steps,  *)
(* and is itself only left when it sleeps, in RECALC or in a flash write.  *)
(*                                                                         *)
(* Data: the flash is a sequence of chunks of CHUNK_SIZE, of which only    *)
(* the number of changes is kept; a digest is the sequence of what went    *)
(* into it.  Offsets and sizes are counted in chunks.                      *)
(***************************************************************************)
EXTENDS Naturals, Sequences

CONSTANTS
  FLASH_CHUNKS,     \* CONFIG_FLASH_SIZE_BYTES / CHUNK_SIZE
  Regions,          \* regions that the host asks to hash
  Updates,          \* regions that are written or erased
  RW,               \* the region of the RW image
  MaxUpdates,       \* bound: writes and erases
  MaxBusy           \* bound: times the shared memory is found in use

Region == [offset : 0 .. FLASH_CHUNKS, size : 0 .. FLASH_CHUNKS]

ASSUME VbootHashAssumption ==
  /\ FLASH_CHUNKS \in Nat /\ MaxUpdates \in Nat /\ MaxBusy \in Nat
  /\ Regions \subseteq Region /\ Updates \subseteq Region
  /\ RW \in Region /\ RW.offset + RW.size <= FLASH_CHUNKS

Chunks == 0 .. FLASH_CHUNKS - 1
FINAL == <<>>               \* the padding of SHA256_final in a digest

VARIABLES
  mapped,           \* CONFIG_MAPPED_STORAGE of the build
  flash,            \* changes of each chunk so far
  data_offset, data_size, curr_pos,
  hash,             \* the pointer is not NULL
  digest, ctx,
  want_abort, in_progress,
  next_chunk,       \* vboot_hash_next_chunk is scheduled
  erase_call,       \* flash_erase_deferred is scheduled
  erase_rc, erase_info,
  pc, ret, size,    \* HOOKS: step, where vboot_hash_abort returns, local size
  host, asked,      \* host command task: "idle", "recalc" or "writing"; the
                    \* region of it, RW while idle
  spoilt,           \* history: what befell the hash since its start
  busy              \* history: times the shared memory was in use

request == <<data_offset, data_size, curr_pos>>
result == <<hash, digest, ctx>>
flags == <<want_abort, in_progress>>
erasing == <<erase_call, erase_rc, erase_info>>
hooks == <<pc, ret, size>>
hostcmd == <<host, asked>>
history == <<spoilt, busy>>
vars == <<mapped, flash, request, result, flags, next_chunk, erasing, hooks,
          hostcmd, history>>

Init ==
  /\ mapped \in BOOLEAN
  /\ flash = [c \in Chunks |-> 0]
  /\ data_offset = 0 /\ data_size = 0 /\ curr_pos = 0
  /\ hash = FALSE /\ digest = <<>> /\ ctx = <<>>
  /\ want_abort = FALSE /\ in_progress = FALSE
  /\ next_chunk = FALSE
  /\ erase_call = FALSE /\ erase_rc = "SUCCESS" /\ erase_info = RW
  /\ pc = "main" /\ ret = "idle" /\ size = 0
  /\ host = "idle" /\ asked = RW
  /\ spoilt = {} /\ busy = 0

-----------------------------------------------------------------------------
\* What is hashed, and what the host is told.

Holds(r, c) == r.offset <= c /\ c < r.offset + r.size
Content(r) == [i \in 1 .. r.size |-> <<r.offset + i - 1, flash[r.offset + i - 1]>>]
Hashed == [offset |-> data_offset, size |-> data_size]

\* fill_response: EC_VBOOT_HASH_STATUS_DONE with digest, offset and size.
AnswersDone == ~in_progress /\ hash /\ ~want_abort

\* SHA256_update with the chunk c.
Update(c) == ctx' = Append(ctx, <<c, flash[c]>>)

-----------------------------------------------------------------------------
\* vboot_hash_start and vboot_hash_abort, called by a task that HOOKS cannot
\* preempt.

Clearing == {"abort", "clear_abort", "clear_size", "clear_hash"}

Accepts(r) == ~in_progress /\ r.offset + r.size <= FLASH_CHUNKS

\* spoilt: a call of HOOKS that is not over may still act on the new hash.
vboot_hash_start(r) ==
  /\ Accepts(r)
  /\ data_offset' = r.offset /\ data_size' = r.size /\ curr_pos' = 0
  /\ hash' = FALSE /\ want_abort' = FALSE /\ in_progress' = TRUE
  /\ ctx' = <<>>
  /\ next_chunk' = TRUE
  /\ spoilt' = (IF pc = "idle" THEN {} ELSE spoilt \intersect {"skipped"})
                 \union (IF pc \in Clearing THEN {"cleared"} ELSE {})
  /\ UNCHANGED digest

vboot_hash_abort ==
  /\ want_abort' = in_progress
  /\ data_size' = IF in_progress THEN data_size ELSE 0
  /\ hash' = (in_progress /\ hash)

\* Mutant: an update that begins before the hashed region passes.
OverlapsStart(r) ==
  /\ r.size > 0 /\ hash
  /\ \/ data_size = 0
     \/ data_offset <= r.offset /\ r.offset < data_offset + data_size

\* vboot_hash_invalidate: whether an update of r concerns the hash.
Overlaps(r) ==
  /\ r.size > 0 /\ hash
  /\ \/ data_size = 0
     \/ r.offset + r.size > data_offset /\ r.offset < data_offset + data_size

Updated(r) == [c \in Chunks |-> IF Holds(r, c) THEN flash[c] + 1 ELSE flash[c]]
Changes(f) == LET S[i \in 0 .. FLASH_CHUNKS] ==
                    IF i = 0 THEN 0 ELSE S[i - 1] + f[i - 1]
              IN  S[FLASH_CHUNKS]

-----------------------------------------------------------------------------
\* Boot: vboot_main of EFS2 may hash RW in one blocking call, then HOOK_INIT
\* runs, before the other tasks are enabled.

\* A chunk that cannot be read is left out, and the
\* abort it asks for is not looked at.
vboot_hash_all_chunks ==
  /\ pc = "main"
  /\ \E unread \in SUBSET {c \in Chunks : Holds(RW, c)} :
       /\ mapped => unread = {}
       /\ digest' = IF unread = {} THEN Content(RW)
                    ELSE SelectSeq(Content(RW), LAMBDA x : x[1] \notin unread)
       /\ want_abort' = (unread # {})
  /\ data_offset' = RW.offset /\ data_size' = RW.size /\ curr_pos' = RW.size
  /\ hash' = TRUE /\ ctx' = Append(digest', FINAL)
  /\ pc' = "init"
  /\ UNCHANGED <<mapped, flash, in_progress, next_chunk, erasing, ret, size,
                 hostcmd, history>>

\* It does not start a hash if recovery was asked for.
vboot_hash_init ==
  /\ pc \in {"main", "init"}
  /\ pc' = "idle"
  /\ \/ ~hash /\ vboot_hash_start(RW)
     \/ UNCHANGED <<request, result, flags, next_chunk, spoilt>>
  /\ UNCHANGED <<mapped, flash, erasing, ret, size, hostcmd, busy>>

-----------------------------------------------------------------------------
\* The host command task.

Booted == pc \notin {"main", "init"}

\* EC_VBOOT_HASH_START, and RECALC, which waits for the hash it started.
HostStart ==
  /\ Booted /\ host = "idle"
  /\ \E r \in Regions :
       /\ vboot_hash_start(r)
       /\ \/ host' = "recalc" /\ asked' = r
          \/ UNCHANGED hostcmd
  /\ UNCHANGED <<mapped, flash, erasing, hooks, busy>>

RecalcReturns ==
  /\ host = "recalc" /\ ~in_progress
  /\ host' = "idle" /\ asked' = RW
  /\ UNCHANGED <<mapped, flash, request, result, flags, next_chunk, erasing,
                 hooks, history>>

HostAbort ==
  /\ Booted /\ host = "idle"
  /\ vboot_hash_abort
  /\ UNCHANGED <<mapped, flash, data_offset, curr_pos, digest, ctx, in_progress,
                 next_chunk, erasing, hooks, hostcmd, history>>

\* crec_flash_write and crec_flash_erase: flash_abort_or_invalidate_hash, then
\* the physical operation, which may sleep.
WriteBegins ==
  /\ Booted /\ host = "idle" /\ Changes(flash) < MaxUpdates
  /\ \E r \in Updates :
       /\ asked' = r
       /\ IF in_progress \/ Overlaps(r)
          THEN vboot_hash_abort
          ELSE UNCHANGED <<want_abort, data_size, hash>>
  /\ host' = "writing"
  /\ UNCHANGED <<mapped, flash, data_offset, curr_pos, digest, ctx, in_progress,
                 next_chunk, erasing, hooks, history>>

WriteEnds ==
  /\ host = "writing"
  /\ host' = "idle" /\ asked' = RW
  /\ flash' = Updated(asked)
  /\ UNCHANGED <<mapped, request, result, flags, next_chunk, erasing, hooks, history>>

\* flash_command_erase, version 1.
EraseAsync ==
  /\ Booted /\ host = "idle" /\ erase_rc = "SUCCESS" /\ Changes(flash) < MaxUpdates
  /\ erase_info' \in Updates
  /\ erase_call' = TRUE /\ erase_rc' = "BUSY"
  /\ UNCHANGED <<mapped, flash, request, result, flags, next_chunk, hooks,
                 hostcmd, history>>

EraseGetResult ==
  /\ Booted /\ host = "idle" /\ erase_rc # "BUSY"
  /\ erase_rc' = "SUCCESS"
  /\ UNCHANGED <<mapped, flash, request, result, flags, next_chunk, erase_call,
                 erase_info, hooks, hostcmd, history>>

-----------------------------------------------------------------------------
\* HOOKS: the deferred calls.

Goto(from, to) == pc = from /\ pc' = to

BeginChunk ==
  /\ next_chunk
  /\ Goto("idle", "begin")
  /\ next_chunk' = FALSE
  /\ UNCHANGED <<mapped, flash, request, result, flags, erasing, ret, size,
                 hostcmd, history>>

\* size = MIN(CHUNK_SIZE, data_size - curr_pos), unsigned: a whole chunk even
\* if curr_pos is beyond data_size, as after an abort.
TakeSize ==
  /\ pc = "begin" /\ ~want_abort
  /\ pc' = "hash"
  /\ size' = IF data_size = curr_pos THEN 0 ELSE 1
  /\ UNCHANGED <<mapped, flash, request, result, flags, next_chunk, erasing, ret,
                 hostcmd, history>>

\* hash_next_chunk, when the chunk goes into the digest.
HashChunk ==
  /\ Goto("hash", "advance")
  /\ IF size = 0 THEN UNCHANGED ctx
     ELSE /\ data_offset + curr_pos \in Chunks
          /\ Update(data_offset + curr_pos)
  /\ UNCHANGED <<mapped, flash, request, hash, digest, flags, next_chunk, erasing,
                 ret, size, hostcmd, history>>

\* read_and_hash_chunk: the shared memory is in use; the call is scheduled
\* again, but the caller goes on to the next chunk all the same.
SkipChunk ==
  /\ ~mapped /\ size > 0 /\ busy < MaxBusy
  /\ Goto("hash", "advance")
  /\ next_chunk' = TRUE
  /\ spoilt' = spoilt \union {"skipped"} /\ busy' = busy + 1
  /\ UNCHANGED <<mapped, flash, request, result, flags, erasing, ret, size, hostcmd>>

\* read_and_hash_chunk: no memory, or the read fails; the caller goes on.
FailChunk ==
  /\ ~mapped /\ size > 0
  /\ Goto("hash", "abort")
  /\ ret' = "advance"
  /\ spoilt' = spoilt \union {"unread"}
  /\ UNCHANGED <<mapped, flash, request, result, flags, next_chunk, erasing, size,
                 hostcmd, busy>>

\* Mutants: in_progress falls before the digest is there; the rest of the
\* region is not scheduled.
AdvanceOver ==
  /\ pc = "advance"
  /\ curr_pos' = curr_pos + size /\ size' = 0 /\ ret' = "idle"
  /\ IF curr_pos' >= data_size
     THEN pc' = "final" /\ in_progress' = FALSE /\ UNCHANGED next_chunk
     ELSE pc' = "idle" /\ next_chunk' = TRUE /\ UNCHANGED in_progress
  /\ UNCHANGED <<mapped, flash, data_offset, data_size, result, want_abort, erasing,
                 hostcmd, history>>

AdvanceOnce ==
  /\ pc = "advance"
  /\ curr_pos' = curr_pos + size /\ size' = 0 /\ ret' = "idle"
  /\ pc' = IF curr_pos' >= data_size THEN "final" ELSE "idle"
  /\ UNCHANGED <<mapped, flash, data_offset, data_size, result, flags, next_chunk, erasing,
                 hostcmd, history>>

Advance ==
  /\ pc = "advance"
  /\ curr_pos' = curr_pos + size /\ size' = 0 /\ ret' = "idle"
  /\ IF curr_pos' >= data_size
     THEN pc' = "final" /\ UNCHANGED next_chunk
     ELSE pc' = "idle" /\ next_chunk' = TRUE
  /\ UNCHANGED <<mapped, flash, data_offset, data_size, result, flags, erasing,
                 hostcmd, history>>

StoreHash ==
  /\ Goto("final", "done")
  /\ hash' = TRUE /\ digest' = ctx /\ ctx' = Append(ctx, FINAL)
  /\ UNCHANGED <<mapped, flash, request, flags, next_chunk, erasing, ret, size,
                 hostcmd, history>>

\* in_progress = 0 at the end, and at the start of a call that was aborted.
Finish ==
  /\ \/ Goto("done", "check") /\ UNCHANGED ret
     \/ want_abort /\ Goto("begin", "abort") /\ ret' = "idle"
  /\ in_progress' = FALSE
  /\ UNCHANGED <<mapped, flash, request, result, want_abort, next_chunk, erasing,
                 size, hostcmd, history>>

CheckAbort ==
  /\ Goto("check", IF want_abort THEN "abort" ELSE "idle")
  /\ ret' = "idle"
  /\ UNCHANGED <<mapped, flash, request, result, flags, next_chunk, erasing, size,
                 hostcmd, history>>

\* vboot_hash_abort in HOOKS: one test, then three stores.
abort_in_hooks ==
  /\ \/ /\ pc = "abort" /\ in_progress
        /\ want_abort' = TRUE /\ pc' = ret
        /\ UNCHANGED <<data_size, hash>>
     \/ /\ ~in_progress /\ Goto("abort", "clear_abort")
        /\ UNCHANGED <<want_abort, data_size, hash>>
     \/ /\ Goto("clear_abort", "clear_size")
        /\ want_abort' = FALSE
        /\ UNCHANGED <<data_size, hash>>
     \/ /\ Goto("clear_size", "clear_hash")
        /\ data_size' = 0
        /\ UNCHANGED <<want_abort, hash>>
     \/ /\ Goto("clear_hash", ret)
        /\ hash' = FALSE
        /\ UNCHANGED <<want_abort, data_size>>
  /\ UNCHANGED <<mapped, flash, data_offset, curr_pos, digest, ctx, in_progress,
                 next_chunk, erasing, ret, size, hostcmd, history>>

-----------------------------------------------------------------------------
\* HOOKS: flash_erase_deferred.

BeginErase ==
  /\ erase_call /\ pc = "idle"
  /\ erase_call' = FALSE
  /\ ret' = "erase"
  /\ IF in_progress
     THEN pc' = "abort" /\ spoilt' = spoilt \union {"erased"}
     ELSE pc' = "invalidate" /\ UNCHANGED spoilt
  /\ UNCHANGED <<mapped, flash, request, result, flags, next_chunk, erase_rc,
                 erase_info, size, hostcmd, busy>>

Invalidate ==
  /\ IF Overlaps(erase_info)
     THEN Goto("invalidate", "abort") /\ spoilt' = spoilt \union {"erased"}
     ELSE Goto("invalidate", "erase") /\ UNCHANGED spoilt
  /\ UNCHANGED <<mapped, flash, request, result, flags, next_chunk, erasing, ret,
                 size, hostcmd, busy>>

Erase ==
  /\ Goto("erase", "idle") /\ ret' = "idle"
  /\ erase_rc' \in {"SUCCESS", "ERROR"}
  /\ flash' \in {Updated(erase_info)} \union (IF erase_rc' = "ERROR" THEN {flash} ELSE {})
  /\ UNCHANGED <<mapped, request, result, flags, next_chunk, erase_call, erase_info,
                 size, hostcmd, history>>

-----------------------------------------------------------------------------
Boot == vboot_hash_all_chunks \/ vboot_hash_init

Hooks ==
  \/ BeginChunk \/ TakeSize \/ HashChunk \/ SkipChunk \/ FailChunk \/ Advance
  \/ StoreHash \/ Finish \/ CheckAbort \/ abort_in_hooks
  \/ BeginErase \/ Invalidate \/ Erase

HostCommands ==
  \/ HostStart \/ HostAbort \/ WriteBegins \/ EraseAsync \/ EraseGetResult

Next == Boot \/ Hooks \/ HostCommands \/ RecalcReturns \/ WriteEnds

Spec == Init /\ [][Next]_vars

\* HOOKS runs whenever the other tasks sleep, and the usleep of RECALC and the
\* physical write end.
FairSpec == Spec /\ WF_vars(Hooks) /\ WF_vars(RecalcReturns) /\ WF_vars(WriteEnds)

-----------------------------------------------------------------------------
\* Type correctness; ctx and digest are sequences by the way they are built.
TypeOK ==
  /\ mapped \in BOOLEAN /\ flash \in [Chunks -> Nat]
  /\ Hashed \in Region /\ curr_pos \in Nat /\ size \in 0 .. 1
  /\ hash \in BOOLEAN /\ want_abort \in BOOLEAN /\ in_progress \in BOOLEAN
  /\ next_chunk \in BOOLEAN /\ erase_call \in BOOLEAN
  /\ erase_rc \in {"SUCCESS", "ERROR", "BUSY"} /\ erase_info \in Region
  /\ pc \in Clearing \union {"main", "init", "idle", "begin", "hash", "advance",
                            "final", "done", "check", "invalidate", "erase"}
  /\ ret \in {"idle", "advance", "erase"}
  /\ host \in {"idle", "recalc", "writing"} /\ asked \in Region
  /\ spoilt \subseteq {"skipped", "unread", "cleared", "erased"} /\ busy \in 0 .. MaxBusy

\* Whenever the host would be answered DONE, the digest is that of the flash
\* as it now is, over the offset and size of the answer: no update of a chunk
\* that was hashed already goes unnoticed, whether it comes from the host
\* command task or from the deferred erase, before, during or after the
\* last chunk (vboot_hash.c:166-197, 259-281; flash.c:742-763).  Excepted
\* are a chunk that was skipped because the shared memory was in use, and the
\* time between the stores of a vboot_hash_abort in HOOKS.
Torn == pc \in {"clear_size", "clear_hash"}
AnswerIsTrue ==
  AnswersDone => digest = Content(Hashed) \/ "skipped" \in spoilt \/ Torn

\* The same without the exception of skipped chunks: a call that could not
\* update the hash tries again later, as its comment says (vboot_hash.c:96).
BusyIsRetried == AnswersDone => digest = Content(Hashed) \/ Torn

\* A RECALC that returns answers DONE for the very region it was asked for,
\* unless what HOOKS met spoilt the hash: a deferred erase, a skipped chunk, a
\* failed read, the end of the abort of the hash before (vboot_hash.c:178-196,
\* 520-525).
RecalcAnswers ==
  [][RecalcReturns => (AnswersDone /\ Hashed = asked) \/ spoilt # {}]_vars

\* A RECALC returns: whatever becomes of the hash, in_progress falls
\* (vboot_hash.c:522).
RecalcEnds == (host = "recalc") ~> (host # "recalc")
=============================================================================
