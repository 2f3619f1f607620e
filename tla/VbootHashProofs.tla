-------------------------- MODULE VbootHashProofs --------------------------
(***************************************************************************)
(* Theorems of VbootHash, for every size of the flash and every set of     *)
(* regions: a hash answered as done is that of the flash, and a RECALC     *)
(* answers for its region.                                                 *)
(*                                                                         *)
(* Chunks are hashed, and the deferred erase is done, by routines of the   *)
(* hook task.  The last section proves, for any routines and calls, that   *)
(* the hook task (EcHooks) forgets no scheduled call and sleeps past none. *)
(***************************************************************************)
EXTENDS VbootHash, EcHooks, TLAPS

(***************************************************************************)
(* The inductive invariant.                                                *)
(***************************************************************************)
Part(n) == [offset |-> data_offset, size |-> n]
Disjoint(r, q) == \A c \in Chunks : ~(Holds(r, c) /\ Holds(q, c))

\* No chunk was skipped: a hash is then in progress while a call is scheduled
\* or under way.
Clean == "skipped" \notin spoilt
FailedRead == pc = "abort" /\ ret = "advance"
InChunk == pc \in {"begin", "hash", "advance", "final", "done"} \/ FailedRead
Stores == {"clear_abort", "clear_size", "clear_hash"}

\* A hash that is not to be aborted, and the chunks that went into it.
Hashing == in_progress /\ ~want_abort
Read == IF pc = "advance" THEN curr_pos + size ELSE curr_pos
Fresh == curr_pos = 0 /\ ctx = <<>>
SoFar == ctx = Content(Part(Read))
Right == digest = Content(Hashed)

\* Before the tasks are enabled; while an erase is asked for.
BootOK == ~Booted => /\ ~in_progress /\ ~next_chunk /\ ~erase_call
                     /\ host = "idle" /\ spoilt = {}
EraseCallOK ==
  /\ erase_call \/ pc \in {"invalidate", "erase"} \/ (pc \in Clearing /\ ret = "erase") =>
       erase_rc = "BUSY"
  /\ pc \in {"invalidate", "erase"} \/ (pc \in Clearing /\ ret = "erase") => ~erase_call
  /\ pc = "invalidate" => ret = "erase"

ControlOK ==
  /\ InChunk => in_progress /\ ~next_chunk
  /\ next_chunk => in_progress
  /\ pc \in Stores => ret # "advance"

\* The digest so far is that of the chunks before curr_pos as they are now.
ProgressOK ==
  /\ in_progress => Read <= data_size
  /\ pc = "hash" \/ FailedRead => curr_pos + size <= data_size
  /\ pc = "final" => curr_pos = data_size
  /\ Hashing /\ ~FailedRead /\ pc # "done" => SoFar
  /\ pc = "done" => hash /\ (Hashing => Right)

\* A start between the test of vboot_hash_abort and its stores, or within a
\* deferred erase, finds nothing hashed before HOOKS is through.
OverlapOK ==
  /\ in_progress /\ pc \in Stores \union {"invalidate"} => Fresh
  /\ in_progress /\ pc = "erase" => want_abort \/ Fresh

HostElsewhere == Disjoint(asked, Hashed)
EraseElsewhere == Disjoint(erase_info, Hashed)

\* What is about to be changed is not part of a valid hash.
UpdateOK ==
  /\ host = "writing" =>
       /\ in_progress => want_abort \/ data_size = 0 \/ pc = "clear_size"
       /\ AnswersDone /\ ~Torn => HostElsewhere
  /\ pc = "erase" /\ AnswersDone => EraseElsewhere

Fits == data_offset + data_size <= FLASH_CHUNKS
DoneOK == AnswersDone /\ ~Torn => Right

\* What a RECALC waits for.
RecalcOK ==
  host = "recalc" /\ spoilt = {} =>
    /\ Hashed = asked /\ ~want_abort /\ pc \notin Clearing
    /\ ~in_progress => hash

HashOK == ControlOK /\ ProgressOK /\ OverlapOK /\ UpdateOK /\ DoneOK

IInv ==
  /\ TypeOK /\ Fits /\ BootOK /\ EraseCallOK
  /\ Clean => HashOK
  /\ RecalcOK

-----------------------------------------------------------------------------
(***************************************************************************)
(* Contents.                                                               *)
(***************************************************************************)

\* The content of no chunk.
LEMMA ContentEmpty ==
  ASSUME NEW r, r.size = 0
  PROVE  Content(r) = <<>>
BY DEF Content

\* A chunk more.
LEMMA ContentAppend ==
  ASSUME NEW n \in Nat, data_offset \in Nat
  PROVE  Append(Content(Part(n)), <<data_offset + n, flash[data_offset + n]>>) = Content(Part(n + 1))
BY DEF Content, Part

\* An update elsewhere.
LEMMA ContentKept ==
  ASSUME NEW r, NEW q \in Region, q.offset + q.size <= FLASH_CHUNKS,
         flash \in [Chunks -> Nat], Disjoint(r, q), flash' = Updated(r)
  PROVE  [k \in 1 .. q.size |-> <<q.offset + k - 1, flash'[q.offset + k - 1]>>] = Content(q)
<1>1. ASSUME NEW k \in 1 .. q.size PROVE flash'[q.offset + k - 1] = flash[q.offset + k - 1]
  <2> DEFINE c == q.offset + k - 1
  <2>1. c \in Chunks /\ Holds(q, c)
    BY VbootHashAssumption DEF Holds, Chunks, Region
  <2>2. ~Holds(r, c)
    BY <2>1 DEF Disjoint
  <2> QED BY <2>1, <2>2 DEF Updated
<1> QED BY <1>1 DEF Content

-----------------------------------------------------------------------------
(***************************************************************************)
(* The first state, types, and the control of the calls.                   *)
(***************************************************************************)
DataTypes ==
  /\ flash \in [Chunks -> Nat] /\ Hashed \in Region /\ Fits /\ curr_pos \in Nat
FlagTypes ==
  /\ mapped \in BOOLEAN /\ hash \in BOOLEAN /\ want_abort \in BOOLEAN /\ in_progress \in BOOLEAN
  /\ next_chunk \in BOOLEAN /\ erase_call \in BOOLEAN
StepTypes ==
  /\ pc \in Clearing \union {"main", "init", "idle", "begin", "hash", "advance",
                            "final", "done", "check", "invalidate", "erase"}
  /\ ret \in {"idle", "advance", "erase"} /\ size \in 0 .. 1
  /\ erase_rc \in {"SUCCESS", "ERROR", "BUSY"} /\ erase_info \in Region
  /\ host \in {"idle", "recalc", "writing"} /\ asked \in Region
  /\ spoilt \subseteq {"skipped", "unread", "cleared", "erased"} /\ busy \in 0 .. MaxBusy

\* TypeOK and Fits in three groups, of which the steps disturb one at a time.
LEMMA TypeParts == (TypeOK /\ Fits) <=> (DataTypes /\ FlagTypes /\ StepTypes)
BY DEF TypeOK, DataTypes, FlagTypes, StepTypes

\* The first state satisfies the inductive invariant.
LEMMA InitIInv == Init => IInv
<1> SUFFICES ASSUME Init PROVE IInv
  OBVIOUS
<1> USE VbootHashAssumption DEF Init
<1>1. DataTypes
  <2>1. flash \in [Chunks -> Nat] /\ Hashed \in Region /\ Fits
    BY DEF Hashed, Region, Fits
  <2> QED BY <2>1 DEF DataTypes
<1>2. FlagTypes /\ StepTypes
  <2>1. FlagTypes
    BY DEF FlagTypes
  <2>2. spoilt \subseteq {"skipped", "unread", "cleared", "erased"} /\ busy \in 0 .. MaxBusy
    OBVIOUS
  <2> QED BY <2>1, <2>2 DEF StepTypes
<1>3. TypeOK /\ Fits
  BY <1>1, <1>2, TypeParts
<1>4. BootOK /\ EraseCallOK
  BY DEF BootOK, EraseCallOK, Clearing
<1>5. ControlOK /\ OverlapOK /\ UpdateOK /\ DoneOK /\ RecalcOK
  BY DEF ControlOK, InChunk, FailedRead, Stores, OverlapOK, UpdateOK, AnswersDone, DoneOK, RecalcOK,
     Clearing
<1>6. ProgressOK
  BY DEF ProgressOK, FailedRead, Hashing
<1> QED BY <1>3, <1>4, <1>5, <1>6 DEF IInv, HashOK

\* A start leaves a fresh hash of a region that fits.
LEMMA StartFacts ==
  ASSUME NEW r \in Region, vboot_hash_start(r)
  PROVE  /\ data_offset' = r.offset /\ data_size' = r.size /\ curr_pos' = 0 /\ ctx' = <<>>
         /\ Hashed' = r /\ Fits' /\ digest' = digest
         /\ hash' = FALSE /\ want_abort' = FALSE /\ next_chunk' = TRUE
         /\ ~in_progress /\ in_progress' = TRUE
BY DEF vboot_hash_start, Accepts, Hashed, Region, Fits

\* The flash, the region and the position keep their types.
LEMMA DataStep == DataTypes /\ StepTypes /\ Next => DataTypes'
<1> SUFFICES ASSUME DataTypes, StepTypes, Next PROVE DataTypes'
  OBVIOUS
<1> USE VbootHashAssumption DEF DataTypes, request, result
<1>1. CASE vboot_hash_all_chunks
  <2>1. flash' = flash /\ Hashed' = RW /\ Fits' /\ curr_pos' = RW.size
    BY <1>1 DEF vboot_hash_all_chunks, Hashed, Fits, Region
  <2> QED BY <2>1 DEF Region
<1>2. ASSUME NEW r \in Region, vboot_hash_start(r), flash' = flash PROVE DataTypes'
  <2>1. Hashed' = r /\ Fits' /\ curr_pos' = 0
    BY <1>2, StartFacts
  <2> QED BY <1>2, <2>1
<1>3. CASE vboot_hash_init
  BY <1>2, <1>3 DEF vboot_hash_init, Hashed, Fits
<1>4. CASE HostStart
  BY <1>2, <1>4 DEF HostStart
<1>5. ASSUME UNCHANGED <<flash, data_offset, curr_pos>>, data_size' \in {data_size, 0}
      PROVE  DataTypes'
  BY <1>5 DEF Hashed, Fits, Region
<1>6. CASE HostAbort \/ WriteBegins \/ abort_in_hooks
  BY <1>5, <1>6 DEF HostAbort, WriteBegins, vboot_hash_abort, abort_in_hooks
<1>7. CASE RecalcReturns \/ EraseAsync \/ EraseGetResult
  BY <1>5, <1>7 DEF RecalcReturns, EraseAsync, EraseGetResult
<1>8. CASE BeginChunk \/ TakeSize \/ SkipChunk \/ FailChunk \/ Finish \/ CheckAbort
           \/ BeginErase \/ Invalidate
  BY <1>5, <1>8 DEF BeginChunk, TakeSize, SkipChunk, FailChunk, Finish, CheckAbort, BeginErase,
     Invalidate
<1>9. ASSUME NEW r, flash' \in {flash, Updated(r)} PROVE flash' \in [Chunks -> Nat]
  BY <1>9 DEF Updated
<1>10. CASE WriteEnds \/ Erase
  <2>1. flash' \in [Chunks -> Nat]
    BY <1>9, <1>10 DEF WriteEnds, Erase
  <2> QED BY <1>10, <2>1 DEF WriteEnds, Erase, Hashed, Fits
<1>11. CASE HashChunk
  BY <1>11 DEF HashChunk, Hashed, Fits
<1>12. CASE Advance
  BY <1>12 DEF Advance, StepTypes, Hashed, Fits
<1>13. CASE StoreHash
  BY <1>13 DEF StoreHash, Hashed, Fits
<1> QED BY <1>1, <1>3, <1>4, <1>6, <1>7, <1>8, <1>10, <1>11, <1>12, <1>13
        DEF Next, Boot, Hooks, HostCommands

\* So do the flags.
LEMMA FlagStep == FlagTypes /\ Next => FlagTypes'
<1> SUFFICES ASSUME FlagTypes, Next PROVE FlagTypes'
  OBVIOUS
<1> USE DEF FlagTypes, result, flags, erasing, vboot_hash_start, vboot_hash_abort
<1>1. CASE Boot
  BY <1>1 DEF Boot, vboot_hash_all_chunks, vboot_hash_init
<1>2. CASE HostCommands \/ RecalcReturns \/ WriteEnds
  BY <1>2 DEF HostCommands, HostStart, HostAbort, WriteBegins, EraseAsync, EraseGetResult,
     RecalcReturns, WriteEnds
<1>3. CASE BeginChunk \/ TakeSize \/ HashChunk \/ SkipChunk \/ FailChunk \/ Advance \/ StoreHash
  BY <1>3 DEF BeginChunk, TakeSize, HashChunk, SkipChunk, FailChunk, Advance, StoreHash
<1>4. CASE Finish \/ CheckAbort \/ abort_in_hooks \/ BeginErase \/ Invalidate \/ Erase
  BY <1>4 DEF Finish, CheckAbort, abort_in_hooks, BeginErase, Invalidate, Erase
<1> QED BY <1>1, <1>2, <1>3, <1>4 DEF Next, Hooks

\* So do the program counters and the rest.
LEMMA StepTypesStep == StepTypes /\ Next => StepTypes'
<1> SUFFICES ASSUME StepTypes, Next PROVE StepTypes'
  OBVIOUS
<1> USE VbootHashAssumption DEF StepTypes, erasing, hooks, hostcmd, history, Goto, Clearing
<1>1. CASE Boot
  BY <1>1 DEF Boot, vboot_hash_all_chunks, vboot_hash_init, vboot_hash_start
<1>2. CASE HostStart \/ HostAbort
  BY <1>2 DEF HostStart, HostAbort, vboot_hash_start
<1>3. CASE WriteBegins \/ EraseAsync \/ EraseGetResult \/ RecalcReturns \/ WriteEnds
  BY <1>3 DEF WriteBegins, EraseAsync, EraseGetResult, RecalcReturns, WriteEnds
<1>4. CASE BeginChunk \/ HashChunk \/ StoreHash
  BY <1>4 DEF BeginChunk, HashChunk, StoreHash
<1>9. CASE TakeSize
  BY <1>9 DEF TakeSize
<1>7. CASE SkipChunk
  <2>1. busy' \in 0 .. MaxBusy
    BY <1>7 DEF SkipChunk
  <2> QED BY <1>7, <2>1 DEF SkipChunk
<1>10. CASE Advance
  BY <1>10 DEF Advance
<1>8. CASE FailChunk
  BY <1>8 DEF FailChunk
<1>5. CASE Finish \/ CheckAbort \/ abort_in_hooks
  BY <1>5 DEF Finish, CheckAbort, abort_in_hooks
<1>6. CASE BeginErase \/ Invalidate \/ Erase
  BY <1>6 DEF BeginErase, Invalidate, Erase
<1> QED BY <1>1, <1>2, <1>3, <1>4, <1>5, <1>6, <1>7, <1>8, <1>9, <1>10
        DEF Next, Hooks, HostCommands

\* Every step keeps the types.
LEMMA TypeStep == TypeOK /\ Fits /\ Next => TypeOK' /\ Fits'
<1> SUFFICES ASSUME TypeOK, Fits, Next PROVE TypeOK' /\ Fits'
  OBVIOUS
<1>1. DataTypes /\ FlagTypes /\ StepTypes
  BY TypeParts
<1>2. DataTypes' /\ FlagTypes' /\ StepTypes'
  BY <1>1, DataStep, FlagStep, StepTypesStep
<1> QED BY <1>2 DEF TypeOK, DataTypes, FlagTypes, StepTypes

-----------------------------------------------------------------------------
(***************************************************************************)
(* What the steps do to the digests.                                       *)
(***************************************************************************)

\* While the flash and the region stay, a digest is what it was.
LEMMA SameContent ==
  ASSUME UNCHANGED <<flash, data_offset, data_size>>
  PROVE  /\ digest' = digest => (Right' <=> Right)
         /\ ctx' = ctx /\ Read' = Read => (SoFar' <=> SoFar)
BY DEF Right, SoFar, Content, Part, Hashed

\* While the region stays, an update is elsewhere as it was.
LEMMA SameRegion ==
  ASSUME UNCHANGED <<data_offset, data_size>>
  PROVE  /\ asked' = asked => (HostElsewhere' <=> HostElsewhere)
         /\ erase_info' = erase_info => (EraseElsewhere' <=> EraseElsewhere)
BY DEF HostElsewhere, EraseElsewhere, Hashed, Disjoint, Holds

\* A region of no size holds nothing.
LEMMA NothingHeld ==
  ASSUME NEW o \in Nat, NEW r
  PROVE  Disjoint(r, [offset |-> o, size |-> 0])
<1>1. \A c \in Chunks : ~(o <= c /\ c < o + 0)
  BY VbootHashAssumption DEF Chunks
<1> QED BY <1>1 DEF Disjoint, Holds

\* Neither now nor after a step is an update a change of it.
LEMMA EmptyRegion ==
  /\ data_offset \in Nat /\ data_size = 0 => HostElsewhere /\ EraseElsewhere
  /\ data_offset' \in Nat /\ data_size' = 0 => HostElsewhere' /\ EraseElsewhere'
BY NothingHeld DEF HostElsewhere, EraseElsewhere, Hashed

\* What vboot_hash_invalidate lets pass is elsewhere.
LEMMA NotOverlapping ==
  ASSUME DataTypes, NEW r \in Region, hash, ~Overlaps(r)
  PROVE  Disjoint(r, Hashed)
<1>1. data_offset \in Nat /\ data_size \in Nat /\ r.offset \in Nat /\ r.size \in Nat
  BY VbootHashAssumption DEF DataTypes, Hashed, Region
<1>2. ASSUME NEW c \in Chunks PROVE ~(Holds(r, c) /\ Holds(Hashed, c))
  <2>1. c \in Nat
    BY VbootHashAssumption DEF Chunks
  <2> QED BY <1>1, <2>1 DEF Overlaps, Holds, Hashed
<1> QED BY <1>2 DEF Disjoint

\* A fresh hash holds nothing yet.
LEMMA FreshSoFar ==
  ASSUME Read' = 0, ctx' = <<>>
  PROVE  SoFar'
BY DEF SoFar, Content, Part

\* HashChunk adds the chunk at curr_pos.
LEMMA HashedChunk ==
  ASSUME DataTypes, StepTypes, SoFar, HashChunk
  PROVE  SoFar'
<1>1. flash' = flash /\ data_offset' = data_offset /\ curr_pos' = curr_pos /\ size' = size
  BY DEF HashChunk, request
<1>2. Read = curr_pos /\ Read' = curr_pos + size
  BY <1>1 DEF HashChunk, Goto, Read
<1>3. Content(Part(curr_pos + size))' = Content(Part(curr_pos + size))
  BY <1>1 DEF Content, Part
<1>4. CASE size = 0
  BY <1>1, <1>2, <1>3, <1>4 DEF HashChunk, SoFar, DataTypes
<1>5. CASE size = 1
  <2>1. ctx' = Append(ctx, <<data_offset + curr_pos, flash[data_offset + curr_pos]>>)
    BY <1>5 DEF HashChunk, Update
  <2>2. ctx' = Content(Part(curr_pos + 1))
    <3>1. curr_pos \in Nat /\ data_offset \in Nat
      BY DEF DataTypes, Hashed, Region
    <3>2. ctx = Content(Part(curr_pos))
      BY <1>2 DEF SoFar
    <3> QED BY <2>1, <3>1, <3>2, ContentAppend
  <2> QED BY <1>1, <1>2, <1>3, <1>5, <2>2 DEF SoFar
<1> QED BY <1>4, <1>5 DEF StepTypes

\* StoreHash makes it the digest of the whole region.
LEMMA StoredHash ==
  ASSUME SoFar, StoreHash, curr_pos = data_size
  PROVE  Right'
BY DEF StoreHash, SoFar, Goto, Read, Right, Content, Part, Hashed, request

\* An update of another region.
LEMMA UpdateKeeps ==
  ASSUME DataTypes, NEW r, Disjoint(r, Hashed), flash' = Updated(r),
         UNCHANGED <<data_offset, data_size, digest>>
  PROVE  Right' <=> Right
<1>1. Hashed.offset + Hashed.size <= FLASH_CHUNKS
  BY DEF DataTypes, Fits, Hashed
<1>2. [k \in 1 .. Hashed.size |-> <<Hashed.offset + k - 1, flash'[Hashed.offset + k - 1]>>]
        = Content(Hashed)
  BY <1>1, ContentKept DEF DataTypes
<1>3. Hashed' = Hashed
  BY DEF Hashed
<1>4. Content(Hashed)' = Content(Hashed)
  BY <1>2, <1>3 DEF Content
<1> QED BY <1>4 DEF Right

-----------------------------------------------------------------------------
(***************************************************************************)
(* The steps.                                                              *)
(***************************************************************************)
\* BootOK and EraseCallOK hold whatever becomes of the hash.
LEMMA CallsStep ==
  StepTypes /\ BootOK /\ EraseCallOK /\ Next => BootOK' /\ EraseCallOK'
<1> SUFFICES ASSUME StepTypes, BootOK, EraseCallOK, Next PROVE BootOK' /\ EraseCallOK'
  OBVIOUS
<1> USE DEF BootOK, EraseCallOK, Booted, Clearing, Goto, flags, erasing, hooks, hostcmd, history
<1>1. CASE vboot_hash_all_chunks
  BY <1>1 DEF vboot_hash_all_chunks
<1>7. CASE vboot_hash_init
  BY <1>7 DEF vboot_hash_init
<1>2. CASE HostCommands \/ RecalcReturns \/ WriteEnds
  BY <1>2 DEF HostCommands, HostStart, HostAbort, WriteBegins, EraseAsync, EraseGetResult,
     RecalcReturns, WriteEnds
<1>3. CASE BeginChunk \/ TakeSize \/ HashChunk \/ SkipChunk \/ FailChunk \/ StoreHash
  BY <1>3 DEF BeginChunk, TakeSize, HashChunk, SkipChunk, FailChunk, StoreHash
<1>4. CASE Advance \/ Finish \/ CheckAbort
  BY <1>4 DEF Advance, Finish, CheckAbort
<1>5. CASE abort_in_hooks
  BY <1>5 DEF abort_in_hooks, StepTypes
<1>6. CASE BeginErase
  BY <1>6 DEF BeginErase
<1>8. CASE Invalidate
  BY <1>8 DEF Invalidate
<1>9. CASE Erase
  BY <1>9 DEF Erase
<1> QED BY <1>1, <1>2, <1>3, <1>4, <1>5, <1>6, <1>7, <1>8, <1>9 DEF Next, Boot, Hooks

\* The chunk steps of HOOKS.
LEMMA ChunkSteps ==
  ASSUME DataTypes, FlagTypes, StepTypes, Clean, HashOK,
         BeginChunk \/ TakeSize \/ HashChunk \/ SkipChunk \/ FailChunk \/ Advance \/ StoreHash
  PROVE  Clean' => HashOK'
<1> USE DEF HashOK, ControlOK, ProgressOK, OverlapOK, UpdateOK, DoneOK, InChunk, FailedRead, Stores,
            Fresh, Hashing, AnswersDone, Torn, Read, Clearing, Goto, request, result, flags, hostcmd,
            erasing, hooks, history
<1>1. CASE BeginChunk
  BY <1>1, SameContent, SameRegion DEF BeginChunk
<1>2. CASE TakeSize
  BY <1>2, SameContent, SameRegion DEF TakeSize, DataTypes, Hashed, Region
<1>3. CASE HashChunk
  BY <1>3, SameContent, SameRegion, HashedChunk DEF HashChunk, DataTypes, Hashed, Region, StepTypes
<1>4. CASE SkipChunk
  BY <1>4 DEF SkipChunk, Clean
<1>5. CASE FailChunk
  BY <1>5, SameContent, SameRegion DEF FailChunk
<1>6. CASE Advance
  BY <1>6, SameContent, SameRegion DEF Advance, DataTypes, Hashed, Region, StepTypes
<1>7. CASE StoreHash
  BY <1>7, SameContent, SameRegion, StoredHash DEF StoreHash
<1> QED BY <1>1, <1>2, <1>3, <1>4, <1>5, <1>6, <1>7

\* The end of a hash, and the abort of HOOKS.
LEMMA EndSteps ==
  ASSUME DataTypes, FlagTypes, StepTypes, Clean, HashOK, Finish \/ CheckAbort \/ abort_in_hooks
  PROVE  HashOK'
<1> USE DEF HashOK, ControlOK, ProgressOK, OverlapOK, UpdateOK, DoneOK, InChunk, FailedRead, Stores,
            Fresh, Hashing, AnswersDone, Torn, Read, Clearing, Goto, request, result, flags, hostcmd,
            erasing, hooks, history
<1>1. CASE Finish
  BY <1>1, SameContent, SameRegion, EmptyRegion DEF Finish, DataTypes, Hashed, Region
<1>2. CASE CheckAbort
  BY <1>2, SameContent, SameRegion DEF CheckAbort
<1>3. CASE abort_in_hooks /\ pc = "abort"
  BY <1>3, SameContent, SameRegion DEF abort_in_hooks, StepTypes
<1>5. CASE abort_in_hooks /\ pc = "clear_abort"
  BY <1>5, FreshSoFar, SameContent, SameRegion DEF abort_in_hooks, StepTypes
<1>6. CASE abort_in_hooks /\ pc = "clear_hash"
  BY <1>6, SameContent, SameRegion DEF abort_in_hooks, StepTypes
<1>4. CASE abort_in_hooks /\ pc = "clear_size"
  BY <1>4, FreshSoFar, EmptyRegion DEF abort_in_hooks, DataTypes, Hashed, Region
<1> QED BY <1>1, <1>2, <1>3, <1>4, <1>5, <1>6 DEF abort_in_hooks

\* The deferred erase.
LEMMA EraseSteps ==
  ASSUME DataTypes, DataTypes', FlagTypes, StepTypes, EraseCallOK, Clean, HashOK,
         BeginErase \/ Invalidate \/ Erase
  PROVE  HashOK'
<1> USE DEF HashOK, ControlOK, ProgressOK, OverlapOK, UpdateOK, DoneOK, InChunk, FailedRead, Stores,
            Fresh, Hashing, AnswersDone, Torn, Read, Clearing, Goto, request, result, flags, hostcmd,
            erasing, hooks, history
<1>1. CASE BeginErase
  BY <1>1, SameContent, SameRegion DEF BeginErase
<1>2. CASE Invalidate
  <2>1. hash /\ ~Overlaps(erase_info) => EraseElsewhere
    BY NotOverlapping DEF EraseElsewhere, StepTypes
  <2> QED BY <1>2, <2>1, SameContent, SameRegion DEF Invalidate, EraseCallOK
<1>3. CASE Erase
  <2>1. AnswersDone => (Right' <=> Right)
    <3>1. CASE flash' = flash
      BY <1>3, <3>1, SameContent, SameRegion DEF Erase
    <3>2. CASE flash' = Updated(erase_info)
      BY <1>3, <3>2, UpdateKeeps DEF Erase, EraseElsewhere
    <3> QED BY <1>3, <3>1, <3>2 DEF Erase
  <2> QED BY <1>3, <2>1, FreshSoFar, SameRegion DEF Erase
<1> QED BY <1>1, <1>2, <1>3

\* A start leaves nothing of the hash before it.
LEMMA StartSteps ==
  ASSUME DataTypes, FlagTypes, StepTypes, BootOK, Clean => HashOK,
         NEW r \in Region, vboot_hash_start(r), flash' = flash, erasing' = erasing, host = "idle",
         \/ ~Booted /\ pc' = "idle" /\ UNCHANGED hostcmd
         \/ Booted /\ UNCHANGED hooks /\ host' # "writing",
         Clean'
  PROVE  HashOK'
<1> USE DEF ControlOK, ProgressOK, OverlapOK, UpdateOK, DoneOK, InChunk, FailedRead, Stores,
            Fresh, Hashing, AnswersDone, Torn, Read, Clearing, erasing, hooks, hostcmd, Booted
<1>1. /\ data_offset' = r.offset /\ data_size' = r.size /\ curr_pos' = 0 /\ ctx' = <<>>
      /\ hash' = FALSE /\ want_abort' = FALSE /\ next_chunk' = TRUE
      /\ ~in_progress /\ in_progress' = TRUE
  BY StartFacts
<1>2. pc # "idle" /\ Booted => HashOK
  BY DEF vboot_hash_start, Clean
<1>3. pc = "idle" \/ ~Booted \/ (Booted /\ HashOK /\ UNCHANGED hooks)
  BY <1>2
<1>4. /\ ~InChunk' /\ pc' # "final" /\ (pc' \in Stores => ret' # "advance")
      /\ host' # "writing"
  <2>1. CASE pc' = "idle"
    BY <2>1
  <2>2. CASE Booted /\ HashOK /\ UNCHANGED hooks /\ host' # "writing"
    <3>1. ~InChunk
      BY <1>1, <2>2 DEF HashOK
    <3>2. pc' = pc /\ ret' = ret
      BY <2>2
    <3> QED BY <2>2, <3>1, <3>2 DEF HashOK
  <2> QED BY <1>3, <2>1, <2>2
<1>5. Read' = 0
  BY <1>1, <1>4
<1>6. SoFar'
  BY <1>1, <1>5, FreshSoFar
<1> QED BY <1>1, <1>4, <1>5, <1>6 DEF HashOK, DataTypes, Region

\* Boot.
LEMMA BootSteps ==
  ASSUME DataTypes, FlagTypes, StepTypes, BootOK, Clean => HashOK, Boot, Clean'
  PROVE  HashOK'
<1> USE DEF HashOK, ControlOK, ProgressOK, OverlapOK, UpdateOK, DoneOK, InChunk, FailedRead, Stores,
            Fresh, Hashing, AnswersDone, Torn, Read, Clearing, erasing, hooks, hostcmd, Booted, request,
            result, flags, BootOK, history
<1>1. CASE vboot_hash_all_chunks
  <2>1. ~want_abort' => Right'
    BY <1>1 DEF vboot_hash_all_chunks, Right, Content, Hashed
  <2> QED BY <1>1, <2>1 DEF vboot_hash_all_chunks
<1>2. CASE vboot_hash_init /\ vboot_hash_start(RW)
  <2> QED BY <1>2, StartSteps, VbootHashAssumption DEF vboot_hash_init
<1>3. CASE vboot_hash_init /\ ~vboot_hash_start(RW)
  BY <1>3, SameContent, SameRegion DEF vboot_hash_init, Clean
<1> QED BY <1>1, <1>2, <1>3 DEF Boot

\* The host command task.
LEMMA HostSteps ==
  ASSUME DataTypes, DataTypes', FlagTypes, StepTypes, BootOK, EraseCallOK, Clean => HashOK, Clean',
         HostCommands \/ RecalcReturns \/ WriteEnds
  PROVE  HashOK'
<1>1. CASE HostStart
  <2>1. PICK r \in Regions : vboot_hash_start(r)
    BY <1>1 DEF HostStart
  <2>2. r \in Region
    BY VbootHashAssumption
  <2>3. flash' = flash /\ erasing' = erasing /\ host = "idle" /\ Booted /\ UNCHANGED hooks
        /\ host' # "writing"
    BY <1>1 DEF HostStart, hostcmd
  <2> QED BY <2>1, <2>2, <2>3, StartSteps
<1> USE DEF HashOK, ControlOK, ProgressOK, OverlapOK, UpdateOK, DoneOK, InChunk, FailedRead, Stores,
            Fresh, Hashing, AnswersDone, Torn, Read, Clearing, erasing, hooks, hostcmd, request,
            result, flags, history
<1>3. CASE RecalcReturns
  BY <1>3, SameContent, SameRegion DEF RecalcReturns, Clean
<1>4. CASE EraseAsync \/ EraseGetResult
  BY <1>4, SameContent, SameRegion DEF EraseAsync, EraseGetResult, Clean, EraseCallOK
<1>5. CASE HostAbort
  BY <1>5, SameContent, SameRegion, EmptyRegion DEF HostAbort, Clean, vboot_hash_abort, Booted
<1>6. CASE WriteBegins
  <2>1. ~in_progress /\ hash' => HostElsewhere'
    <3>1. asked' \in Region
      BY <1>6, VbootHashAssumption DEF WriteBegins
    <3>2. ~in_progress /\ hash' => hash /\ ~Overlaps(asked') /\ Hashed' = Hashed
      BY <1>6 DEF WriteBegins, vboot_hash_abort, Hashed
    <3> QED BY <3>1, <3>2, NotOverlapping DEF HostElsewhere, Disjoint
  <2>2. HashOK
    BY <1>6 DEF WriteBegins, Clean
  <2>3. CASE in_progress
    BY <1>6, <2>2, <2>3, SameContent, SameRegion DEF WriteBegins, vboot_hash_abort
  <2>4. CASE ~in_progress
    BY <1>6, <2>1, <2>2, <2>4, SameContent, SameRegion DEF WriteBegins, vboot_hash_abort
  <2> QED BY <2>3, <2>4
<1>7. CASE WriteEnds
  <2>1. HashOK /\ host = "writing" /\ host' = "idle" /\ flash' = Updated(asked)
    BY <1>7 DEF WriteEnds, Clean
  <2>2. UNCHANGED <<request, result, flags, next_chunk, erasing, hooks>>
    BY <1>7 DEF WriteEnds
  <2>3. HostElsewhere => (Right' <=> Right)
    BY <2>1, <2>2, UpdateKeeps DEF HostElsewhere
  <2>4. Hashing => data_size = 0 \/ pc = "clear_size"
    BY <2>1
  <2>5. Hashing /\ ~FailedRead /\ pc # "done" => Read' = 0 /\ ctx' = <<>>
    <3> SUFFICES ASSUME Hashing, ~FailedRead, pc # "done" PROVE Read' = 0 /\ ctx' = <<>>
      OBVIOUS
    <3>1. CASE pc = "clear_size"
      BY <2>1, <2>2, <3>1
    <3>2. CASE data_size = 0
      <4>1. Read <= 0 /\ Read \in Nat
        BY <2>1, <3>2 DEF DataTypes, StepTypes
      <4>2. Read = 0 /\ SoFar
        BY <2>1, <4>1
      <4>3. Content(Part(0)) = <<>>
        BY ContentEmpty DEF Part
      <4> QED BY <2>2, <4>2, <4>3 DEF SoFar
    <3> QED BY <2>4, <3>1, <3>2
  <2>6. Hashing => HostElsewhere \/ pc # "done"
    BY <2>4, EmptyRegion DEF DataTypes, Hashed, Region
  <2>7. EraseElsewhere' <=> EraseElsewhere
    BY <2>2, SameRegion
  <2> QED BY <2>1, <2>2, <2>3, <2>5, <2>6, <2>7, FreshSoFar
<1> QED BY <1>1, <1>3, <1>4, <1>5, <1>6, <1>7 DEF HostCommands

\* What a RECALC waits for is only disturbed by what spoilt records.
LEMMA RecalcStep ==
  StepTypes /\ BootOK /\ (Clean => HashOK) /\ RecalcOK /\ Next => RecalcOK'
<1> SUFFICES ASSUME StepTypes, BootOK, Clean => HashOK, RecalcOK, Next PROVE RecalcOK'
  OBVIOUS
<1> USE DEF RecalcOK, Clearing, Goto, request, result, flags, erasing, hooks, hostcmd, history
<1>1. CASE Boot
  BY <1>1 DEF Boot, vboot_hash_all_chunks, vboot_hash_init, BootOK, Booted
<1>2. CASE HostStart
  <2>1. PICK r \in Regions : vboot_hash_start(r) /\ (host' = "recalc" => asked' = r)
    BY <1>2 DEF HostStart, hostcmd
  <2>2. Hashed' = r /\ want_abort' = FALSE /\ in_progress' = TRUE
    BY <2>1, VbootHashAssumption, StartFacts
  <2>3. pc \in Clearing => "cleared" \in spoilt'
    BY <2>1 DEF vboot_hash_start
  <2>4. spoilt' = {} => pc' \notin Clearing
    BY <1>2, <2>3 DEF HostStart
  <2> QED BY <2>1, <2>2, <2>4
<1>3. CASE HostAbort \/ WriteBegins \/ EraseAsync \/ EraseGetResult \/ RecalcReturns \/ WriteEnds
  BY <1>3 DEF HostAbort, WriteBegins, EraseAsync, EraseGetResult, RecalcReturns, WriteEnds, Hashed
<1>4. CASE BeginChunk \/ TakeSize \/ HashChunk \/ Advance \/ StoreHash
  BY <1>4 DEF BeginChunk, TakeSize, HashChunk, Advance, StoreHash, Hashed
<1>5. CASE SkipChunk \/ FailChunk
  BY <1>5 DEF SkipChunk, FailChunk
<1>6. CASE Finish
  BY <1>6 DEF Finish, Hashed, Clean, HashOK, ProgressOK
<1>7. CASE CheckAbort \/ abort_in_hooks
  BY <1>7 DEF CheckAbort, abort_in_hooks, Hashed
<1>8. CASE BeginErase \/ Invalidate \/ Erase
  BY <1>8 DEF BeginErase, Invalidate, Erase, Hashed
<1> QED BY <1>1, <1>2, <1>3, <1>4, <1>5, <1>6, <1>7, <1>8 DEF Next, Hooks, HostCommands

\* So the hash stays right over every step.
LEMMA HashStep ==
  ASSUME DataTypes, DataTypes', FlagTypes, StepTypes, BootOK, EraseCallOK, Clean => HashOK, Next, Clean'
  PROVE  HashOK'
<1>1. CASE Boot
  BY <1>1, BootSteps
<1>2. CASE HostCommands \/ RecalcReturns \/ WriteEnds
  BY <1>2, HostSteps
<1>3. CASE Hooks
  <2>1. Clean
    BY <1>3 DEF Hooks, BeginChunk, TakeSize, HashChunk, SkipChunk, FailChunk, Advance, StoreHash,
       Finish, CheckAbort, abort_in_hooks, BeginErase, Invalidate, Erase, Clean, history
  <2> QED BY <1>3, <2>1, ChunkSteps, EndSteps, EraseSteps DEF Hooks
<1> QED BY <1>1, <1>2, <1>3 DEF Next

\* The invariant is inductive.
LEMMA NextIInv == IInv /\ [Next]_vars => IInv'
<1> SUFFICES ASSUME IInv, [Next]_vars PROVE IInv'
  OBVIOUS
<1>1. DataTypes /\ FlagTypes /\ StepTypes
  BY TypeParts DEF IInv
<1>2. CASE Next
  <2>1. TypeOK' /\ Fits'
    BY <1>2, TypeStep DEF IInv
  <2>2. DataTypes'
    BY <1>1, <1>2, DataStep
  <2>3. BootOK' /\ EraseCallOK'
    BY <1>1, <1>2, CallsStep DEF IInv
  <2>4. Clean' => HashOK'
    BY <1>1, <1>2, <2>2, HashStep DEF IInv
  <2>5. RecalcOK'
    BY <1>1, <1>2, RecalcStep DEF IInv
  <2> QED BY <2>1, <2>3, <2>4, <2>5 DEF IInv
<1>3. CASE UNCHANGED vars
  <2>1. UNCHANGED <<request, result, flags, erasing, hooks, hostcmd, history, flash, next_chunk, mapped>>
    BY <1>3 DEF vars
  <2> USE <2>1 DEF request, result, flags, erasing, hooks, hostcmd, history
  <2>2. TypeOK' /\ Fits' /\ BootOK' /\ EraseCallOK'
    BY DEF IInv, TypeOK, Fits, BootOK, EraseCallOK, Hashed, Booted
  <2>3. Clean' => HashOK'
    BY SameContent, SameRegion DEF IInv, Clean, HashOK, ControlOK, ProgressOK, OverlapOK, UpdateOK, DoneOK,
       InChunk, FailedRead, Fresh, Hashing, AnswersDone, Torn, Read
  <2>4. RecalcOK'
    BY DEF IInv, RecalcOK, Hashed
  <2> QED BY <2>2, <2>3, <2>4 DEF IInv
<1> QED BY <1>2, <1>3

-----------------------------------------------------------------------------
(***************************************************************************)
(* The theorems.                                                           *)
(***************************************************************************)

\* Every state the code reaches satisfies the inductive invariant.
THEOREM Invariance == Spec => []IInv
BY InitIInv, NextIInv, PTL DEF Spec

\* The variables keep their types, and the hashed region stays within the
\* flash (vboot_hash.c:222-229).
THEOREM TypeCorrect == Spec => [](TypeOK /\ Fits)
<1>1. IInv => TypeOK /\ Fits
  BY DEF IInv
<1> QED BY <1>1, Invariance, PTL

\* A hash answered as done is that of the flash as it is, for every size of
\* the flash and every set of regions that are hashed, written or erased.
THEOREM HashIsTrue == Spec => []AnswerIsTrue
<1>1. IInv => AnswerIsTrue
  BY DEF IInv, Clean, HashOK, DoneOK, Right, AnswerIsTrue
<1> QED BY <1>1, Invariance, PTL

\* A RECALC answers for the region it was asked for, unless HOOKS met one of
\* the four things that spoil the hash.
THEOREM RecalcIsAnswered == Spec => RecalcAnswers
<1>1. IInv /\ [Next]_vars => [RecalcReturns => (AnswersDone /\ Hashed = asked) \/ spoilt # {}]_vars
  BY DEF IInv, RecalcOK, RecalcReturns, AnswersDone
<1> QED BY <1>1, Invariance, PTL DEF Spec, RecalcAnswers

-----------------------------------------------------------------------------
(***************************************************************************)
(* The hook task, whose deferred calls read the chunks: theorems of        *)
(* EcHooks, for every number of routines and every tick interval, delay    *)
(* and length of time.  No deferred call is lost, and the hook task does   *)
(* not sleep through one.                                                  *)
(***************************************************************************)

\* The clock ran before the first call, and what was read of it is past.
ClockPast == last_tick <= t /\ t <= now

\* Whoever calls after the task has started wakes it.
Started == hook_pc # "start" => hook_task_started

\* From the look at the clock and the timers to the wait, nothing is due
\* before the sleep is over, or the wake event is pending.
Asleep(end) ==
  ~event => /\ \A d \in owed : end <= deferred_until[d]
            /\ end <= last_tick + HOOK_TICK_INTERVAL
SleepOK ==
  /\ hook_pc = "arm" => Asleep(t + next)
  /\ hook_pc = "wait" => Asleep(wakeAt - lag)

HooksIInv == HooksTypeOK /\ ClockPast /\ Started /\ NoCallLost /\ SleepOK

-----------------------------------------------------------------------------
\* A sleep of at most the time from a to u does not pass u.
LEMMA SleepEnds ==
  ASSUME NEW a \in Int, NEW u \in Int, NEW m \in Nat, m <= (IF u > a THEN u - a ELSE 0), m > 0
  PROVE  a + m <= u
OBVIOUS

\* A sleep that ends before the next tick is no longer than a tick.
LEMMA SleepIsShort ==
  ASSUME NEW a \in Int, NEW b \in Int, NEW h \in Nat, NEW m \in Nat, b <= a, m > 0 => a + m <= b + h
  PROVE  m \in 0 .. h
OBVIOUS

\* The first state satisfies the inductive invariant.
LEMMA InitHooks == ASSUME HooksInit PROVE HooksIInv
<1> USE HooksAssumption DEF HooksInit
<1>1. deferred_until \in [Funcs -> 0 .. MaxTime + MaxDelay]
  OBVIOUS
<1>2. HooksTypeOK
  <2>1. /\ now \in 1 .. MaxTime /\ t \in 0 .. MaxTime
        /\ lag \in 0 .. MaxTime /\ calls \in 0 .. MaxCalls
    OBVIOUS
  <2>2. last_tick \in 1 - HOOK_TICK_INTERVAL .. MaxTime /\ last_second \in 1 - SECOND .. MaxTime
    OBVIOUS
  <2>3. next \in 0 .. HOOK_TICK_INTERVAL /\ wakeAt \in 0 .. MaxTime + HOOK_TICK_INTERVAL
        /\ i \in 0 .. DEFERRED_FUNCS_COUNT
    OBVIOUS
  <2> QED BY <1>1, <2>1, <2>2, <2>3 DEF HooksTypeOK
<1>3. ClockPast /\ Started /\ NoCallLost /\ SleepOK
  BY DEF ClockPast, Started, NoCallLost, SleepOK
<1> QED BY <1>2, <1>3 DEF HooksIInv

\* A call at any moment.
LEMMA CallStep ==
  ASSUME HooksIInv, NEW d \in Funcs,
         NEW us \in {-1} \union 0 .. MaxDelay, hook_call_deferred(d, us)
  PROVE  HooksIInv'
<1> USE HooksAssumption DEF HooksIInv, hook_call_deferred,
            locals, clocks
<1>1. HooksTypeOK'
  <2>1. deferred_until' \in [Funcs -> 0 .. MaxTime + MaxDelay]
    BY DEF HooksTypeOK
  <2>2. calls' \in 0 .. MaxCalls /\ owed' \subseteq Funcs
    BY DEF HooksTypeOK
  <2> QED BY <2>1, <2>2 DEF HooksTypeOK
<1>2. NoCallLost'
  BY DEF NoCallLost, HooksTypeOK
<1>3. ClockPast' /\ Started'
  BY DEF ClockPast, Started
<1>4. SleepOK'
  <2>1. CASE us = -1
    BY <2>1 DEF SleepOK, Asleep, HooksTypeOK
  <2>2. CASE us # -1 /\ hook_pc # "start"
    BY <2>2 DEF SleepOK, Asleep, Started
  <2>3. CASE hook_pc = "start"
    BY <2>3 DEF SleepOK
  <2> QED BY <2>1, <2>2, <2>3
<1> QED BY <1>1, <1>2, <1>3, <1>4

\* The loop.
LEMMA LoopStep == ASSUME HooksIInv, hook_task PROVE HooksIInv'
<1> USE HooksAssumption DEF HooksIInv, HooksTypeOK, ClockPast, Started,
            NoCallLost, SleepOK, locals, clocks
<1>1. CASE hook_task_start
  BY <1>1 DEF hook_task_start
<1>2. CASE loop_top
  BY <1>2 DEF loop_top
<1>3. CASE call_deferred
  BY <1>3 DEF call_deferred, Due, Funcs
<1>4. CASE call_returns
  BY <1>4 DEF call_returns
<1>5. CASE notify_tick
  BY <1>5 DEF notify_tick
<1>6. CASE notify_second
  BY <1>6 DEF notify_second
<1>7. CASE read_time
  BY <1>7 DEF read_time
<1>8. CASE compute_next
  <2>1. /\ next' \in Sleeps /\ \A r \in Sleeps : next' <= r
        /\ hook_pc' = (IF next' > 0 THEN "arm" ELSE "top")
    BY <1>8 DEF compute_next
  <2>0. UNCHANGED <<now, deferred_until, hook_task_started, clocks, t, i,
                   wakeAt, lag, event, owed, calls>>
    BY <1>8 DEF compute_next
  <2>2. next' \in Nat
    BY <2>1 DEF Sleeps
  <2>3. next' > 0 => t + next' <= last_tick + HOOK_TICK_INTERVAL
    <3> DEFINE u == last_tick + HOOK_TICK_INTERVAL
    <3>1. \E r \in Sleeps : r = (IF u > t THEN u - t ELSE 0)
      BY DEF Sleeps
    <3>2. next' <= (IF u > t THEN u - t ELSE 0)
      BY <2>1, <3>1
    <3>3. t \in Int /\ u \in Int
      OBVIOUS
    <3> HIDE DEF u
    <3>4. next' > 0 => t + next' <= u
      BY <2>2, <3>2, <3>3, SleepEnds
    <3> QED BY <3>4 DEF u
  <2>4. ASSUME NEW d \in owed, next' > 0 PROVE t + next' <= deferred_until[d]
    <3>1. d \in Funcs /\ deferred_until[d] \in Nat /\ deferred_until[d] # 0
      OBVIOUS
    <3>2. \E r \in Sleeps :
            r = (IF deferred_until[d] > t THEN deferred_until[d] - t ELSE 0)
      BY <3>1 DEF Sleeps
    <3>3. next' <= (IF deferred_until[d] > t THEN deferred_until[d] - t ELSE 0)
      BY <2>1, <3>2
    <3>4. t \in Nat
      OBVIOUS
    <3> QED BY <2>2, <2>4, <3>1, <3>3, <3>4, SleepEnds
  <2>5. next' \in 0 .. HOOK_TICK_INTERVAL
    <3>1. t \in Int /\ last_tick \in Int /\ last_tick <= t /\ HOOK_TICK_INTERVAL \in Nat
      OBVIOUS
    <3> QED BY <2>2, <2>3, <3>1, SleepIsShort
  <2>6. SleepOK'
    BY <2>0, <2>1, <2>3, <2>4 DEF Asleep
  <2>10. hook_pc' \in {"arm", "top"}
    BY <2>1
  <2>7. HooksTypeOK'
    BY <2>0, <2>5, <2>10
  <2>8. ClockPast' /\ NoCallLost'
    BY <2>0
  <2>9. Started'
    BY <1>8, <2>0 DEF compute_next
  <2> QED BY <2>6, <2>7, <2>8, <2>9
<1>9. CASE wait_arm
  BY <1>9 DEF wait_arm, Asleep
<1>10. CASE wait_returns
  <2>1. next' \in 0 .. HOOK_TICK_INTERVAL /\ wakeAt' \in 0 .. MaxTime + HOOK_TICK_INTERVAL
        /\ lag' \in 0 .. MaxTime
    <3>1. next' = 0 /\ wakeAt' = 0 /\ lag' = 0
      BY <1>10 DEF wait_returns
    <3> HIDE DEF HooksIInv, HooksTypeOK
    <3> QED BY <3>1
  <2>3. event' \in BOOLEAN
    BY <1>10 DEF wait_returns
  <2>2. HooksTypeOK'
    BY <1>10, <2>1, <2>3 DEF wait_returns
  <2> QED BY <1>10, <2>2 DEF wait_returns
<1> QED BY <1>1, <1>2, <1>3, <1>4, <1>5, <1>6, <1>7, <1>8, <1>9, <1>10 DEF hook_task

\* The invariant is inductive.
LEMMA NextHooks ==
  ASSUME HooksIInv, [HooksNext]_hooks_vars
  PROVE  HooksIInv'
<1>1. CASE Clock
  BY <1>1, HooksAssumption DEF Clock, HooksIInv, HooksTypeOK, ClockPast,
              Started, NoCallLost, SleepOK, Asleep, locals, clocks
<1>2. CASE UNCHANGED hooks_vars
  BY <1>2 DEF hooks_vars, HooksIInv, HooksTypeOK, ClockPast, Started,
              NoCallLost, SleepOK, Asleep, locals, clocks
<1> QED BY <1>1, <1>2, CallStep, LoopStep DEF HooksNext

-----------------------------------------------------------------------------
\* Every state the code reaches satisfies the inductive invariant.
THEOREM HooksInvariance == HooksSpec => []HooksIInv
<1>1. HooksInit => HooksIInv
  BY InitHooks
<1>2. HooksIInv /\ [HooksNext]_hooks_vars => HooksIInv'
  BY NextHooks
<1> QED BY <1>1, <1>2, PTL DEF HooksSpec

\* Every variable keeps its type; the sleep is never longer than a tick
\* (hooks.c:226-247).
THEOREM HooksTyped == HooksSpec => []HooksTypeOK
<1>1. HooksIInv => HooksTypeOK
  BY DEF HooksIInv
<1> QED BY <1>1, HooksInvariance, PTL

\* A scheduled call keeps its timer until it is called or cancelled, although
\* its routine and others schedule it again while it runs (hooks.c:200-207).
THEOREM CallsAreKept == HooksSpec => []NoCallLost
<1>1. HooksIInv => NoCallLost
  BY DEF HooksIInv
<1> QED BY <1>1, HooksInvariance, PTL

\* The hook task is back in time for each call and tick, whoever scheduled it
\* and at whichever step of the loop (hooks.c:161-169, 226-250).
THEOREM SleepsInTime == HooksSpec => []NoOversleep
<1>1. HooksIInv => NoOversleep
  <2> SUFFICES ASSUME HooksIInv, hook_pc = "wait", ~event
               PROVE  /\ \A d \in owed : wakeAt <= deferred_until[d] + lag
                      /\ wakeAt <= last_tick + HOOK_TICK_INTERVAL + lag
    BY DEF NoOversleep
  <2>1. Asleep(wakeAt - lag)
    BY DEF HooksIInv, SleepOK
  <2>2. wakeAt \in Nat /\ lag \in Nat /\ last_tick \in Int /\ owed \subseteq Funcs
        /\ deferred_until \in [Funcs -> 0 .. MaxTime + MaxDelay]
    BY HooksAssumption DEF HooksIInv, HooksTypeOK
  <2>3. ASSUME NEW d \in owed PROVE deferred_until[d] \in Int
    <3>1. MaxTime + MaxDelay \in Nat /\ d \in Funcs
      BY <2>2, HooksAssumption
    <3> QED BY <2>2, <3>1
  <2>4. HOOK_TICK_INTERVAL \in Int
    BY HooksAssumption
  <2> QED BY <2>1, <2>2, <2>3, <2>4 DEF Asleep
<1> QED BY <1>1, HooksInvariance, PTL
=============================================================================
