----------------------------- MODULE MkbpProofs -----------------------------
(***************************************************************************)
(* Proofs about Mkbp for every number of event types, depth of the FIFO    *)
(* and number of events: what the AP is told, that the first entry of the  *)
(* FIFO can be reached, and that the FIFO is the queue of MkbpQueue.       *)
(***************************************************************************)
EXTENDS Mkbp, WellFoundedInduction, TLAPS

-----------------------------------------------------------------------------
(***************************************************************************)
(* The inductive invariant.                                                *)
(***************************************************************************)
Steps(t) == IF t = HOSTCMD THEN HostSteps
            ELSE IF t = HOOKS THEN SourceSteps \union {"force"}
            ELSE SourceSteps \union {"clear"}

Looking == pc[HOSTCMD] \in {"peek", "peek_entries", "busy"}

PcType == pc \in [Tasks -> HostSteps \union SourceSteps \union {"force", "clear"}]

\* Where a task is, and that it sends something, but for the deferred call.
CallOK(t) == /\ pc[t] \in Steps(t)
             /\ pc[t] = "add" => arg[t] \in FifoTypes
             /\ pc[t] = "send" /\ t # HOOKS => arg[t] # None
             /\ t = HOSTCMD /\ Looking => evt \in FifoTypes

\* The ring.
FifoOK == /\ fifo_end = Slot(fifo_start + fifo_entries)
          /\ \A k \in 1 .. fifo_entries : Entries[k] \in FifoTypes

\* An interrupt on its way has somebody who brings it there.
Activating == {"raise", "raised", "failed"}
OwnerOK == interrupt = "INACTIVE_TO_ACTIVE" =>
             \E t \in Tasks : pc[t] \in Activating /\ my_id[t] = interrupt_id

\* Somebody is about to look after the type of the first entry.
First == fifo[fifo_start]
HeadOK == ~keysCleared /\ fifo_entries > 0 =>
            \/ First \in events
            \/ \E t \in Tasks : pc[t] = "send" /\ arg[t] = First
            \/ Looking /\ evt = First
            \/ pc[HOSTCMD] \in {"remove", "more"}

IInv == /\ TypeOK /\ \A t \in Tasks : CallOK(t)
        /\ FifoOK /\ OwnerOK /\ HeadOK

\* interrupt_id has 8 bits.  An activation that begins finds no other that has
\* told the AP with the same id and has not looked at the state since: between
\* the two, 256 activations would have to overtake one.
IdsAreFresh ==
  \A t, u \in Tasks : pc[t] = "raise" /\ pc[u] = "raised" => my_id[t] # my_id[u]

\* Who finds his own id there has told the AP, and nobody has taken it back.
RaisedOK ==
  /\ interrupt = "ACTIVE" => line
  /\ interrupt = "INACTIVE_TO_ACTIVE" =>
       \A t \in Tasks : pc[t] = "raised" /\ my_id[t] = interrupt_id => line

\* An event that is set, or taken by HOSTCMD and perhaps put back, is announced
\* to the AP, or somebody is about to do so.
Pending == events # {} \/ Looking
Announced == \/ line
             \/ deferred /\ pc[HOSTCMD] # "cancel"
             \/ interrupt = "INACTIVE_TO_ACTIVE"
             \/ pc[HOOKS] = "force"
             \/ \E t \in Tasks : pc[t] \in {"send", "net"}
AnnouncedOK == ~netLost /\ Pending => Announced

AInv == RaisedOK /\ AnnouncedOK

-----------------------------------------------------------------------------
(***************************************************************************)
(* Constants, slots, and the search for an event.                          *)
(***************************************************************************)
\* What the proofs use of the constants.
LEMMA Constants ==
  /\ HOOKS \in Tasks /\ HOSTCMD \in Tasks /\ KEYSCAN \in Tasks
  /\ HOOKS # HOSTCMD /\ KEYSCAN # HOSTCMD /\ KEYSCAN # HOOKS
  /\ None \notin Types /\ FifoTypes \subseteq Types /\ 0 \in Types
  /\ \A t \in Tasks, e \in Types : <<t, e>> \in Sources => t # HOSTCMD
<1>1. HOOKS \in Nat /\ HOSTCMD \in Nat /\ HOOKS # HOSTCMD
  BY MkbpTasks DEF Tasks
<1>2. None \notin Types /\ 0 \in Types
  BY MkbpTasks DEF None, Types
<1> QED BY <1>1, <1>2, MkbpTasks DEF Tasks

\* Slots one round ahead at the most.
LEMMA SlotIs ==
  ASSUME NEW i \in Nat
  PROVE  /\ Slot(i) \in Slots
         /\ i < FIFO_DEPTH => Slot(i) = i
         /\ FIFO_DEPTH <= i /\ i < FIFO_DEPTH + FIFO_DEPTH => Slot(i) = i - FIFO_DEPTH
<1> DEFINE q == i \div FIFO_DEPTH
           r == i % FIFO_DEPTH
<1>1. FIFO_DEPTH \in Nat /\ FIFO_DEPTH > 0
  BY MkbpSizes
<1>2. r \in 0 .. FIFO_DEPTH - 1 /\ q \in Nat /\ i = FIFO_DEPTH * q + r
  BY <1>1
<1> HIDE DEF q, r
<1>3. q = 0 => FIFO_DEPTH * q = 0
  BY <1>1
<1>4. q = 1 => FIFO_DEPTH * q = FIFO_DEPTH
  BY <1>1
<1>5. q >= 2 => FIFO_DEPTH * q >= FIFO_DEPTH + FIFO_DEPTH
  <2>1. ASSUME q >= 2 PROVE FIFO_DEPTH * q >= FIFO_DEPTH + FIFO_DEPTH
    <3>1. PICK d \in Nat : q = 2 + d
      <4>1. q - 2 \in Nat /\ q = 2 + (q - 2)
        BY <1>2, <2>1
      <4> QED BY <4>1
    <3>2. FIFO_DEPTH * (2 + d) = FIFO_DEPTH + FIFO_DEPTH + FIFO_DEPTH * d
      BY <1>1
    <3>3. FIFO_DEPTH * d \in Int /\ FIFO_DEPTH * d >= 0
      BY <1>1
    <3> QED BY <1>1, <3>1, <3>2, <3>3
  <2> QED BY <2>1
<1>6. FIFO_DEPTH * q \in Int
  BY <1>1, <1>2
<1>7. q = 0 \/ q = 1 \/ q >= 2
  BY <1>2
<1>8. /\ i < FIFO_DEPTH => r = i
      /\ FIFO_DEPTH <= i /\ i < FIFO_DEPTH + FIFO_DEPTH => r = i - FIFO_DEPTH
  BY <1>1, <1>2, <1>3, <1>4, <1>5, <1>6, <1>7
<1> QED BY <1>1, <1>2, <1>8 DEF Slot, Slots, r

\* A nonempty set of naturals has a least element.
LEMMA Least ==
  ASSUME NEW S \in SUBSET Nat, S # {}
  PROVE  \E x \in S : \A y \in S : x <= y
<1>1. PICK x \in S : \A y \in S : <<y, x>> \notin OpToRel(<, Nat)
  BY NatLessThanWellFounded, WFMin
<1>2. \A y \in S : <<y, x>> \notin OpToRel(<, Nat) => ~(y < x)
  BY DEF OpToRel
<1>3. \A y \in S : ~(y < x)
  BY <1>1, <1>2
<1>4. \A y \in S : y \in Int /\ x \in Int
  OBVIOUS
<1> QED BY <1>3, <1>4

\* The round robin finds an event that is set.
LEMMA RoundRobinFinds ==
  ASSUME TypeOK, events # {}
  PROVE  RoundRobin(last) \in events
<1> DEFINE far(e) == (e + EC_MKBP_EVENT_COUNT - last) % EC_MKBP_EVENT_COUNT
           S == {far(e) : e \in events}
<1>1. EC_MKBP_EVENT_COUNT \in Nat /\ EC_MKBP_EVENT_COUNT > 0
  BY MkbpTasks DEF Types
<1>2. ASSUME NEW e \in events PROVE far(e) \in Nat
  <2>1. e \in Nat /\ e + EC_MKBP_EVENT_COUNT - last \in Nat
    BY <1>1 DEF TypeOK, Types
  <2> QED BY <1>1, <2>1
<1>3. S \in SUBSET Nat /\ S # {}
  BY <1>2
<1>4. PICK x \in S : \A y \in S : x <= y
  BY <1>3, Least
<1>5. \E e \in events : \A f \in events : far(e) <= far(f)
  BY <1>4
<1> QED BY <1>5 DEF RoundRobin

-----------------------------------------------------------------------------
(***************************************************************************)
(* The types and the ring.                                                 *)
(***************************************************************************)
\* The initial state is well typed.
LEMMA InitTypes == Init => TypeOK /\ FifoOK
<1> SUFFICES ASSUME Init PROVE TypeOK /\ FifoOK
  OBVIOUS
<1>1. 0 \in Slots /\ 0 \in 0 .. ID_MOD - 1 /\ Slot(0) = 0 /\ 0 \in 0 .. FIFO_DEPTH
      /\ FIFO_DEPTH \in 0 .. FIFO_DEPTH /\ 0 \in 0 .. MaxEvents
  BY MkbpSizes, SlotIs DEF Slots
<1>2. /\ fifo \in [Slots -> Types] /\ arg \in [Tasks -> Types \union {None}]
      /\ my_id \in [Tasks -> 0 .. ID_MOD - 1]
  BY <1>1, Constants DEF Init
<1>3. TypeOK
  <2>1. /\ events \subseteq Types /\ fifo_add_mutex \in {{}} \union {{t} : t \in Tasks}
        /\ interrupt \in {"INACTIVE", "INACTIVE_TO_ACTIVE", "ACTIVE"}
        /\ line \in BOOLEAN /\ deferred \in BOOLEAN
        /\ keysCleared \in BOOLEAN /\ netLost \in BOOLEAN
    BY DEF Init
  <2>2. /\ interrupt_id \in 0 .. ID_MOD - 1 /\ failed_attempts \in 0 .. 2
        /\ fifo_start \in Slots /\ fifo_end \in Slots
        /\ fifo_entries \in 0 .. FIFO_DEPTH /\ fifo_max_depth \in 0 .. FIFO_DEPTH
        /\ last \in Types /\ evt \in Types \union {None} /\ seen \in Types \union {None}
        /\ sent \in 0 .. MaxEvents
    BY <1>1, Constants DEF Init
  <2>3. pc \in [Tasks -> HostSteps \union SourceSteps \union {"force", "clear"}]
    BY DEF Init, SourceSteps
  <2> QED BY <1>2, <2>1, <2>2, <2>3 DEF TypeOK
<1>4. FifoOK
  BY <1>1 DEF Init, FifoOK
<1> QED BY <1>3, <1>4


\* The id of the next activation.
LEMMA NextId == ASSUME TypeOK PROVE (interrupt_id + 1) % ID_MOD \in 0 .. ID_MOD - 1
<1>1. ID_MOD \in Nat /\ ID_MOD > 0 /\ interrupt_id + 1 \in Nat
  BY MkbpSizes DEF TypeOK
<1> QED BY <1>1

\* take_event takes an event that is set.
LEMMA TakeEffect ==
  ASSUME TypeOK, take_event
  PROVE  evt' \in events /\ evt' \in Types /\ last' \in Types /\ events' = events \ {evt'}
<1>1. evt' \in events /\ events' = events \ {evt'}
  BY RoundRobinFinds DEF take_event
<1>2. EC_MKBP_EVENT_COUNT \in Nat /\ EC_MKBP_EVENT_COUNT > 0 /\ evt' \in Types
  BY <1>1, MkbpTasks DEF Types, TypeOK
<1>3. last' \in Types
  BY <1>2 DEF take_event, Types
<1> QED BY <1>1, <1>2, <1>3

\* What follows from an entry is one more in the sequence.
LEMMA EntryIs ==
  ASSUME TypeOK, NEW k \in 1 .. FIFO_DEPTH
  PROVE  /\ fifo_start + k - 1 \in Nat /\ fifo_start + k - 1 < FIFO_DEPTH + FIFO_DEPTH
         /\ Slot(fifo_start + k - 1) \in Slots
  BY SlotIs, MkbpSizes DEF TypeOK, Slots

\* fifo_put appends an entry.
LEMMA PutEffect ==
  ASSUME TypeOK, FifoOK, NEW t \in Tasks, CallOK(t), fifo_put(t)
  PROVE  /\ arg[t] \in FifoTypes /\ arg[t] \in Types
         /\ fifo_end' \in Slots /\ fifo_entries < FIFO_DEPTH
         /\ fifo_entries' \in 1 .. FIFO_DEPTH /\ fifo_entries' = fifo_entries + 1
         /\ fifo' \in [Slots -> Types] /\ FifoOK'
         /\ \A k \in 1 .. fifo_entries : Entries'[k] = Entries[k]
         /\ Entries'[fifo_entries + 1] = arg[t]
<1>1. /\ arg[t] \in FifoTypes /\ arg[t] \in Types
  BY Constants DEF fifo_put, Executes, CallOK
<1>2. /\ fifo_entries \in Nat /\ fifo_entries < FIFO_DEPTH /\ fifo_start \in Slots
      /\ fifo_entries' \in 1 .. FIFO_DEPTH /\ fifo_entries' = fifo_entries + 1
      /\ fifo_start' = fifo_start /\ fifo_end \in Slots /\ FIFO_DEPTH \in Nat
  BY MkbpSizes DEF TypeOK, fifo_put
<1>3. fifo_end' \in Slots /\ fifo_end' = Slot(fifo_end + 1)
  BY <1>2, SlotIs DEF fifo_put, Slots
<1>4. fifo' = [fifo EXCEPT ![fifo_end] = arg[t]] /\ fifo \in [Slots -> Types]
  BY DEF TypeOK, fifo_put
<1>5. fifo' \in [Slots -> Types]
  BY <1>1, <1>2, <1>4
<1>6. ASSUME NEW k \in 1 .. fifo_entries
      PROVE  Slot(fifo_start + k - 1) \in Slots /\ Slot(fifo_start + k - 1) # fifo_end
  <2>1. /\ fifo_start + k - 1 \in Nat /\ fifo_start + fifo_entries \in Nat
        /\ fifo_start + fifo_entries < FIFO_DEPTH + FIFO_DEPTH
    BY <1>2 DEF Slots
  <2> QED BY <1>2, <2>1, SlotIs DEF FifoOK, Slots
<1>7. \A k \in 1 .. fifo_entries : Entries'[k] = Entries[k]
  BY <1>2, <1>4, <1>6 DEF Entries
<1>8. Entries'[fifo_entries + 1] = arg[t]
  <2>1. fifo'[fifo_end] = arg[t] /\ fifo_end = Slot(fifo_start + fifo_entries)
    BY <1>2, <1>4 DEF FifoOK
  <2>2. fifo_start + (fifo_entries + 1) - 1 = fifo_start + fifo_entries
        /\ fifo_entries + 1 \in 1 .. fifo_entries'
    BY <1>2 DEF Slots
  <2> QED BY <1>2, <2>1, <2>2 DEF Entries
<1>9. fifo_end' = Slot(fifo_start' + fifo_entries')
  <2>1. /\ fifo_start + fifo_entries \in Nat /\ fifo_start + fifo_entries + 1 \in Nat
        /\ fifo_end + 1 \in Nat /\ fifo_start < FIFO_DEPTH
        /\ fifo_start + (fifo_entries + 1) = fifo_start + fifo_entries + 1
    BY <1>2 DEF Slots
  <2>2. Slot(fifo_end + 1) = Slot(fifo_start + fifo_entries + 1)
    BY <1>2, <2>1, SlotIs, MkbpSizes DEF FifoOK, Slots
  <2> QED BY <1>2, <1>3, <2>1, <2>2
<1>10. FifoOK'
  <2>1. \A k \in 1 .. fifo_entries : Entries[k] \in FifoTypes
    BY DEF FifoOK
  <2>2. \A k \in 1 .. fifo_entries' : k \in 1 .. fifo_entries \/ k = fifo_entries + 1
    BY <1>2
  <2> QED BY <1>1, <1>7, <1>8, <1>9, <2>1, <2>2 DEF FifoOK
<1> QED BY <1>1, <1>2, <1>3, <1>5, <1>7, <1>8, <1>10

\* fifo_remove takes the first entry, if there is one.
LEMMA RemoveEffect ==
  ASSUME TypeOK, FifoOK, fifo_remove
  PROVE  /\ fifo_start' \in Slots /\ fifo_entries' \in 0 .. FIFO_DEPTH /\ FifoOK'
         /\ fifo_entries = 0 => fifo_entries' = 0 /\ fifo_start' = fifo_start
         /\ fifo_entries > 0 => /\ fifo_entries' = fifo_entries - 1
                                /\ \A k \in 1 .. fifo_entries - 1 : Entries'[k] = Entries[k + 1]
<1>1. /\ fifo_entries \in 0 .. FIFO_DEPTH /\ fifo_start \in Slots /\ FIFO_DEPTH \in Nat
      /\ fifo' = fifo /\ fifo_end' = fifo_end
  BY MkbpSizes DEF TypeOK, fifo_remove
<1>2. CASE fifo_entries = 0
  <2>1. fifo_start' = fifo_start /\ fifo_entries' = fifo_entries
    BY <1>2 DEF fifo_remove
  <2> QED BY <1>1, <1>2, <2>1 DEF FifoOK, Entries
<1>3. CASE fifo_entries > 0
  <2>1. fifo_start' = Slot(fifo_start + 1) /\ fifo_entries' = fifo_entries - 1
    BY <1>3 DEF fifo_remove
  <2>2. fifo_start' \in Slots /\ fifo_entries' \in 0 .. FIFO_DEPTH
    BY <1>1, <1>3, <2>1, SlotIs DEF Slots
  <2>3. \A k \in 1 .. fifo_entries - 1 : Entries'[k] = Entries[k + 1]
    <3> SUFFICES ASSUME NEW k \in 1 .. fifo_entries - 1 PROVE Entries'[k] = Entries[k + 1]
      OBVIOUS
    <3>1. /\ k + 1 \in 1 .. fifo_entries /\ k \in 1 .. fifo_entries'
          /\ fifo_start + (k + 1) - 1 = fifo_start + k
      BY <1>1, <2>1 DEF Slots
    <3>2. Slot(fifo_start' + k - 1) = Slot(fifo_start + k)
      <4>1. /\ fifo_start + 1 \in Nat /\ fifo_start + k \in Nat /\ fifo_start' + k - 1 \in Nat
            /\ fifo_start < FIFO_DEPTH /\ k < FIFO_DEPTH /\ k \in Nat /\ k >= 1
        BY <1>1, <1>3, <2>1, <2>2 DEF Slots
      <4> QED BY <1>1, <2>1, <4>1, SlotIs, MkbpSizes DEF Slots
    <3> QED BY <1>1, <3>1, <3>2 DEF Entries
  <2>4. fifo_end' = Slot(fifo_start' + fifo_entries')
    <3>1. /\ fifo_start + 1 \in Nat /\ fifo_start + fifo_entries \in Nat
          /\ fifo_start' + fifo_entries' \in Nat /\ fifo_start < FIFO_DEPTH
      BY <1>1, <1>3, <2>1, <2>2 DEF Slots
    <3>2. Slot(fifo_start' + fifo_entries') = Slot(fifo_start + fifo_entries)
      BY <1>1, <1>3, <2>1, <3>1, SlotIs, MkbpSizes DEF Slots
    <3> QED BY <1>1, <3>2 DEF FifoOK
  <2>5. \A k \in 1 .. fifo_entries' : k \in 1 .. fifo_entries - 1 /\ k + 1 \in 1 .. fifo_entries
    BY <1>1, <2>1
  <2>6. FifoOK'
    BY <2>1, <2>3, <2>4, <2>5 DEF FifoOK
  <2> QED BY <1>3, <2>1, <2>2, <2>3, <2>6
<1> QED BY <1>1, <1>2, <1>3

\* Clearing the keyboard leaves the entries of other types, in their order.
LEMMA ClearEffect ==
  ASSUME TypeOK, FifoOK, mkbp_fifo_clear_keyboard
  PROVE  /\ fifo_end' \in Slots /\ fifo_entries' \in 0 .. FIFO_DEPTH
         /\ fifo' \in [Slots -> Types] /\ FifoOK'
         /\ \E n \in 0 .. fifo_entries : \E from \in [1 .. n -> Kept] :
              /\ \A i, j \in 1 .. n : i < j => from[i] < from[j]
              /\ \A k \in Kept : \E i \in 1 .. n : from[i] = k
              /\ fifo_entries' = n
              /\ \A i \in 1 .. n : Entries'[i] = Entries[from[i]]
<1>0. PICK n \in 0 .. fifo_entries :
        \E from \in [1 .. n -> Kept] :
          /\ \A i, j \in 1 .. n : i < j => from[i] < from[j]
          /\ \A k \in Kept : \E i \in 1 .. n : from[i] = k
          /\ fifo' = [i \in Slots |-> IF Behind(i) < n THEN Entries[from[Behind(i) + 1]]
                                     ELSE fifo[i]]
          /\ fifo_end' = Slot(fifo_start + n)
          /\ fifo_entries' = n
  BY DEF mkbp_fifo_clear_keyboard
<1>1. PICK from \in [1 .. n -> Kept] :
        /\ \A i, j \in 1 .. n : i < j => from[i] < from[j]
        /\ \A k \in Kept : \E i \in 1 .. n : from[i] = k
        /\ fifo' = [i \in Slots |-> IF Behind(i) < n THEN Entries[from[Behind(i) + 1]]
                                   ELSE fifo[i]]
        /\ fifo_end' = Slot(fifo_start + n)
        /\ fifo_entries' = n
  BY <1>0
<1>2. /\ fifo_entries \in 0 .. FIFO_DEPTH /\ fifo_start \in Slots /\ FIFO_DEPTH \in Nat
      /\ fifo_start' = fifo_start /\ n \in 0 .. FIFO_DEPTH /\ fifo \in [Slots -> Types]
  BY MkbpSizes DEF TypeOK, mkbp_fifo_clear_keyboard
<1>3. \A k \in Kept : k \in 1 .. fifo_entries /\ Entries[k] \in FifoTypes
  BY DEF Kept, FifoOK
<1>4. \A i \in 1 .. n : Entries[from[i]] \in FifoTypes
  BY <1>1, <1>3
<1>5. fifo_end' \in Slots /\ fifo_start + n \in Nat
  BY <1>1, <1>2, SlotIs DEF Slots
<1>6. ASSUME NEW i \in Slots PROVE Behind(i) \in Slots
  <2>1. i + FIFO_DEPTH - fifo_start \in Nat
    BY <1>2 DEF Slots
  <2> QED BY <2>1, SlotIs DEF Behind
<1>7. ASSUME NEW i \in Slots PROVE fifo'[i] \in Types
  <2>1. Behind(i) < n => Behind(i) + 1 \in 1 .. n
    BY <1>2, <1>6 DEF Slots
  <2> QED BY <1>1, <1>2, <1>4, <2>1, Constants
<1>8. fifo' \in [Slots -> Types]
  BY <1>1, <1>7
<1>9. ASSUME NEW m \in 1 .. n PROVE Entries'[m] = Entries[from[m]]
  <2> DEFINE i == Slot(fifo_start + m - 1)
  <2>1. /\ fifo_start + m - 1 \in Nat /\ fifo_start \in Nat /\ fifo_start < FIFO_DEPTH
        /\ m \in Nat /\ m >= 1 /\ m <= FIFO_DEPTH
    BY <1>2 DEF Slots
  <2>2. /\ i \in Slots
        /\ fifo_start + m - 1 < FIFO_DEPTH => i = fifo_start + m - 1
        /\ fifo_start + m - 1 >= FIFO_DEPTH => i = fifo_start + m - 1 - FIFO_DEPTH
    BY <1>2, <2>1, SlotIs
  <2> HIDE DEF i
  <2>3. /\ i + FIFO_DEPTH - fifo_start \in Nat
        /\ \/ i + FIFO_DEPTH - fifo_start = FIFO_DEPTH + (m - 1)
           \/ i + FIFO_DEPTH - fifo_start = m - 1
    BY <1>2, <2>1, <2>2 DEF Slots
  <2>4. Behind(i) = m - 1
    BY <1>2, <2>1, <2>3, SlotIs DEF Behind
  <2>5. Behind(i) < n /\ Behind(i) + 1 = m
    BY <1>2, <2>1, <2>4
  <2>6. fifo'[i] = Entries[from[m]]
    BY <1>1, <2>2, <2>5
  <2>7. Entries'[m] = fifo'[i]
    BY <1>1, <1>2 DEF Entries, i
  <2> QED BY <2>6, <2>7
<1>10. FifoOK'
  BY <1>1, <1>2, <1>4, <1>9 DEF FifoOK
<1> QED BY <1>1, <1>2, <1>5, <1>8, <1>9, <1>10

\* Every step keeps the types.
LEMMA TypeStep ==
  ASSUME TypeOK, \A t \in Tasks : CallOK(t), FifoOK, [Next]_vars, PcType'
  PROVE  TypeOK'
<1> USE Constants, MkbpSizes DEF TypeOK, PcType, Goto, Executes, state, ring, fifoVars,
        reader, ghosts
<1>1. ASSUME NEW t \in Tasks, activate(t) PROVE TypeOK'
  BY <1>1, NextId DEF activate
<1>2. ASSUME NEW t \in Tasks, raise_line(t) PROVE TypeOK'
  BY <1>2 DEF raise_line
<1>3. ASSUME NEW t \in Tasks, raise_fails(t) PROVE TypeOK'
  BY <1>3 DEF raise_fails
<1>4. ASSUME NEW t \in Tasks, settle(t) PROVE TypeOK'
  BY <1>4 DEF settle
<1>5. ASSUME NEW t \in Tasks, schedule_net(t) PROVE TypeOK'
  BY <1>5 DEF schedule_net
<1>6. ASSUME NEW t \in Tasks, mkbp_send_event(t) PROVE TypeOK'
  BY <1>6 DEF mkbp_send_event
<1>7. ASSUME NEW t \in Tasks, fifo_add_call(t) PROVE TypeOK'
  BY <1>7 DEF fifo_add_call
<1>8. ASSUME NEW t \in Tasks, fifo_overflow(t) PROVE TypeOK'
  BY <1>8 DEF fifo_overflow
<1>9. ASSUME NEW t \in Tasks, fifo_put(t) PROVE TypeOK'
  <2>1. /\ fifo' \in [Slots -> Types] /\ fifo_end' \in Slots /\ fifo_start' \in Slots
        /\ fifo_entries' \in 0 .. FIFO_DEPTH /\ fifo_max_depth' \in 0 .. FIFO_DEPTH
    <3>1. fifo_entries' \in 1 .. FIFO_DEPTH /\ fifo' \in [Slots -> Types] /\ fifo_end' \in Slots
      BY <1>9, PutEffect
    <3> QED BY <1>9, <3>1 DEF fifo_put
  <2>2. fifo_add_mutex' \in {{}} \union {{u} : u \in Tasks}
    BY <1>9 DEF fifo_put
  <2>3. UNCHANGED <<state, line, deferred, reader, arg, my_id, ghosts>>
    BY <1>9 DEF fifo_put
  <2> QED BY <2>1, <2>2, <2>3
<1>10. ASSUME NEW t \in Tasks, fifo_add_return(t) PROVE TypeOK'
  BY <1>10 DEF fifo_add_return
<1>11. ASSUME force_call PROVE TypeOK'
  BY <1>11 DEF force_call
<1>12. ASSUME force_mkbp_if_events PROVE TypeOK'
  BY <1>12 DEF force_mkbp_if_events
<1>13. ASSUME clear_call PROVE TypeOK'
  BY <1>13 DEF clear_call
<1>14. ASSUME mkbp_fifo_clear_keyboard PROVE TypeOK'
  BY <1>14, ClearEffect DEF mkbp_fifo_clear_keyboard
<1>15. ASSUME mkbp_fifo_depth_update PROVE TypeOK'
  BY <1>15 DEF mkbp_fifo_depth_update
<1>16. ASSUME get_next_call PROVE TypeOK'
  BY <1>16 DEF get_next_call
<1>17. ASSUME take_event PROVE TypeOK'
  BY <1>17, TakeEffect DEF take_event
<1>18. ASSUME take_nothing PROVE TypeOK'
  BY <1>18 DEF take_nothing
<1>19. ASSUME peek_type PROVE TypeOK'
  BY <1>19 DEF peek_type
<1>20. ASSUME peek_entries PROVE TypeOK'
  BY <1>20 DEF peek_entries
<1>21. ASSUME get_data_busy PROVE TypeOK'
  BY <1>21 DEF get_data_busy, CallOK, Looking
<1>22. ASSUME fifo_remove PROVE TypeOK'
  BY <1>22, RemoveEffect DEF fifo_remove
<1>23. ASSUME fifo_more PROVE TypeOK'
  BY <1>23 DEF fifo_more
<1>24. ASSUME set_inactive_if_no_events PROVE TypeOK'
  <2>1. PICK step \in {"none", "finish"} : 
          /\ IF events = {}
             THEN /\ interrupt' = "INACTIVE" /\ failed_attempts' = 0 /\ line' = FALSE
                  /\ Goto(HOSTCMD, "cancel")
             ELSE /\ Goto(HOSTCMD, IF step = "none" THEN "find" ELSE "idle")
                  /\ UNCHANGED <<interrupt, failed_attempts, line>>
          /\ evt' = None
          /\ UNCHANGED <<events, interrupt_id, deferred, fifoVars, last, seen, arg, my_id,
                         ghosts>>
    BY <1>24 DEF set_inactive_if_no_events
  <2>2. \/ interrupt' = "INACTIVE" /\ failed_attempts' = 0 /\ line' = FALSE
        \/ UNCHANGED <<interrupt, failed_attempts, line>>
    BY <2>1
  <2>3. interrupt' \in {"INACTIVE", "INACTIVE_TO_ACTIVE", "ACTIVE"} /\ failed_attempts' \in 0 .. 2
    BY <2>2
  <2>5. line' \in BOOLEAN
    BY <2>2
  <2>4. /\ evt' = None
        /\ UNCHANGED <<events, interrupt_id, deferred, fifoVars, last, seen, arg, my_id, ghosts>>
    BY <2>1
  <2> QED BY <2>3, <2>4, <2>5
<1>25. ASSUME cancel_net PROVE TypeOK'
  BY <1>25 DEF cancel_net
<1>26. ASSUME UNCHANGED vars PROVE TypeOK'
  BY <1>26 DEF vars
<1> QED BY <1>1, <1>2, <1>3, <1>4, <1>5, <1>6, <1>7, <1>8, <1>9, <1>10, <1>11, <1>12,
           <1>13, <1>14, <1>15, <1>16, <1>17, <1>18, <1>19, <1>20, <1>21, <1>22, <1>23,
           <1>24, <1>25, <1>26 DEF Next, Activation, Source, mkbp_get_next_event

\* Every task has its own steps.
LEMMA PcStep ==
  ASSUME TypeOK, [Next]_vars
  PROVE  PcType'
<1> USE Constants DEF TypeOK, PcType, HostSteps, SourceSteps, SendSteps, Goto, AfterSend,
            state, ring, fifoVars, reader, ghosts
<1>1. ASSUME NEW t \in Tasks, activate(t) PROVE PcType'
  BY <1>1 DEF activate
<1>2. ASSUME NEW t \in Tasks, raise_line(t) PROVE PcType'
  BY <1>2 DEF raise_line
<1>3. ASSUME NEW t \in Tasks, raise_fails(t) PROVE PcType'
  BY <1>3 DEF raise_fails
<1>4. ASSUME NEW t \in Tasks, settle(t) PROVE PcType'
  BY <1>4 DEF settle
<1>5. ASSUME NEW t \in Tasks, schedule_net(t) PROVE PcType'
  BY <1>5 DEF schedule_net
<1>6. ASSUME NEW t \in Tasks, mkbp_send_event(t) PROVE PcType'
  BY <1>6 DEF mkbp_send_event
<1>7. ASSUME NEW t \in Tasks, fifo_add_call(t) PROVE PcType'
  BY <1>7 DEF fifo_add_call
<1>8. ASSUME NEW t \in Tasks, fifo_overflow(t) PROVE PcType'
  BY <1>8 DEF fifo_overflow
<1>9. ASSUME NEW t \in Tasks, fifo_put(t) PROVE PcType'
  BY <1>9 DEF fifo_put
<1>10. ASSUME NEW t \in Tasks, fifo_add_return(t) PROVE PcType'
  BY <1>10 DEF fifo_add_return
<1>11. ASSUME force_call PROVE PcType'
  BY <1>11 DEF force_call
<1>12. ASSUME force_mkbp_if_events PROVE PcType'
  BY <1>12 DEF force_mkbp_if_events
<1>13. ASSUME clear_call PROVE PcType'
  BY <1>13 DEF clear_call
<1>14. ASSUME mkbp_fifo_clear_keyboard PROVE PcType'
  BY <1>14 DEF mkbp_fifo_clear_keyboard
<1>15. ASSUME mkbp_fifo_depth_update PROVE PcType'
  BY <1>15 DEF mkbp_fifo_depth_update
<1>16. ASSUME get_next_call PROVE PcType'
  BY <1>16 DEF get_next_call
<1>17. ASSUME take_event PROVE PcType'
  BY <1>17 DEF take_event
<1>18. ASSUME take_nothing PROVE PcType'
  BY <1>18 DEF take_nothing
<1>19. ASSUME peek_type PROVE PcType'
  BY <1>19 DEF peek_type
<1>20. ASSUME peek_entries PROVE PcType'
  BY <1>20 DEF peek_entries
<1>21. ASSUME get_data_busy PROVE PcType'
  BY <1>21 DEF get_data_busy
<1>22. ASSUME fifo_remove PROVE PcType'
  BY <1>22 DEF fifo_remove
<1>23. ASSUME fifo_more PROVE PcType'
  BY <1>23 DEF fifo_more
<1>24. ASSUME set_inactive_if_no_events PROVE PcType'
  BY <1>24 DEF set_inactive_if_no_events
<1>25. ASSUME cancel_net PROVE PcType'
  BY <1>25 DEF cancel_net
<1>26. ASSUME UNCHANGED vars PROVE PcType'
  BY <1>26 DEF vars
<1> QED BY <1>1, <1>2, <1>3, <1>4, <1>5, <1>6, <1>7, <1>8, <1>9, <1>10, <1>11, <1>12,
           <1>13, <1>14, <1>15, <1>16, <1>17, <1>18, <1>19, <1>20, <1>21, <1>22, <1>23,
           <1>24, <1>25, <1>26 DEF Next, Activation, Source, mkbp_get_next_event

\* Every step keeps what is known of a task.
LEMMA CallStep ==
  ASSUME IInv, [Next]_vars, NEW u \in Tasks
  PROVE  CallOK(u)'
<1> USE Constants DEF IInv, TypeOK, CallOK, Looking, Steps, HostSteps, SourceSteps,
        SendSteps,
            Goto, AfterSend, Executes, state, ring, fifoVars, reader, ghosts
<1>1. ASSUME NEW t \in Tasks, activate(t) PROVE CallOK(u)'
  BY <1>1 DEF activate
<1>2. ASSUME NEW t \in Tasks, raise_line(t) PROVE CallOK(u)'
  BY <1>2 DEF raise_line
<1>3. ASSUME NEW t \in Tasks, raise_fails(t) PROVE CallOK(u)'
  BY <1>3 DEF raise_fails
<1>4. ASSUME NEW t \in Tasks, settle(t) PROVE CallOK(u)'
  BY <1>4 DEF settle
<1>5. ASSUME NEW t \in Tasks, schedule_net(t) PROVE CallOK(u)'
  BY <1>5 DEF schedule_net
<1>6. ASSUME NEW t \in Tasks, mkbp_send_event(t) PROVE CallOK(u)'
  BY <1>6 DEF mkbp_send_event
<1>7. ASSUME NEW t \in Tasks, fifo_add_call(t) PROVE CallOK(u)'
  BY <1>7 DEF fifo_add_call
<1>8. ASSUME NEW t \in Tasks, fifo_overflow(t) PROVE CallOK(u)'
  BY <1>8 DEF fifo_overflow
<1>9. ASSUME NEW t \in Tasks, fifo_put(t) PROVE CallOK(u)'
  BY <1>9 DEF fifo_put
<1>10. ASSUME NEW t \in Tasks, fifo_add_return(t) PROVE CallOK(u)'
  BY <1>10 DEF fifo_add_return
<1>11. ASSUME force_call PROVE CallOK(u)'
  BY <1>11 DEF force_call
<1>12. ASSUME force_mkbp_if_events PROVE CallOK(u)'
  BY <1>12 DEF force_mkbp_if_events
<1>13. ASSUME clear_call PROVE CallOK(u)'
  BY <1>13 DEF clear_call
<1>14. ASSUME mkbp_fifo_clear_keyboard PROVE CallOK(u)'
  BY <1>14 DEF mkbp_fifo_clear_keyboard
<1>15. ASSUME mkbp_fifo_depth_update PROVE CallOK(u)'
  BY <1>15 DEF mkbp_fifo_depth_update
<1>16. ASSUME get_next_call PROVE CallOK(u)'
  BY <1>16 DEF get_next_call
<1>17. ASSUME take_event PROVE CallOK(u)'
  BY <1>17 DEF take_event
<1>18. ASSUME take_nothing PROVE CallOK(u)'
  BY <1>18 DEF take_nothing
<1>19. ASSUME peek_type PROVE CallOK(u)'
  BY <1>19 DEF peek_type
<1>20. ASSUME peek_entries PROVE CallOK(u)'
  BY <1>20 DEF peek_entries
<1>21. ASSUME get_data_busy PROVE CallOK(u)'
  BY <1>21 DEF get_data_busy
<1>22. ASSUME fifo_remove PROVE CallOK(u)'
  BY <1>22 DEF fifo_remove
<1>23. ASSUME fifo_more PROVE CallOK(u)'
  BY <1>23 DEF fifo_more
<1>24. ASSUME set_inactive_if_no_events PROVE CallOK(u)'
  BY <1>24 DEF set_inactive_if_no_events
<1>25. ASSUME cancel_net PROVE CallOK(u)'
  BY <1>25 DEF cancel_net
<1>26. ASSUME UNCHANGED vars PROVE CallOK(u)'
  BY <1>26 DEF vars
<1> QED BY <1>1, <1>2, <1>3, <1>4, <1>5, <1>6, <1>7, <1>8, <1>9, <1>10, <1>11, <1>12,
           <1>13, <1>14, <1>15, <1>16, <1>17, <1>18, <1>19, <1>20, <1>21, <1>22, <1>23,
           <1>24, <1>25, <1>26 DEF Next, Activation, Source, mkbp_get_next_event

\* Every step keeps the ring.
LEMMA FifoStep ==
  ASSUME IInv, [Next]_vars
  PROVE  FifoOK'
<1> USE DEF IInv, FifoOK, Entries, ring, fifoVars
<1>1. ASSUME NEW t \in Tasks, activate(t) PROVE FifoOK'
  BY <1>1 DEF activate
<1>2. ASSUME NEW t \in Tasks, raise_line(t) PROVE FifoOK'
  BY <1>2 DEF raise_line
<1>3. ASSUME NEW t \in Tasks, raise_fails(t) PROVE FifoOK'
  BY <1>3 DEF raise_fails
<1>4. ASSUME NEW t \in Tasks, settle(t) PROVE FifoOK'
  BY <1>4 DEF settle
<1>5. ASSUME NEW t \in Tasks, schedule_net(t) PROVE FifoOK'
  BY <1>5 DEF schedule_net
<1>6. ASSUME NEW t \in Tasks, mkbp_send_event(t) PROVE FifoOK'
  BY <1>6 DEF mkbp_send_event
<1>7. ASSUME NEW t \in Tasks, fifo_add_call(t) PROVE FifoOK'
  BY <1>7 DEF fifo_add_call
<1>8. ASSUME NEW t \in Tasks, fifo_overflow(t) PROVE FifoOK'
  BY <1>8 DEF fifo_overflow
<1>9. ASSUME NEW t \in Tasks, fifo_put(t) PROVE FifoOK'
  BY <1>9, PutEffect
<1>10. ASSUME NEW t \in Tasks, fifo_add_return(t) PROVE FifoOK'
  BY <1>10 DEF fifo_add_return
<1>11. ASSUME force_call PROVE FifoOK'
  BY <1>11 DEF force_call
<1>12. ASSUME force_mkbp_if_events PROVE FifoOK'
  BY <1>12 DEF force_mkbp_if_events
<1>13. ASSUME clear_call PROVE FifoOK'
  BY <1>13 DEF clear_call
<1>14. ASSUME mkbp_fifo_clear_keyboard PROVE FifoOK'
  BY <1>14, ClearEffect
<1>15. ASSUME mkbp_fifo_depth_update PROVE FifoOK'
  BY <1>15 DEF mkbp_fifo_depth_update
<1>16. ASSUME get_next_call PROVE FifoOK'
  BY <1>16 DEF get_next_call
<1>17. ASSUME take_event PROVE FifoOK'
  BY <1>17 DEF take_event
<1>18. ASSUME take_nothing PROVE FifoOK'
  BY <1>18 DEF take_nothing
<1>19. ASSUME peek_type PROVE FifoOK'
  BY <1>19 DEF peek_type
<1>20. ASSUME peek_entries PROVE FifoOK'
  BY <1>20 DEF peek_entries
<1>21. ASSUME get_data_busy PROVE FifoOK'
  BY <1>21 DEF get_data_busy
<1>22. ASSUME fifo_remove PROVE FifoOK'
  BY <1>22, RemoveEffect
<1>23. ASSUME fifo_more PROVE FifoOK'
  BY <1>23 DEF fifo_more
<1>24. ASSUME set_inactive_if_no_events PROVE FifoOK'
  BY <1>24 DEF set_inactive_if_no_events
<1>25. ASSUME cancel_net PROVE FifoOK'
  BY <1>25 DEF cancel_net
<1>26. ASSUME UNCHANGED vars PROVE FifoOK'
  BY <1>26 DEF vars
<1> QED BY <1>1, <1>2, <1>3, <1>4, <1>5, <1>6, <1>7, <1>8, <1>9, <1>10, <1>11, <1>12,
           <1>13, <1>14, <1>15, <1>16, <1>17, <1>18, <1>19, <1>20, <1>21, <1>22, <1>23,
           <1>24, <1>25, <1>26 DEF Next, Activation, Source, mkbp_get_next_event

\* Every step keeps the owner of an interrupt on its way, or ends the way.
LEMMA OwnerStep ==
  ASSUME IInv, [Next]_vars
  PROVE  OwnerOK'
<1> USE Constants DEF IInv, TypeOK, OwnerOK, Activating, Goto, AfterSend, Executes,
            state, ring, fifoVars, reader, ghosts
<1>1. ASSUME NEW t \in Tasks, activate(t) PROVE OwnerOK'
  BY <1>1 DEF activate
<1>2. ASSUME NEW t \in Tasks, raise_line(t) PROVE OwnerOK'
  BY <1>2 DEF raise_line
<1>3. ASSUME NEW t \in Tasks, raise_fails(t) PROVE OwnerOK'
  BY <1>3 DEF raise_fails
<1>4. ASSUME NEW t \in Tasks, settle(t) PROVE OwnerOK'
  BY <1>4 DEF settle
<1>5. ASSUME NEW t \in Tasks, schedule_net(t) PROVE OwnerOK'
  BY <1>5 DEF schedule_net
<1>6. ASSUME NEW t \in Tasks, mkbp_send_event(t) PROVE OwnerOK'
  BY <1>6 DEF mkbp_send_event
<1>7. ASSUME NEW t \in Tasks, fifo_add_call(t) PROVE OwnerOK'
  BY <1>7 DEF fifo_add_call
<1>8. ASSUME NEW t \in Tasks, fifo_overflow(t) PROVE OwnerOK'
  BY <1>8 DEF fifo_overflow
<1>9. ASSUME NEW t \in Tasks, fifo_put(t) PROVE OwnerOK'
  BY <1>9 DEF fifo_put
<1>10. ASSUME NEW t \in Tasks, fifo_add_return(t) PROVE OwnerOK'
  BY <1>10 DEF fifo_add_return
<1>11. ASSUME force_call PROVE OwnerOK'
  BY <1>11 DEF force_call
<1>12. ASSUME force_mkbp_if_events PROVE OwnerOK'
  BY <1>12 DEF force_mkbp_if_events
<1>13. ASSUME clear_call PROVE OwnerOK'
  BY <1>13 DEF clear_call
<1>14. ASSUME mkbp_fifo_clear_keyboard PROVE OwnerOK'
  BY <1>14 DEF mkbp_fifo_clear_keyboard
<1>15. ASSUME mkbp_fifo_depth_update PROVE OwnerOK'
  BY <1>15 DEF mkbp_fifo_depth_update
<1>16. ASSUME get_next_call PROVE OwnerOK'
  BY <1>16 DEF get_next_call
<1>17. ASSUME take_event PROVE OwnerOK'
  BY <1>17 DEF take_event
<1>18. ASSUME take_nothing PROVE OwnerOK'
  BY <1>18 DEF take_nothing
<1>19. ASSUME peek_type PROVE OwnerOK'
  BY <1>19 DEF peek_type
<1>20. ASSUME peek_entries PROVE OwnerOK'
  BY <1>20 DEF peek_entries
<1>21. ASSUME get_data_busy PROVE OwnerOK'
  BY <1>21 DEF get_data_busy
<1>22. ASSUME fifo_remove PROVE OwnerOK'
  BY <1>22 DEF fifo_remove
<1>23. ASSUME fifo_more PROVE OwnerOK'
  BY <1>23 DEF fifo_more
<1>24. ASSUME set_inactive_if_no_events PROVE OwnerOK'
  BY <1>24 DEF set_inactive_if_no_events
<1>25. ASSUME cancel_net PROVE OwnerOK'
  BY <1>25 DEF cancel_net
<1>26. ASSUME UNCHANGED vars PROVE OwnerOK'
  BY <1>26 DEF vars
<1> QED BY <1>1, <1>2, <1>3, <1>4, <1>5, <1>6, <1>7, <1>8, <1>9, <1>10, <1>11, <1>12,
           <1>13, <1>14, <1>15, <1>16, <1>17, <1>18, <1>19, <1>20, <1>21, <1>22, <1>23,
           <1>24, <1>25, <1>26 DEF Next, Activation, Source, mkbp_get_next_event

\* The first entry of the sequence is in the first slot.
LEMMA FirstIs ==
  ASSUME TypeOK, fifo_entries > 0
  PROVE  First = Entries[1] /\ First \in Types
<1>1. /\ fifo_entries \in Nat /\ 1 \in 1 .. fifo_entries /\ fifo_start \in Nat
      /\ fifo_start < FIFO_DEPTH /\ fifo_start + 1 - 1 = fifo_start
  BY MkbpSizes DEF TypeOK, Slots
<1>2. Slot(fifo_start) = fifo_start
  BY <1>1, SlotIs
<1> QED BY <1>1, <1>2 DEF First, Entries, TypeOK

\* Every step keeps the first entry within reach.
LEMMA HeadStep ==
  ASSUME IInv, [Next]_vars
  PROVE  HeadOK'
<1> USE Constants DEF IInv, TypeOK, HeadOK, First, Looking, CallOK, Goto, AfterSend,
        Executes,
            state, ring, fifoVars, reader, ghosts
<1>1. ASSUME NEW t \in Tasks, activate(t) PROVE HeadOK'
  BY <1>1 DEF activate
<1>2. ASSUME NEW t \in Tasks, raise_line(t) PROVE HeadOK'
  BY <1>2 DEF raise_line
<1>3. ASSUME NEW t \in Tasks, raise_fails(t) PROVE HeadOK'
  BY <1>3 DEF raise_fails
<1>4. ASSUME NEW t \in Tasks, settle(t) PROVE HeadOK'
  BY <1>4 DEF settle
<1>5. ASSUME NEW t \in Tasks, schedule_net(t) PROVE HeadOK'
  BY <1>5 DEF schedule_net
<1>6. ASSUME NEW t \in Tasks, mkbp_send_event(t) PROVE HeadOK'
  BY <1>6 DEF mkbp_send_event
<1>7. ASSUME NEW t \in Tasks, fifo_add_call(t) PROVE HeadOK'
  BY <1>7 DEF fifo_add_call
<1>8. ASSUME NEW t \in Tasks, fifo_overflow(t) PROVE HeadOK'
  BY <1>8 DEF fifo_overflow
<1>9. ASSUME NEW t \in Tasks, fifo_put(t) PROVE HeadOK'
  <2>1. /\ fifo_entries \in Nat /\ fifo_start \in Nat /\ fifo_start < FIFO_DEPTH
        /\ fifo_start + 1 - 1 = fifo_start /\ fifo_start' = fifo_start
        /\ fifo_entries' = fifo_entries + 1 /\ 1 \in 1 .. fifo_entries'
    BY <1>9, MkbpSizes DEF fifo_put, Slots
  <2>2. Slot(fifo_start + 1 - 1) = fifo_start
    BY <2>1, SlotIs
  <2>3. First' = Entries'[1]
    BY <2>1, <2>2 DEF Entries
  <2>4. fifo_entries > 0 => First' = First
    <3>1. fifo_entries > 0 => 1 \in 1 .. fifo_entries
      BY <2>1
    <3> QED BY <1>9, <2>3, <3>1, PutEffect, FirstIs
  <2>5. fifo_entries = 0 => First' = arg[t]
    BY <1>9, <2>3, PutEffect
  <2> HIDE DEF First
  <2>6. pc'[t] = "send" /\ arg' = arg /\ events' = events /\ evt' = evt
        /\ \A u \in Tasks : u # t => pc'[u] = pc[u]
        /\ pc[t] = "add" /\ t # HOSTCMD /\ keysCleared' = keysCleared
    BY <1>9 DEF fifo_put, Steps, HostSteps, SendSteps
  <2>7. CASE fifo_entries = 0
    BY <2>5, <2>6, <2>7
  <2>8. CASE fifo_entries > 0
    BY <2>1, <2>4, <2>6, <2>8
  <2> QED BY <2>1, <2>7, <2>8
<1>10. ASSUME NEW t \in Tasks, fifo_add_return(t) PROVE HeadOK'
  BY <1>10 DEF fifo_add_return
<1>11. ASSUME force_call PROVE HeadOK'
  BY <1>11 DEF force_call
<1>12. ASSUME force_mkbp_if_events PROVE HeadOK'
  BY <1>12 DEF force_mkbp_if_events
<1>13. ASSUME clear_call PROVE HeadOK'
  BY <1>13 DEF clear_call
<1>14. ASSUME mkbp_fifo_clear_keyboard PROVE HeadOK'
  BY <1>14 DEF mkbp_fifo_clear_keyboard
<1>15. ASSUME mkbp_fifo_depth_update PROVE HeadOK'
  BY <1>15 DEF mkbp_fifo_depth_update
<1>16. ASSUME get_next_call PROVE HeadOK'
  BY <1>16 DEF get_next_call
<1>17. ASSUME take_event PROVE HeadOK'
  <2>1. evt' \in events /\ events' = events \ {evt'}
    BY <1>17, TakeEffect
  <2>2. /\ First' = First /\ fifo_entries' = fifo_entries /\ keysCleared' = keysCleared
        /\ arg' = arg /\ pc[HOSTCMD] = "find"
        /\ evt' \in FifoTypes => pc'[HOSTCMD] = "peek"
        /\ \A u \in Tasks : u # HOSTCMD => pc'[u] = pc[u]
    BY <1>17 DEF take_event
  <2>3. fifo_entries > 0 => First \in FifoTypes
    <3>1. fifo_entries > 0 => 1 \in 1 .. fifo_entries
      OBVIOUS
    <3> QED BY <3>1, FirstIs DEF FifoOK
  <2> HIDE DEF First
  <2> QED BY <2>1, <2>2, <2>3
<1>18. ASSUME take_nothing PROVE HeadOK'
  BY <1>18 DEF take_nothing
<1>19. ASSUME peek_type PROVE HeadOK'
  BY <1>19 DEF peek_type
<1>20. ASSUME peek_entries PROVE HeadOK'
  BY <1>20 DEF peek_entries
<1>21. ASSUME get_data_busy PROVE HeadOK'
  BY <1>21 DEF get_data_busy
<1>22. ASSUME fifo_remove PROVE HeadOK'
  BY <1>22 DEF fifo_remove
<1>23. ASSUME fifo_more PROVE HeadOK'
  BY <1>23 DEF fifo_more
<1>24. ASSUME set_inactive_if_no_events PROVE HeadOK'
  BY <1>24 DEF set_inactive_if_no_events
<1>25. ASSUME cancel_net PROVE HeadOK'
  BY <1>25 DEF cancel_net
<1>26. ASSUME UNCHANGED vars PROVE HeadOK'
  BY <1>26 DEF vars
<1> QED BY <1>1, <1>2, <1>3, <1>4, <1>5, <1>6, <1>7, <1>8, <1>9, <1>10, <1>11, <1>12,
           <1>13, <1>14, <1>15, <1>16, <1>17, <1>18, <1>19, <1>20, <1>21, <1>22, <1>23,
           <1>24, <1>25, <1>26 DEF Next, Activation, Source, mkbp_get_next_event

\* Init satisfies the invariant, and every step keeps it.
LEMMA InitIInv == Init => IInv
<1> SUFFICES ASSUME Init PROVE IInv
  OBVIOUS
<1>1. TypeOK /\ FifoOK
  BY InitTypes
<1>2. \A t \in Tasks : CallOK(t)
  BY Constants DEF Init, CallOK, Steps, HostSteps, SourceSteps, Looking
<1>3. OwnerOK /\ HeadOK
  BY DEF Init, OwnerOK, HeadOK
<1> QED BY <1>1, <1>2, <1>3 DEF IInv

\* IInv holds in every reachable state.
THEOREM Invariance == Spec => []IInv
<1>1. IInv /\ [Next]_vars => IInv'
  <2> SUFFICES ASSUME IInv, [Next]_vars PROVE IInv'
    OBVIOUS
  <2>1. TypeOK'
    BY PcStep, TypeStep DEF IInv
  <2>2. (\A t \in Tasks : CallOK(t))'
    BY CallStep DEF Tasks
  <2> QED BY <2>1, <2>2, FifoStep, OwnerStep, HeadStep DEF IInv
<1> QED BY <1>1, InitIInv, PTL DEF Spec

\* Every variable keeps its type.
THEOREM TypeCorrect == Spec => []TypeOK
<1>1. IInv => TypeOK
  BY DEF IInv
<1> QED BY <1>1, Invariance, PTL

\* With no code running, the bit of the first entry's type is set, unless the
\* keyboard was cleared.
THEOREM HeadIsAnnounced == Spec => []HeadAnnouncedUnlessCleared
<1>1. IInv => HeadAnnouncedUnlessCleared
  BY Constants DEF IInv, HeadOK, First, Looking, HeadAnnouncedUnlessCleared,
     HeadAnnounced, AllIdle
<1> QED BY <1>1, Invariance, PTL

-----------------------------------------------------------------------------
(***************************************************************************)
(* What the AP is told.                                                    *)
(***************************************************************************)
\* Only who has told the AP marks it ACTIVE.
LEMMA RaisedStep ==
  ASSUME IInv, RaisedOK, IdsAreFresh', [Next]_vars
  PROVE  RaisedOK'
<1> USE Constants DEF IInv, TypeOK, RaisedOK, Goto, AfterSend, Executes,
            state, ring, fifoVars, reader, ghosts
<1>1. ASSUME NEW t \in Tasks, activate(t) PROVE RaisedOK'
  BY <1>1 DEF activate, IdsAreFresh
<1>2. ASSUME NEW t \in Tasks, raise_line(t) PROVE RaisedOK'
  BY <1>2 DEF raise_line
<1>3. ASSUME NEW t \in Tasks, raise_fails(t) PROVE RaisedOK'
  BY <1>3 DEF raise_fails
<1>4. ASSUME NEW t \in Tasks, settle(t) PROVE RaisedOK'
  BY <1>4 DEF settle
<1>5. ASSUME NEW t \in Tasks, schedule_net(t) PROVE RaisedOK'
  BY <1>5 DEF schedule_net
<1>6. ASSUME NEW t \in Tasks, mkbp_send_event(t) PROVE RaisedOK'
  BY <1>6 DEF mkbp_send_event
<1>7. ASSUME NEW t \in Tasks, fifo_add_call(t) PROVE RaisedOK'
  BY <1>7 DEF fifo_add_call
<1>8. ASSUME NEW t \in Tasks, fifo_overflow(t) PROVE RaisedOK'
  BY <1>8 DEF fifo_overflow
<1>9. ASSUME NEW t \in Tasks, fifo_put(t) PROVE RaisedOK'
  BY <1>9 DEF fifo_put
<1>10. ASSUME NEW t \in Tasks, fifo_add_return(t) PROVE RaisedOK'
  BY <1>10 DEF fifo_add_return
<1>11. ASSUME force_call PROVE RaisedOK'
  BY <1>11 DEF force_call
<1>12. ASSUME force_mkbp_if_events PROVE RaisedOK'
  BY <1>12 DEF force_mkbp_if_events
<1>13. ASSUME clear_call PROVE RaisedOK'
  BY <1>13 DEF clear_call
<1>14. ASSUME mkbp_fifo_clear_keyboard PROVE RaisedOK'
  BY <1>14 DEF mkbp_fifo_clear_keyboard
<1>15. ASSUME mkbp_fifo_depth_update PROVE RaisedOK'
  BY <1>15 DEF mkbp_fifo_depth_update
<1>16. ASSUME get_next_call PROVE RaisedOK'
  BY <1>16 DEF get_next_call
<1>17. ASSUME take_event PROVE RaisedOK'
  BY <1>17 DEF take_event
<1>18. ASSUME take_nothing PROVE RaisedOK'
  BY <1>18 DEF take_nothing
<1>19. ASSUME peek_type PROVE RaisedOK'
  BY <1>19 DEF peek_type
<1>20. ASSUME peek_entries PROVE RaisedOK'
  BY <1>20 DEF peek_entries
<1>21. ASSUME get_data_busy PROVE RaisedOK'
  BY <1>21 DEF get_data_busy
<1>22. ASSUME fifo_remove PROVE RaisedOK'
  BY <1>22 DEF fifo_remove
<1>23. ASSUME fifo_more PROVE RaisedOK'
  BY <1>23 DEF fifo_more
<1>24. ASSUME set_inactive_if_no_events PROVE RaisedOK'
  BY <1>24 DEF set_inactive_if_no_events
<1>25. ASSUME cancel_net PROVE RaisedOK'
  BY <1>25 DEF cancel_net
<1>26. ASSUME UNCHANGED vars PROVE RaisedOK'
  BY <1>26 DEF vars
<1> QED BY <1>1, <1>2, <1>3, <1>4, <1>5, <1>6, <1>7, <1>8, <1>9, <1>10, <1>11, <1>12,
           <1>13, <1>14, <1>15, <1>16, <1>17, <1>18, <1>19, <1>20, <1>21, <1>22, <1>23,
           <1>24, <1>25, <1>26 DEF Next, Activation, Source, mkbp_get_next_event

\* A step of HOOKS finds HOSTCMD off the CPU, so it looks at nothing.
LEMMA HooksFindsIdle ==
  ASSUME IInv, NEW step, Executes(HOOKS, step)
  PROVE  ~Looking
  BY Constants, MkbpTasks DEF IInv, CallOK, Executes, OffCpu, Looking, Steps, HostSteps,
     SendSteps

\* Every step keeps pending events announced.
LEMMA AnnouncedStep ==
  ASSUME IInv, RaisedOK, AnnouncedOK, [Next]_vars
  PROVE  AnnouncedOK'
<1> USE Constants DEF IInv, TypeOK, CallOK, AnnouncedOK, Announced, Pending, Looking,
        Goto,
            AfterSend, Executes, state, ring, fifoVars, reader, ghosts
<1>1. ASSUME NEW t \in Tasks, activate(t) PROVE AnnouncedOK'
  BY <1>1, HooksFindsIdle DEF activate, RaisedOK
<1>2. ASSUME NEW t \in Tasks, raise_line(t) PROVE AnnouncedOK'
  BY <1>2 DEF raise_line
<1>3. ASSUME NEW t \in Tasks, raise_fails(t) PROVE AnnouncedOK'
  BY <1>3 DEF raise_fails
<1>4. ASSUME NEW t \in Tasks, settle(t) PROVE AnnouncedOK'
  BY <1>4 DEF settle
<1>5. ASSUME NEW t \in Tasks, schedule_net(t) PROVE AnnouncedOK'
  BY <1>5 DEF schedule_net
<1>6. ASSUME NEW t \in Tasks, mkbp_send_event(t) PROVE AnnouncedOK'
  BY <1>6 DEF mkbp_send_event
<1>7. ASSUME NEW t \in Tasks, fifo_add_call(t) PROVE AnnouncedOK'
  BY <1>7 DEF fifo_add_call
<1>8. ASSUME NEW t \in Tasks, fifo_overflow(t) PROVE AnnouncedOK'
  BY <1>8 DEF fifo_overflow
<1>9. ASSUME NEW t \in Tasks, fifo_put(t) PROVE AnnouncedOK'
  BY <1>9 DEF fifo_put
<1>10. ASSUME NEW t \in Tasks, fifo_add_return(t) PROVE AnnouncedOK'
  BY <1>10 DEF fifo_add_return
<1>11. ASSUME force_call PROVE AnnouncedOK'
  BY <1>11 DEF force_call
<1>12. ASSUME force_mkbp_if_events PROVE AnnouncedOK'
  BY <1>12, HooksFindsIdle DEF force_mkbp_if_events, RaisedOK
<1>13. ASSUME clear_call PROVE AnnouncedOK'
  BY <1>13 DEF clear_call
<1>14. ASSUME mkbp_fifo_clear_keyboard PROVE AnnouncedOK'
  BY <1>14 DEF mkbp_fifo_clear_keyboard
<1>15. ASSUME mkbp_fifo_depth_update PROVE AnnouncedOK'
  BY <1>15 DEF mkbp_fifo_depth_update
<1>16. ASSUME get_next_call PROVE AnnouncedOK'
  BY <1>16 DEF get_next_call
<1>17. ASSUME take_event PROVE AnnouncedOK'
  BY <1>17, TakeEffect DEF take_event
<1>18. ASSUME take_nothing PROVE AnnouncedOK'
  BY <1>18 DEF take_nothing
<1>19. ASSUME peek_type PROVE AnnouncedOK'
  BY <1>19 DEF peek_type
<1>20. ASSUME peek_entries PROVE AnnouncedOK'
  BY <1>20 DEF peek_entries
<1>21. ASSUME get_data_busy PROVE AnnouncedOK'
  BY <1>21 DEF get_data_busy
<1>22. ASSUME fifo_remove PROVE AnnouncedOK'
  BY <1>22 DEF fifo_remove
<1>23. ASSUME fifo_more PROVE AnnouncedOK'
  BY <1>23 DEF fifo_more
<1>24. ASSUME set_inactive_if_no_events PROVE AnnouncedOK'
  BY <1>24 DEF set_inactive_if_no_events
<1>25. ASSUME cancel_net PROVE AnnouncedOK'
  BY <1>25 DEF cancel_net
<1>26. ASSUME UNCHANGED vars PROVE AnnouncedOK'
  BY <1>26 DEF vars
<1> QED BY <1>1, <1>2, <1>3, <1>4, <1>5, <1>6, <1>7, <1>8, <1>9, <1>10, <1>11, <1>12,
           <1>13, <1>14, <1>15, <1>16, <1>17, <1>18, <1>19, <1>20, <1>21, <1>22, <1>23,
           <1>24, <1>25, <1>26 DEF Next, Activation, Source, mkbp_get_next_event

\* As long as ids are fresh, AInv holds in every reachable state.
LEMMA Announcing == Spec /\ []IdsAreFresh => []AInv
<1>1. Init => AInv
  BY Constants DEF Init, AInv, RaisedOK, AnnouncedOK, Pending, Looking
<1>2. IInv /\ IdsAreFresh' /\ AInv /\ [Next]_vars => AInv'
  BY RaisedStep, AnnouncedStep DEF AInv
<1> QED BY <1>1, <1>2, Invariance, PTL DEF Spec

\* An interrupt that the state calls ACTIVE is one the AP sees.
THEOREM ActiveMeansRaised == Spec /\ []IdsAreFresh => []ActiveIsRaised
<1>1. AInv => ActiveIsRaised
  BY DEF AInv, RaisedOK, ActiveIsRaised
<1> QED BY <1>1, Announcing, PTL

\* With no code running, an event that is set is announced, or will be by the
\* safety net, unless that was lost.
THEOREM EventsAreAnnounced == Spec /\ []IdsAreFresh => []EventsAnnouncedUnlessNetLost
<1>1. IInv /\ AInv => EventsAnnouncedUnlessNetLost
  BY Constants DEF IInv, OwnerOK, Activating, AInv, AnnouncedOK, Announced, Pending,
     Looking,
     EventsAnnouncedUnlessNetLost, EventsAnnounced, AllIdle
<1> QED BY <1>1, Invariance, Announcing, PTL

-----------------------------------------------------------------------------
(***************************************************************************)
(* The ring is a queue.                                                    *)
(***************************************************************************)
\* A function with a domain from 1 is a sequence.
LEMMA SequenceIs ==
  ASSUME NEW n \in Nat, NEW T, NEW s \in [1 .. n -> T]
  PROVE  s \in Seq(T) /\ Len(s) = n /\ DOMAIN s = 1 .. n
  OBVIOUS

\* The entries are a sequence of types.
LEMMA EntriesType ==
  ASSUME TypeOK
  PROVE  Entries \in [1 .. fifo_entries -> Types]
<1>1. fifo_entries \in Nat
  BY DEF TypeOK
<1>2. ASSUME NEW k \in 1 .. fifo_entries PROVE fifo[Slot(fifo_start + k - 1)] \in Types
  BY EntryIs, MkbpSizes DEF TypeOK
<1> QED BY <1>2 DEF Entries

\* fifo_put is Put.
LEMMA PutStep ==
  ASSUME IInv, NEW t \in Tasks, fifo_put(t)
  PROVE  \E e \in Types : Queue!Put(e)
<1>1. /\ arg[t] \in Types /\ fifo_entries < FIFO_DEPTH /\ fifo_entries' = fifo_entries + 1
      /\ \A k \in 1 .. fifo_entries : Entries'[k] = Entries[k]
      /\ Entries'[fifo_entries + 1] = arg[t] /\ fifo_entries \in Nat
  BY PutEffect DEF IInv, TypeOK
<1>2. Entries \in [1 .. fifo_entries -> Types] /\ Entries' \in [1 .. fifo_entries + 1 -> Types]
  <2>1. Entries' = [k \in 1 .. fifo_entries + 1 |-> Entries'[k]]
    BY <1>1 DEF Entries
  <2>2. \A k \in 1 .. fifo_entries + 1 : k \in 1 .. fifo_entries \/ k = fifo_entries + 1
    BY <1>1
  <2>3. Entries \in [1 .. fifo_entries -> Types]
    BY EntriesType DEF IInv
  <2>4. \A k \in 1 .. fifo_entries + 1 : Entries'[k] \in Types
    BY <1>1, <2>2, <2>3
  <2> QED BY <2>1, <2>3, <2>4
<1>3. /\ Entries \in Seq(Types) /\ Len(Entries) = fifo_entries
      /\ Entries' \in Seq(Types) /\ Len(Entries') = fifo_entries + 1
  BY <1>1, <1>2, SequenceIs
<1>4. Entries' = Append(Entries, arg[t])
  BY <1>1, <1>2, <1>3
<1> QED BY <1>1, <1>3, <1>4 DEF Queue!Put

\* fifo_remove is Take, or changes nothing.
LEMMA RemoveStep ==
  ASSUME IInv, fifo_remove
  PROVE  Queue!Take \/ UNCHANGED Entries
<1>1. CASE fifo_entries = 0
  <2>1. fifo_entries' = fifo_entries /\ fifo_start' = fifo_start /\ fifo' = fifo
    BY <1>1 DEF fifo_remove
  <2> QED BY <2>1 DEF Entries
<1>2. CASE fifo_entries > 0
  <2>1. /\ fifo_entries' = fifo_entries - 1 /\ fifo_entries \in Nat
        /\ \A k \in 1 .. fifo_entries - 1 : Entries'[k] = Entries[k + 1]
    BY <1>2, RemoveEffect DEF IInv, TypeOK
  <2>2. Entries \in [1 .. fifo_entries -> Types]
    BY EntriesType DEF IInv
  <2>3. Entries' \in [1 .. fifo_entries - 1 -> Types]
    <3>1. Entries' = [k \in 1 .. fifo_entries - 1 |-> Entries'[k]]
      BY <2>1 DEF Entries
    <3>2. \A k \in 1 .. fifo_entries - 1 : k + 1 \in 1 .. fifo_entries
      BY <2>1
    <3>3. \A k \in 1 .. fifo_entries - 1 : Entries'[k] \in Types
      BY <2>1, <2>2, <3>2
    <3> QED BY <3>1, <3>3
  <2>4. /\ Entries \in Seq(Types) /\ Len(Entries) = fifo_entries
        /\ Entries' \in Seq(Types) /\ Len(Entries') = fifo_entries - 1
    BY <1>2, <2>1, <2>2, <2>3, SequenceIs
  <2>5. Entries # <<>>
    BY <1>2, <2>4
  <2>6. Entries' = Tail(Entries)
    BY <1>2, <2>1, <2>3, <2>4, <2>5
  <2> QED BY <2>5, <2>6 DEF Queue!Take
<1>3. fifo_entries = 0 \/ fifo_entries > 0
  BY DEF IInv, TypeOK
<1> QED BY <1>1, <1>2, <1>3

\* mkbp_fifo_clear_keyboard is ClearKeyboard.
LEMMA ClearStep ==
  ASSUME IInv, mkbp_fifo_clear_keyboard
  PROVE  Queue!ClearKeyboard
<1>1. PICK n \in 0 .. fifo_entries :
        \E from \in [1 .. n -> Kept] :
          /\ \A i, j \in 1 .. n : i < j => from[i] < from[j]
          /\ \A k \in Kept : \E i \in 1 .. n : from[i] = k
          /\ fifo_entries' = n
          /\ \A i \in 1 .. n : Entries'[i] = Entries[from[i]]
  BY ClearEffect DEF IInv
<1>2. PICK from \in [1 .. n -> Kept] :
        /\ \A i, j \in 1 .. n : i < j => from[i] < from[j]
        /\ \A k \in Kept : \E i \in 1 .. n : from[i] = k
        /\ fifo_entries' = n
        /\ \A i \in 1 .. n : Entries'[i] = Entries[from[i]]
  BY <1>1
<1>3. Len(Entries) = fifo_entries
  BY EntriesType, SequenceIs DEF IInv, TypeOK
<1>4. Queue!Kept = Kept
  BY <1>3 DEF Queue!Kept, Kept
<1>5. Entries' = [i \in 1 .. n |-> Entries[from[i]]]
  <2>1. Entries' = [i \in 1 .. n |-> Entries'[i]]
    BY <1>2 DEF Entries
  <2> QED BY <1>2, <2>1
<1> QED BY <1>1, <1>2, <1>3, <1>4, <1>5 DEF Queue!ClearKeyboard

\* Every step is a step of the queue or leaves it as it is.
LEMMA QueueStep ==
  ASSUME IInv, [Next]_vars
  PROVE  [Queue!Next]_Entries
<1> USE DEF Entries, ring, fifoVars
<1>1. ASSUME NEW t \in Tasks, activate(t) PROVE [Queue!Next]_Entries
  BY <1>1 DEF activate
<1>2. ASSUME NEW t \in Tasks, raise_line(t) PROVE [Queue!Next]_Entries
  BY <1>2 DEF raise_line
<1>3. ASSUME NEW t \in Tasks, raise_fails(t) PROVE [Queue!Next]_Entries
  BY <1>3 DEF raise_fails
<1>4. ASSUME NEW t \in Tasks, settle(t) PROVE [Queue!Next]_Entries
  BY <1>4 DEF settle
<1>5. ASSUME NEW t \in Tasks, schedule_net(t) PROVE [Queue!Next]_Entries
  BY <1>5 DEF schedule_net
<1>6. ASSUME NEW t \in Tasks, mkbp_send_event(t) PROVE [Queue!Next]_Entries
  BY <1>6 DEF mkbp_send_event
<1>7. ASSUME NEW t \in Tasks, fifo_add_call(t) PROVE [Queue!Next]_Entries
  BY <1>7 DEF fifo_add_call
<1>8. ASSUME NEW t \in Tasks, fifo_overflow(t) PROVE [Queue!Next]_Entries
  BY <1>8 DEF fifo_overflow
<1>9. ASSUME NEW t \in Tasks, fifo_put(t) PROVE [Queue!Next]_Entries
  BY <1>9, PutStep DEF Queue!Next
<1>10. ASSUME NEW t \in Tasks, fifo_add_return(t) PROVE [Queue!Next]_Entries
  BY <1>10 DEF fifo_add_return
<1>11. ASSUME force_call PROVE [Queue!Next]_Entries
  BY <1>11 DEF force_call
<1>12. ASSUME force_mkbp_if_events PROVE [Queue!Next]_Entries
  BY <1>12 DEF force_mkbp_if_events
<1>13. ASSUME clear_call PROVE [Queue!Next]_Entries
  BY <1>13 DEF clear_call
<1>14. ASSUME mkbp_fifo_clear_keyboard PROVE [Queue!Next]_Entries
  BY <1>14, ClearStep DEF Queue!Next
<1>15. ASSUME mkbp_fifo_depth_update PROVE [Queue!Next]_Entries
  BY <1>15 DEF mkbp_fifo_depth_update
<1>16. ASSUME get_next_call PROVE [Queue!Next]_Entries
  BY <1>16 DEF get_next_call
<1>17. ASSUME take_event PROVE [Queue!Next]_Entries
  BY <1>17 DEF take_event
<1>18. ASSUME take_nothing PROVE [Queue!Next]_Entries
  BY <1>18 DEF take_nothing
<1>19. ASSUME peek_type PROVE [Queue!Next]_Entries
  BY <1>19 DEF peek_type
<1>20. ASSUME peek_entries PROVE [Queue!Next]_Entries
  BY <1>20 DEF peek_entries
<1>21. ASSUME get_data_busy PROVE [Queue!Next]_Entries
  BY <1>21 DEF get_data_busy
<1>22. ASSUME fifo_remove PROVE [Queue!Next]_Entries
  BY <1>22, RemoveStep DEF Queue!Next
<1>23. ASSUME fifo_more PROVE [Queue!Next]_Entries
  BY <1>23 DEF fifo_more
<1>24. ASSUME set_inactive_if_no_events PROVE [Queue!Next]_Entries
  BY <1>24 DEF set_inactive_if_no_events
<1>25. ASSUME cancel_net PROVE [Queue!Next]_Entries
  BY <1>25 DEF cancel_net
<1>26. ASSUME UNCHANGED vars PROVE [Queue!Next]_Entries
  BY <1>26 DEF vars
<1> QED BY <1>1, <1>2, <1>3, <1>4, <1>5, <1>6, <1>7, <1>8, <1>9, <1>10, <1>11, <1>12,
           <1>13, <1>14, <1>15, <1>16, <1>17, <1>18, <1>19, <1>20, <1>21, <1>22, <1>23,
           <1>24, <1>25, <1>26 DEF Next, Activation, Source, mkbp_get_next_event

\* The circular buffer is a bounded queue: entries leave in the order they came,
\* none is lost or overwritten, and clearing drops those of the keyboard only.
THEOREM Refinement == Spec => ImplementsQueue
<1>1. Init => Queue!Init
  <2> SUFFICES ASSUME Init PROVE Entries = <<>>
    BY DEF Queue!Init
  <2> QED BY DEF Init, Entries
<1>2. IInv /\ [Next]_vars => [Queue!Next]_Entries
  BY QueueStep
<1> QED BY <1>1, <1>2, Invariance, PTL DEF Spec, ImplementsQueue, Queue!Spec

=============================================================================
