-------------------------------- MODULE Mkbp --------------------------------
(***************************************************************************)
(* Events from the EC to the application processor over the matrix         *)
(* keyboard protocol: the event bits and the interrupt to the AP           *)
(* (common/mkbp_event.c), the FIFO behind the bits of keys and buttons     *)
(* (common/mkbp_fifo.c), and the deferred call that is their safety net.   *)
(*                                                                         *)
(* Tasks run by priority: a step of a task is taken when every task above  *)
(* it is idle or blocked.  state.lock and fifo_remove_mutex protect        *)
(* sections that are one step here; fifo_add_mutex is held across          *)
(* mkbp_send_event and is a variable.  The build has no wake masks.        *)
(***************************************************************************)
EXTENDS Naturals, Sequences

CONSTANTS
  HOOKS, HOSTCMD, KEYSCAN,   \* task IDs
  EC_MKBP_EVENT_COUNT,       \* event types are 0 .. COUNT-1
  KEY_MATRIX,
  FifoTypes,                 \* types whose data is in the FIFO
  Sources,                   \* pairs <<task, type>>: who sends what
  FIFO_DEPTH,
  Depths,                    \* depths the AP may set
  ID_MOD,                    \* interrupt_id is 8 bits: 256 in the code
  MayFail,                   \* may mkbp_set_host_active(1) fail and deschedule
  MaxEvents                  \* bound: events sent

Tasks == {HOOKS, HOSTCMD, KEYSCAN}
Types == 0 .. EC_MKBP_EVENT_COUNT - 1

\* In every ec.tasklist HOOKS comes before HOSTCMD.
ASSUME MkbpTasks == /\ Tasks \subseteq Nat /\ HOOKS < HOSTCMD /\ KEYSCAN \notin {HOOKS, HOSTCMD}
                    /\ EC_MKBP_EVENT_COUNT \in Nat /\ KEY_MATRIX \in FifoTypes /\ FifoTypes \subseteq Types
                    /\ Sources \subseteq (Tasks \ {HOSTCMD}) \X Types
ASSUME MkbpSizes == /\ FIFO_DEPTH \in Nat \ {0} /\ ID_MOD \in Nat \ {0}
                    /\ Depths \subseteq 0 .. FIFO_DEPTH
                    /\ MaxEvents \in Nat /\ MayFail \in BOOLEAN

VARIABLES
  events, interrupt, interrupt_id, failed_attempts,   \* struct mkbp_state
  line,           \* mkbp_set_host_active: is the AP told there is an event
  deferred,       \* force_mkbp_if_events is scheduled
  fifo, fifo_start, fifo_end, fifo_entries, fifo_max_depth,
  fifo_add_mutex, \* its holder, a set
  last,           \* mkbp_get_next_event: where the round robin goes on
  evt, seen,      \* mkbp_get_next_event: type it services, type it peeked at
  pc,             \* step of each task
  arg, my_id,     \* type a task sends; interrupt_id of its activation
  sent,           \* events sent so far
  keysCleared,    \* history: mkbp_fifo_clear_keyboard has run
  netLost         \* history: the net was spread between the unlock and its cancel

state    == <<events, interrupt, interrupt_id, failed_attempts>>
ring     == <<fifo, fifo_start, fifo_end, fifo_entries>>
fifoVars == <<ring, fifo_max_depth, fifo_add_mutex>>
reader   == <<last, evt, seen>>
ghosts   == <<sent, keysCleared, netLost>>
vars == <<state, line, deferred, fifoVars, reader, pc, arg, my_id, ghosts>>

None == EC_MKBP_EVENT_COUNT        \* no event: activate_mkbp_with_events(0)
Slots == 0 .. FIFO_DEPTH - 1
Slot(i) == i % FIFO_DEPTH

Init ==
  /\ events = {} /\ interrupt = "INACTIVE" /\ interrupt_id = 0 /\ failed_attempts = 0
  /\ line = FALSE /\ deferred = FALSE
  /\ fifo = [i \in Slots |-> 0]
  /\ fifo_start = 0 /\ fifo_end = 0 /\ fifo_entries = 0
  /\ fifo_max_depth = FIFO_DEPTH
  /\ fifo_add_mutex = {}
  /\ last = 0 /\ evt = None /\ seen = None
  /\ pc = [t \in Tasks |-> "idle"]
  /\ arg = [t \in Tasks |-> None]
  /\ my_id = [t \in Tasks |-> 0]
  /\ sent = 0 /\ keysCleared = FALSE /\ netLost = FALSE

-----------------------------------------------------------------------------
\* A task above t is off the CPU: idle, waiting for fifo_add_mutex, or
\* descheduled in the transport that tells the AP.
OffCpu(u) == \/ pc[u] = "idle"
             \/ pc[u] \in {"add", "clear"} /\ fifo_add_mutex # {}
             \/ pc[u] = "raise" /\ MayFail

Executes(t, step) == /\ pc[t] = step
                     /\ \A u \in Tasks : u > t => OffCpu(u)

Goto(t, step) == pc' = [pc EXCEPT ![t] = step]

\* Where a task goes on after activate_mkbp_with_events.
AfterSend(t) == IF t = HOSTCMD THEN "finish"
                ELSE IF t \in fifo_add_mutex THEN "unlock" ELSE "idle"

-----------------------------------------------------------------------------
(***************************************************************************)
(* activate_mkbp_with_events.                                              *)
(***************************************************************************)
activate(t) ==
  /\ Executes(t, "send")
  /\ events' = events \union ({arg[t]} \ {None})
  /\ IF events' # {} /\ interrupt = "INACTIVE"
     THEN /\ interrupt' = "INACTIVE_TO_ACTIVE"
          /\ interrupt_id' = (interrupt_id + 1) % ID_MOD
          /\ my_id' = [my_id EXCEPT ![t] = interrupt_id']
          /\ Goto(t, "raise")
     ELSE /\ Goto(t, AfterSend(t))
          /\ UNCHANGED <<interrupt, interrupt_id, my_id>>
  /\ arg' = [arg EXCEPT ![t] = None]
  /\ UNCHANGED <<failed_attempts, line, deferred, fifoVars, reader, ghosts>>

\* mkbp_set_host_active(1).
raise_line(t) ==
  /\ Executes(t, "raise")
  /\ line' = TRUE
  /\ Goto(t, "raised")
  /\ UNCHANGED <<state, deferred, fifoVars, reader, arg, my_id, ghosts>>

raise_fails(t) ==
  /\ MayFail /\ Executes(t, "raise")
  /\ Goto(t, "failed")
  /\ UNCHANGED <<state, line, deferred, fifoVars, reader, arg, my_id, ghosts>>

\* Mutant: any activation finishes the transition.
SettleAnyId(t) ==
  \E step \in {"raised", "failed"} :
    /\ Executes(t, step)
    /\ IF interrupt = "INACTIVE_TO_ACTIVE"
       THEN /\ interrupt' = IF step = "raised" THEN "ACTIVE" ELSE "INACTIVE"
            /\ Goto(t, "net")
       ELSE UNCHANGED interrupt /\ Goto(t, AfterSend(t))
    /\ my_id' = [my_id EXCEPT ![t] = 0]
    /\ UNCHANGED <<events, interrupt_id, failed_attempts, line, deferred,
                   fifoVars, reader, arg, ghosts>>

\* Only the latest activation finishes the transition.
settle(t) ==
  \E step \in {"raised", "failed"} :
    /\ Executes(t, step)
    /\ IF interrupt = "INACTIVE_TO_ACTIVE" /\ my_id[t] = interrupt_id
       THEN /\ interrupt' = IF step = "raised" THEN "ACTIVE" ELSE "INACTIVE"
            /\ Goto(t, "net")
       ELSE UNCHANGED interrupt /\ Goto(t, AfterSend(t))
    /\ my_id' = [my_id EXCEPT ![t] = 0]
    /\ UNCHANGED <<events, interrupt_id, failed_attempts, line, deferred,
                   fifoVars, reader, arg, ghosts>>

\* hook_call_deferred(&force_mkbp_if_events_data, SECOND)
schedule_net(t) ==
  /\ Executes(t, "net")
  /\ deferred' = TRUE
  /\ netLost' = (netLost \/ pc[HOSTCMD] = "cancel")
  /\ Goto(t, AfterSend(t))
  /\ UNCHANGED <<state, line, fifoVars, reader, arg, my_id, sent, keysCleared>>

\* mkbp_send_event of a type with no FIFO entry, from its source.
mkbp_send_event(t) ==
  /\ sent < MaxEvents /\ Executes(t, "idle")
  /\ \E e \in Types \ FifoTypes :
       <<t, e>> \in Sources /\ arg' = [arg EXCEPT ![t] = e]
  /\ sent' = sent + 1
  /\ Goto(t, "send")
  /\ UNCHANGED <<state, line, deferred, fifoVars, reader, my_id,
                 keysCleared, netLost>>

-----------------------------------------------------------------------------
(***************************************************************************)
(* force_mkbp_if_events, called by the hook task a second after.           *)
(***************************************************************************)
force_call ==
  /\ deferred /\ Executes(HOOKS, "idle")
  /\ deferred' = FALSE
  /\ Goto(HOOKS, "force")
  /\ UNCHANGED <<state, line, fifoVars, reader, arg, my_id, ghosts>>

\* Mutant: attempts are counted for good.
ForceNeverResets ==
  /\ Executes(HOOKS, "force")
  /\ arg' = [arg EXCEPT ![HOOKS] = None]
  /\ IF interrupt = "ACTIVE"
     THEN /\ interrupt' = "INACTIVE"
          /\ failed_attempts' = failed_attempts + 1
          /\ Goto(HOOKS, IF failed_attempts + 1 < 3 THEN "send" ELSE "idle")
     ELSE /\ Goto(HOOKS, IF interrupt = "INACTIVE" THEN "send" ELSE "idle")
          /\ UNCHANGED <<interrupt, failed_attempts>>
  /\ UNCHANGED <<events, interrupt_id, line, deferred, fifoVars, reader, my_id, ghosts>>

force_mkbp_if_events ==
  /\ Executes(HOOKS, "force")
  /\ arg' = [arg EXCEPT ![HOOKS] = None]
  /\ IF interrupt = "ACTIVE"
     THEN /\ interrupt' = "INACTIVE"
          /\ failed_attempts' = (failed_attempts + 1) % 3
          /\ Goto(HOOKS, IF failed_attempts + 1 < 3 THEN "send" ELSE "idle")
     ELSE /\ Goto(HOOKS, IF interrupt = "INACTIVE" THEN "send" ELSE "idle")
          /\ UNCHANGED <<interrupt, failed_attempts>>
  /\ UNCHANGED <<events, interrupt_id, line, deferred, fifoVars, reader, my_id, ghosts>>

-----------------------------------------------------------------------------
(***************************************************************************)
(* mkbp_fifo_add and mkbp_fifo_clear_keyboard.                             *)
(***************************************************************************)
fifo_add_call(t) ==
  /\ sent < MaxEvents /\ Executes(t, "idle")
  /\ \E e \in FifoTypes : <<t, e>> \in Sources /\ arg' = [arg EXCEPT ![t] = e]
  /\ sent' = sent + 1
  /\ Goto(t, "add")
  /\ UNCHANGED <<state, line, deferred, fifoVars, reader, my_id,
                 keysCleared, netLost>>

fifo_overflow(t) ==
  /\ Executes(t, "add") /\ fifo_add_mutex = {}
  /\ fifo_entries >= fifo_max_depth
  /\ arg' = [arg EXCEPT ![t] = None]
  /\ Goto(t, "idle")
  /\ UNCHANGED <<state, line, deferred, fifoVars, reader, my_id, ghosts>>

\* Mutant: room is not looked for.
PutAnyway(t) ==
  /\ Executes(t, "add") /\ fifo_add_mutex = {}
  /\ fifo_add_mutex' = {t}
  /\ fifo' = [fifo EXCEPT ![fifo_end] = arg[t]]
  /\ fifo_end' = Slot(fifo_end + 1)
  /\ fifo_entries' = fifo_entries + 1
  /\ Goto(t, "send")
  /\ UNCHANGED <<state, line, deferred, fifo_start, fifo_max_depth, reader, arg,
                 my_id, ghosts>>

fifo_put(t) ==
  /\ Executes(t, "add") /\ fifo_add_mutex = {}
  /\ fifo_entries < fifo_max_depth
  /\ fifo_add_mutex' = {t}
  /\ fifo' = [fifo EXCEPT ![fifo_end] = arg[t]]
  /\ fifo_end' = Slot(fifo_end + 1)
  /\ fifo_entries' = fifo_entries + 1
  /\ Goto(t, "send")
  /\ UNCHANGED <<state, line, deferred, fifo_start, fifo_max_depth, reader, arg,
                 my_id, ghosts>>

fifo_add_return(t) ==
  /\ Executes(t, "unlock")
  /\ fifo_add_mutex' = {}
  /\ Goto(t, "idle")
  /\ UNCHANGED <<state, line, deferred, ring, fifo_max_depth, reader, arg, my_id, ghosts>>

\* keyboard_clear_buffer, from the keyboard scan task.
clear_call ==
  /\ Executes(KEYSCAN, "idle")
  /\ Goto(KEYSCAN, "clear")
  /\ UNCHANGED <<state, line, deferred, fifoVars, reader, arg, my_id, ghosts>>

Entries == [k \in 1 .. fifo_entries |-> fifo[Slot(fifo_start + k - 1)]]

\* The places of the entries that stay, and how far a slot is behind the first.
Kept == {k \in 1 .. fifo_entries : Entries[k] # KEY_MATRIX}
Behind(i) == Slot(i + FIFO_DEPTH - fifo_start)

\* Both mutexes are taken; the entries that stay move to the front, in their
\* order.
mkbp_fifo_clear_keyboard ==
  /\ Executes(KEYSCAN, "clear") /\ fifo_add_mutex = {}
  /\ \E n \in 0 .. fifo_entries : \E from \in [1 .. n -> Kept] :
       /\ \A i, j \in 1 .. n : i < j => from[i] < from[j]
       /\ \A k \in Kept : \E i \in 1 .. n : from[i] = k
       /\ fifo' = [i \in Slots |-> IF Behind(i) < n THEN Entries[from[Behind(i) + 1]]
                                  ELSE fifo[i]]
       /\ fifo_end' = Slot(fifo_start + n)
       /\ fifo_entries' = n
  /\ keysCleared' = TRUE
  /\ Goto(KEYSCAN, "idle")
  /\ UNCHANGED <<state, line, deferred, fifo_start, fifo_max_depth, fifo_add_mutex,
                 reader, arg, my_id, sent, netLost>>

-----------------------------------------------------------------------------
(***************************************************************************)
(* Host commands: the AP sets the depth of the FIFO or asks for an event.  *)
(***************************************************************************)
mkbp_fifo_depth_update ==
  /\ Executes(HOSTCMD, "idle")
  /\ fifo_max_depth' \in Depths
  /\ UNCHANGED <<state, line, deferred, ring, fifo_add_mutex, reader, pc, arg,
                 my_id, ghosts>>

get_next_call ==
  /\ Executes(HOSTCMD, "idle")
  /\ Goto(HOSTCMD, "find")
  /\ UNCHANGED <<state, line, deferred, fifoVars, reader, arg, my_id, ghosts>>

\* The first event set, starting at last.
RoundRobin(i) ==
  CHOOSE e \in events :
    \A f \in events : (e + EC_MKBP_EVENT_COUNT - i) % EC_MKBP_EVENT_COUNT
                        <= (f + EC_MKBP_EVENT_COUNT - i) % EC_MKBP_EVENT_COUNT

take_event ==
  /\ Executes(HOSTCMD, "find") /\ events # {}
  /\ evt' = RoundRobin(last)
  /\ events' = events \ {evt'}
  /\ last' = (evt' + 1) % EC_MKBP_EVENT_COUNT
  /\ Goto(HOSTCMD, IF evt' \in FifoTypes THEN "peek" ELSE "finish")
  /\ UNCHANGED <<interrupt, interrupt_id, failed_attempts, line, deferred,
                 fifoVars, seen, arg, my_id, ghosts>>

take_nothing ==
  /\ Executes(HOSTCMD, "find") /\ events = {}
  /\ Goto(HOSTCMD, "none")
  /\ UNCHANGED <<state, line, deferred, fifoVars, reader, arg, my_id, ghosts>>

\* mkbp_fifo_get_next_event reads the type of the first entry, then the number
\* of entries, with no lock.
peek_type ==
  /\ Executes(HOSTCMD, "peek")
  /\ seen' = fifo[fifo_start]
  /\ Goto(HOSTCMD, "peek_entries")
  /\ UNCHANGED <<state, line, deferred, fifoVars, last, evt, arg, my_id, ghosts>>

peek_entries ==
  /\ Executes(HOSTCMD, "peek_entries")
  /\ Goto(HOSTCMD, IF fifo_entries = 0 THEN "finish"
                   ELSE IF seen # evt THEN "busy" ELSE "remove")
  /\ seen' = None
  /\ UNCHANGED <<state, line, deferred, fifoVars, last, evt, arg, my_id, ghosts>>

\* The first entry is of another type: service that one.
get_data_busy ==
  /\ Executes(HOSTCMD, "busy")
  /\ events' = events \union {evt}
  /\ Goto(HOSTCMD, "find")
  /\ UNCHANGED <<interrupt, interrupt_id, failed_attempts, line, deferred,
                 fifoVars, reader, arg, my_id, ghosts>>

fifo_remove ==
  /\ Executes(HOSTCMD, "remove")
  /\ IF fifo_entries = 0
     THEN UNCHANGED <<fifo_start, fifo_entries>>
     ELSE /\ fifo_start' = Slot(fifo_start + 1)
          /\ fifo_entries' = fifo_entries - 1
  /\ Goto(HOSTCMD, "more")
  /\ UNCHANGED <<state, line, deferred, fifo, fifo_end, fifo_max_depth,
                 fifo_add_mutex, reader, arg, my_id, ghosts>>

\* Mutant: what is left in the FIFO is not announced.
MoreNever ==
  /\ Executes(HOSTCMD, "more")
  /\ Goto(HOSTCMD, "finish")
  /\ UNCHANGED <<state, line, deferred, fifoVars, reader, arg, my_id, ghosts>>

\* Keep sending events if FIFO is not empty.
fifo_more ==
  /\ Executes(HOSTCMD, "more")
  /\ IF fifo_entries # 0
     THEN /\ arg' = [arg EXCEPT ![HOSTCMD] = fifo[fifo_start]]
          /\ Goto(HOSTCMD, "send")
     ELSE Goto(HOSTCMD, "finish") /\ UNCHANGED arg
  /\ UNCHANGED <<state, line, deferred, fifoVars, reader, my_id, ghosts>>

\* Mutant: the interrupt is taken back although events are left.
InactiveAnyway ==
  \E step \in {"none", "finish"} :
    /\ Executes(HOSTCMD, step)
    /\ interrupt' = "INACTIVE" /\ failed_attempts' = 0 /\ line' = FALSE
    /\ evt' = None
    /\ Goto(HOSTCMD, "cancel")
    /\ UNCHANGED <<events, interrupt_id, deferred, fifoVars, last, seen, arg, my_id, ghosts>>

\* When nothing was taken and an event has come since, the search starts again.
set_inactive_if_no_events ==
  \E step \in {"none", "finish"} :
    /\ Executes(HOSTCMD, step)
    /\ IF events = {}
       THEN /\ interrupt' = "INACTIVE" /\ failed_attempts' = 0 /\ line' = FALSE
            /\ Goto(HOSTCMD, "cancel")
       ELSE /\ Goto(HOSTCMD, IF step = "none" THEN "find" ELSE "idle")
            /\ UNCHANGED <<interrupt, failed_attempts, line>>
    /\ evt' = None
    /\ UNCHANGED <<events, interrupt_id, deferred, fifoVars, last, seen, arg, my_id, ghosts>>

\* hook_call_deferred(&force_mkbp_if_events_data, -1), after the unlock.
cancel_net ==
  /\ Executes(HOSTCMD, "cancel")
  /\ deferred' = FALSE
  /\ Goto(HOSTCMD, "idle")
  /\ UNCHANGED <<state, line, fifoVars, reader, arg, my_id, ghosts>>

-----------------------------------------------------------------------------
Activation(t) == \/ activate(t) \/ raise_line(t) \/ raise_fails(t)
                 \/ settle(t) \/ schedule_net(t)

Source(t) == \/ mkbp_send_event(t) \/ fifo_add_call(t) \/ fifo_overflow(t)
             \/ fifo_put(t) \/ fifo_add_return(t)

mkbp_get_next_event ==
  \/ get_next_call \/ take_event \/ take_nothing \/ peek_type \/ peek_entries
  \/ get_data_busy \/ fifo_remove \/ fifo_more
  \/ set_inactive_if_no_events \/ cancel_net

Next == \/ \E t \in Tasks : Activation(t) \/ Source(t)
        \/ force_call \/ force_mkbp_if_events
        \/ clear_call \/ mkbp_fifo_clear_keyboard
        \/ mkbp_fifo_depth_update \/ mkbp_get_next_event

Spec == Init /\ [][Next]_vars

-----------------------------------------------------------------------------
SendSteps == {"send", "raise", "raised", "failed", "net"}
SourceSteps == SendSteps \union {"idle", "add", "unlock"}
HostSteps == SendSteps \union {"idle", "find", "none", "peek", "peek_entries", "busy",
                               "remove", "more", "finish", "cancel"}

\* Every variable has its type; failed attempts are counted to 3 and no further.
TypeOK ==
  /\ events \subseteq Types
  /\ interrupt \in {"INACTIVE", "INACTIVE_TO_ACTIVE", "ACTIVE"}
  /\ interrupt_id \in 0 .. ID_MOD - 1 /\ failed_attempts \in 0 .. 2
  /\ line \in BOOLEAN /\ deferred \in BOOLEAN
  /\ fifo \in [Slots -> Types]
  /\ fifo_start \in Slots /\ fifo_end \in Slots
  /\ fifo_entries \in 0 .. FIFO_DEPTH /\ fifo_max_depth \in 0 .. FIFO_DEPTH
  /\ fifo_add_mutex \in {{}} \union {{t} : t \in Tasks}
  /\ last \in Types
  /\ evt \in Types \union {None} /\ seen \in Types \union {None}
  /\ pc \in [Tasks -> HostSteps \union SourceSteps \union {"force", "clear"}]
  /\ arg \in [Tasks -> Types \union {None}] /\ my_id \in [Tasks -> 0 .. ID_MOD - 1]
  /\ sent \in 0 .. MaxEvents /\ keysCleared \in BOOLEAN /\ netLost \in BOOLEAN

\* An interrupt the state calls ACTIVE is one the AP sees: no activation that
\* was overtaken by another, or by the AP, marks ACTIVE a line that is down.
ActiveIsRaised == interrupt = "ACTIVE" => line

AllIdle == \A t \in Tasks : pc[t] = "idle"

\* With no code running, an event that is set is announced to the AP, or the
\* safety net will do it: whoever found the interrupt on its way was not
\* overtaken by the AP, which takes it back.
EventsAnnounced == AllIdle /\ events # {} => line \/ deferred

\* It holds unless the net was spread between the unlock and the cancel of
\* set_inactive_if_no_events, which is the only way to lose it.
EventsAnnouncedUnlessNetLost == ~netLost => EventsAnnounced

\* The first entry of the FIFO is reachable: the bit of its type is set, so the
\* AP is told and the search of mkbp_get_next_event finds it.
HeadAnnounced ==
  AllIdle /\ fifo_entries > 0 => fifo[fifo_start] \in events

\* It holds as long as the keyboard has not been cleared from the FIFO.
HeadAnnouncedUnlessCleared == ~keysCleared => HeadAnnounced

\* An entry is handed to the AP as an event of its own type: what
\* mkbp_fifo_get_next_event is about to remove is what it peeked at ("We need to
\* peek at the next event to check that we were called with the correct event").
\* It does not hold: the head is looked at and removed under different locks.
EntryOfItsEvent ==
  pc[HOSTCMD] = "remove" /\ fifo_entries > 0 => fifo[fifo_start] = evt

\* The circular buffer is the queue of MkbpQueue.
Queue == INSTANCE MkbpQueue WITH queue <- Entries, Depth <- FIFO_DEPTH,
                                 KeyMatrix <- KEY_MATRIX

\* Entries leave in the order they came, none is lost or overwritten, whatever
\* runs between the steps of an add, a removal and a clear.
ImplementsQueue == Queue!Spec
=============================================================================
