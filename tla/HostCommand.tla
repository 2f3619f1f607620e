---------------------------- MODULE HostCommand ----------------------------
(***************************************************************************)
(* Host commands (common/host_command_task.c, common/host_command.c) over  *)
(* the SPI target of the STM32 (chip/stm32/spi.c).  The interrupt of the   *)
(* chip select NSS receives a request into the one static args0 and wakes  *)
(* the host command task, which answers it; the interrupt may come between *)
(* any two steps of the task.  A slow command (flash erase) answers        *)
(* IN_PROGRESS first; the host then asks for the status, which is answered *)
(* in the interrupt, and for the saved result.                             *)
(*                                                                         *)
(* External: the host, which drives NSS.  It may give up any transaction.  *)
(***************************************************************************)
EXTENDS Naturals

CONSTANTS MaxRequests      \* bound: requests of the host

ASSUME MaxRequestsAssumption == MaxRequests \in Nat

Ids == 1 .. MaxRequests
NoId == 0
\* quick and slow stand for commands without and with IN_PROGRESS;
\* corrupt for a packet that host_packet_receive rejects.
Kinds == {"quick", "slow", "status", "resend", "corrupt"}
Results == {"SUCCESS", "ERROR", "IN_PROGRESS", "UNAVAILABLE", "INVALID_CHECKSUM"}
Requests == [id : Ids \union {NoId}, kind : Kinds]
NoRequest == [id |-> NoId, kind |-> "quick"]
\* An answer: the request whose processing produced it, and its contents.
Answers == [to : Ids \union {NoId}, result : Results, busy : BOOLEAN]
NoAnswer == [to |-> NoId, result |-> "SUCCESS", busy |-> FALSE]
\* RECEIVING and PREPARE_RX do not outlive the interrupt or the call that sets
\* them; no decision is taken in them.
SpiStates == {"DISABLED", "READY_TO_RX", "RX_BAD", "PROCESSING", "SENDING"}

VARIABLES
  nss, edge,              \* level of NSS, its interrupt is pending
  wire, received,         \* host: its request and the answer to it so far
  awaiting, done,         \* host: the request in progress; it is done
  state, enabled,         \* spi.c
  setup_transaction_later,
  tx,                     \* answer clocked out by the DMA
  args0,                  \* args0 and pkt0: request, result, response_size
  out_msg,
  event, pending_args,    \* TASK_EVENT_CMD_PENDING; pending_args is set
  command_pending, saved_result,
  pc, ret,                \* the task: step, where host_send_response returns
  serving, rv,            \* request it processes, result of its handler
  chipsetOn,
  overlaps, finished      \* history: whether requests began while the one
                          \* before, "answered" or "given_up", was still in
                          \* the task; results of the slow commands

wires == <<nss, edge>>
host == <<wire, received, awaiting, done>>
spi == <<state, enabled, setup_transaction_later, tx>>
status == <<command_pending, saved_result>>
wakeup == <<event, pending_args>>
task == <<pc, ret, serving, rv>>
history == <<overlaps, finished>>
vars == <<wires, host, spi, args0, out_msg, wakeup, status, task, chipsetOn, history>>

Init ==
  /\ nss = "high" /\ edge = FALSE
  /\ wire = NoRequest /\ received = NoAnswer /\ awaiting = NoId /\ done = FALSE
  /\ chipsetOn \in BOOLEAN /\ enabled = chipsetOn
  /\ state = IF chipsetOn THEN "READY_TO_RX" ELSE "DISABLED"
  /\ setup_transaction_later = FALSE
  /\ tx = NoAnswer
  /\ args0 = [request |-> NoRequest, result |-> "SUCCESS", response_size |-> 0]
  /\ out_msg = NoAnswer
  /\ event = FALSE /\ pending_args = FALSE
  /\ command_pending = FALSE /\ saved_result = "UNAVAILABLE"
  /\ pc = "wait" /\ ret = "wait" /\ serving = NoRequest /\ rv = "SUCCESS"
  /\ overlaps = {} /\ finished = [i \in Ids |-> "IN_PROGRESS"]

-----------------------------------------------------------------------------
(***************************************************************************)
(* The host.  After IN_PROGRESS it asks for the status until the command   *)
(* is done, then for the result; it may also forget about the command.     *)
(***************************************************************************)
MaySend(kind) ==
  CASE kind = "resend" -> awaiting # NoId /\ done
    [] kind = "status" -> TRUE
    [] OTHER -> awaiting = NoId

\* The task has a request that it is going to answer or is answering.
Answering ==
  \/ event
  \/ pc \notin {"wait", "erase"} /\ ~(command_pending /\ pc \in {"assign", "send"})
GaveUp == wire.id # NoId /\ received = NoAnswer

\* The host leaves NSS high for its recovery time, in which the interrupt is
\* taken.
host_assert ==
  /\ nss = "high" /\ ~edge /\ wire.id < MaxRequests
  /\ \E kind \in Kinds :
       /\ MaySend(kind)
       /\ wire' = [id |-> wire.id + 1, kind |-> kind]
  /\ nss' = "low" /\ edge' = TRUE
  /\ received' = NoAnswer
  /\ overlaps' = overlaps \union
       IF ~Answering THEN {} ELSE IF GaveUp THEN {"given_up"} ELSE {"answered"}
  /\ UNCHANGED <<awaiting, done, spi, args0, out_msg, wakeup, status, task, chipsetOn, finished>>

\* With the chipset off the pins of the SPI are inputs.
host_receive ==
  /\ nss = "low" /\ chipsetOn /\ tx # NoAnswer /\ received = NoAnswer
  /\ received' = tx
  /\ awaiting' = IF tx.result = "IN_PROGRESS" THEN wire.id
                 ELSE IF wire.kind = "resend" THEN NoId ELSE awaiting
  /\ done' = (wire.kind = "status" /\ tx.result = "SUCCESS" /\ ~tx.busy)
  /\ tx' = NoAnswer
  /\ UNCHANGED <<wires, wire, state, enabled, setup_transaction_later, args0, out_msg, wakeup, status, task, chipsetOn, history>>

host_deassert ==
  /\ nss = "low"
  /\ nss' = "high" /\ edge' = TRUE
  /\ UNCHANGED <<host, spi, args0, out_msg, wakeup, status, task, chipsetOn, history>>

host_forgets ==
  /\ awaiting # NoId /\ nss = "high"
  /\ awaiting' = NoId /\ done' = FALSE
  /\ UNCHANGED <<wires, wire, received, spi, args0, out_msg, wakeup, status, task, chipsetOn, history>>

-----------------------------------------------------------------------------
(***************************************************************************)
(* spi.c.                                                                  *)
(***************************************************************************)
\* setup_for_transaction, then enabled, as spi_chipset_startup does.
spi_startup ==
  /\ state' = "READY_TO_RX" /\ enabled' = TRUE
  /\ setup_transaction_later' = FALSE
  /\ tx' = NoAnswer

Disabled ==
  /\ state' = "DISABLED" /\ enabled' = FALSE

\* After the boot spi_init is called with enabled set, so it starts again.
spi_init == spi_startup

\* The answer leaves from the interrupt: there setup_transaction_later is
\* clear, since only the state PROCESSING, entered just before, sets it.
respond_now(request, result, size, busy) ==
  LET answer == [to |-> request.id, result |-> result, busy |-> busy] IN
  /\ args0' = [request |-> request, result |-> result, response_size |-> size]
  /\ out_msg' = answer /\ tx' = answer
  /\ state' = "SENDING"
  /\ UNCHANGED wakeup

host_command_received(request) ==
  IF request.kind = "status"
    THEN respond_now(request, "SUCCESS", 1, command_pending)
    ELSE /\ args0' = [request |-> request, result |-> "SUCCESS", response_size |-> 0]
         /\ pending_args' = TRUE /\ event' = TRUE
         /\ state' = "PROCESSING"
         /\ UNCHANGED <<out_msg, tx>>

\* A rejected packet leaves the rest of args0 as it was.
host_packet_receive(request) ==
  IF request.kind = "corrupt"
    THEN /\ args0' = [args0 EXCEPT !.result = "INVALID_CHECKSUM", !.response_size = 0]
         /\ LET answer == [to |-> request.id, result |-> "INVALID_CHECKSUM", busy |-> FALSE] IN
            out_msg' = answer /\ tx' = answer
         /\ state' = "SENDING"
         /\ UNCHANGED wakeup
    ELSE host_command_received(request)

irq == edge /\ edge' = FALSE /\ UNCHANGED <<nss, host, status, task, chipsetOn, history>>

spi_event_disabled ==
  /\ irq /\ ~enabled
  /\ UNCHANGED <<spi, args0, out_msg, wakeup>>

\* Mutant: an end of transaction during the processing is forgotten.
EndForgotten ==
  /\ irq /\ enabled /\ nss = "high"
  /\ IF state = "PROCESSING" THEN UNCHANGED spi ELSE spi_init
  /\ UNCHANGED <<args0, out_msg, wakeup>>

spi_event_end ==
  /\ irq /\ enabled /\ nss = "high"
  /\ IF state = "PROCESSING"
       THEN setup_transaction_later' = TRUE /\ UNCHANGED <<state, enabled, tx>>
       ELSE spi_init
  /\ UNCHANGED <<args0, out_msg, wakeup>>

\* Mutant: glitches on NSS are not ignored while the driver is off.
BadWhileOff ==
  /\ irq /\ nss = "low"
  /\ state' = "RX_BAD"
  /\ UNCHANGED <<enabled, setup_transaction_later, tx, args0, out_msg, wakeup>>

\* Not ready, or the request does not arrive in time and whole.
spi_event_bad ==
  /\ irq /\ enabled /\ nss = "low"
  /\ state' = "RX_BAD"
  /\ UNCHANGED <<enabled, setup_transaction_later, tx, args0, out_msg, wakeup>>

spi_event_request ==
  /\ irq /\ enabled /\ nss = "low" /\ state = "READY_TO_RX"
  /\ host_packet_receive(wire)
  /\ UNCHANGED <<enabled, setup_transaction_later>>

\* The chipset hooks run in the HOOKS task, of lower priority: when the host
\* command task waits or sleeps in a handler.
TaskSleeps == pc \in {"wait", "handler", "erase"} /\ ~edge

spi_chipset_startup ==
  /\ TaskSleeps /\ ~chipsetOn /\ chipsetOn' = TRUE
  /\ spi_startup
  /\ UNCHANGED <<wires, host, args0, out_msg, wakeup, status, task, history>>

spi_chipset_shutdown ==
  /\ TaskSleeps /\ chipsetOn /\ chipsetOn' = FALSE
  /\ Disabled
  /\ UNCHANGED <<wires, host, setup_transaction_later, tx, args0, out_msg, wakeup, status, task, history>>

-----------------------------------------------------------------------------
(***************************************************************************)
(* The host command task.                                                  *)
(***************************************************************************)
At(step) == pc = step /\ ~edge /\ UNCHANGED <<wires, host, chipsetOn, overlaps>>

host_command_task ==
  /\ At("wait") /\ event
  /\ event' = FALSE
  /\ pc' = IF pending_args THEN "process" ELSE "wait"
  /\ UNCHANGED <<spi, args0, out_msg, pending_args, status, ret, serving, rv, finished>>

host_command_process ==
  /\ At("process")
  /\ serving' = args0.request
  /\ pc' = "handler"
  /\ UNCHANGED <<spi, args0, out_msg, wakeup, status, ret, rv, finished>>

\* The handler returns: pending_args->result = rv, then host_send_response.
handler_returns(result) == rv' = result /\ pc' = "assign" /\ UNCHANGED ret

handler_quick ==
  /\ At("handler") /\ serving.kind = "quick"
  /\ \E result \in {"SUCCESS", "ERROR"} :
       /\ handler_returns(result)
       /\ args0' = [args0 EXCEPT !.response_size = IF result = "SUCCESS" THEN 1 ELSE @]
  /\ UNCHANGED <<spi, out_msg, wakeup, status, serving, finished>>

\* In the task when the interrupt has overwritten a command not yet begun.
host_command_get_comms_status ==
  /\ At("handler") /\ serving.kind = "status"
  /\ args0' = [args0 EXCEPT !.response_size = 1]
  /\ handler_returns("SUCCESS")
  /\ UNCHANGED <<spi, out_msg, wakeup, status, serving, finished>>

host_command_resend_response ==
  /\ At("handler") /\ serving.kind = "resend"
  /\ args0' = [args0 EXCEPT !.response_size = 0, !.result = saved_result]
  /\ saved_result' = "UNAVAILABLE"
  /\ handler_returns("SUCCESS")
  /\ UNCHANGED <<spi, out_msg, wakeup, command_pending, serving, finished>>

flash_command_erase ==
  /\ At("handler") /\ serving.kind = "slow"
  /\ args0' = [args0 EXCEPT !.result = "IN_PROGRESS"]
  /\ pc' = "send" /\ ret' = "erase"
  /\ UNCHANGED <<spi, out_msg, wakeup, status, serving, rv, finished>>

erased ==
  /\ At("erase")
  /\ \E result \in {"SUCCESS", "ERROR"} :
       /\ rv' = result
       /\ finished' = [finished EXCEPT ![serving.id] = result]
  /\ pc' = "assign"
  /\ UNCHANGED <<spi, args0, out_msg, wakeup, status, ret, serving>>

assign_result ==
  /\ At("assign")
  /\ args0' = [args0 EXCEPT !.result = rv]
  /\ pc' = "send" /\ ret' = "wait"
  /\ UNCHANGED <<spi, out_msg, wakeup, status, serving, rv, finished>>

\* Mutants: the saved result is sent as well; the next request is dropped.
SaveAndSend ==
  /\ At("send") /\ command_pending
  /\ saved_result' = IF args0.response_size # 0 THEN "UNAVAILABLE" ELSE args0.result
  /\ command_pending' = FALSE
  /\ pc' = "respond"
  /\ UNCHANGED <<spi, args0, out_msg, wakeup, ret, serving, rv, finished>>
SaveAndForget ==
  /\ At("send") /\ command_pending
  /\ saved_result' = IF args0.response_size # 0 THEN "UNAVAILABLE" ELSE args0.result
  /\ command_pending' = FALSE /\ pending_args' = FALSE
  /\ pc' = ret
  /\ UNCHANGED <<spi, args0, out_msg, event, ret, serving, rv, finished>>

\* host_send_response in the task.
save_result ==
  /\ At("send") /\ command_pending
  /\ saved_result' = IF args0.response_size # 0 THEN "UNAVAILABLE" ELSE args0.result
  /\ command_pending' = FALSE
  /\ pc' = ret
  /\ UNCHANGED <<spi, args0, out_msg, wakeup, ret, serving, rv, finished>>

\* Mutant: the command in progress is not noted.
SendUnnoted ==
  /\ At("send") /\ ~command_pending
  /\ pc' = "respond"
  /\ UNCHANGED <<spi, args0, out_msg, wakeup, status, ret, serving, rv, finished>>

send_response ==
  /\ At("send") /\ ~command_pending
  /\ command_pending' = (args0.result = "IN_PROGRESS")
  /\ pc' = "respond"
  /\ UNCHANGED <<spi, args0, out_msg, wakeup, saved_result, ret, serving, rv, finished>>

host_packet_respond ==
  /\ At("respond")
  /\ args0' = [args0 EXCEPT !.response_size = IF args0.result # "SUCCESS" THEN 0 ELSE @]
  /\ out_msg' = [to |-> serving.id, result |-> args0.result, busy |-> FALSE]
  /\ pc' = "transmit"
  /\ UNCHANGED <<spi, wakeup, status, ret, serving, rv, finished>>

spi_send_response_packet ==
  /\ At("transmit")
  /\ pc' = IF state # "PROCESSING" THEN ret ELSE "dma_go"
  /\ UNCHANGED <<spi, args0, out_msg, wakeup, status, ret, serving, rv, finished>>

dma_go ==
  /\ At("dma_go")
  /\ tx' = out_msg
  /\ pc' = "sending"
  /\ UNCHANGED <<state, enabled, setup_transaction_later, args0, out_msg, wakeup, status, ret, serving, rv, finished>>

set_sending ==
  /\ At("sending")
  /\ state' = "SENDING"
  /\ pc' = "later"
  /\ UNCHANGED <<enabled, setup_transaction_later, tx, args0, out_msg, wakeup, status, ret, serving, rv, finished>>

\* spi_init in the task: while it has cleared enabled, the interrupt
\* ignores the edges of NSS.
check_setup_transaction_later ==
  /\ At("later")
  /\ IF setup_transaction_later THEN Disabled /\ pc' = "startup"
     ELSE pc' = ret /\ UNCHANGED <<state, enabled>>
  /\ UNCHANGED <<setup_transaction_later, tx, args0, out_msg, wakeup, status, ret, serving, rv, finished>>

spi_init_completes ==
  /\ At("startup")
  /\ spi_startup
  /\ pc' = ret
  /\ UNCHANGED <<args0, out_msg, wakeup, status, ret, serving, rv, finished>>

-----------------------------------------------------------------------------
HostNext == host_assert \/ host_receive \/ host_deassert \/ host_forgets

IrqNext ==
  \/ spi_event_disabled \/ spi_event_end
  \/ spi_event_bad \/ spi_event_request

HooksNext == spi_chipset_startup \/ spi_chipset_shutdown

TaskNext ==
  \/ host_command_task \/ host_command_process
  \/ handler_quick \/ host_command_get_comms_status \/ host_command_resend_response
  \/ flash_command_erase \/ erased \/ assign_result
  \/ save_result \/ send_response
  \/ host_packet_respond \/ spi_send_response_packet
  \/ dma_go \/ set_sending
  \/ check_setup_transaction_later \/ spi_init_completes

Next == HostNext \/ IrqNext \/ HooksNext \/ TaskNext

\* The interrupt is taken and the task runs; the host owes nothing.
Fairness == WF_vars(IrqNext) /\ WF_vars(TaskNext)

Spec == Init /\ [][Next]_vars
FairSpec == Spec /\ Fairness

-----------------------------------------------------------------------------
(***************************************************************************)
(* Properties.                                                             *)
(***************************************************************************)
Steps == {"wait", "process", "handler", "erase", "assign", "send", "respond",
          "transmit", "dma_go", "sending", "later", "startup"}

HostTypes ==
  /\ nss \in {"high", "low"} /\ edge \in BOOLEAN
  /\ wire \in Requests /\ received \in Answers
  /\ awaiting \in Ids \union {NoId} /\ done \in BOOLEAN
  /\ chipsetOn \in BOOLEAN /\ overlaps \subseteq {"answered", "given_up"}

DriverTypes ==
  /\ state \in SpiStates /\ enabled \in BOOLEAN /\ setup_transaction_later \in BOOLEAN
  /\ tx \in Answers /\ out_msg \in Answers
  /\ args0 \in [request : Requests, result : Results, response_size : {0, 1}]

TaskTypes ==
  /\ event \in BOOLEAN /\ pending_args \in BOOLEAN
  /\ command_pending \in BOOLEAN /\ saved_result \in Results
  /\ pc \in Steps /\ ret \in {"wait", "erase"}
  /\ serving \in Requests /\ rv \in {"SUCCESS", "ERROR"}
  /\ finished \in [Ids -> {"IN_PROGRESS", "SUCCESS", "ERROR"}]

\* The variables have their types, and the driver listens to NSS exactly
\* while the chipset is on, but for the restart in the task.
TypeOK ==
  /\ HostTypes /\ DriverTypes /\ TaskTypes
  /\ enabled <=> chipsetOn /\ pc # "startup"
  /\ state = "DISABLED" <=> ~enabled

\* The answer that the host reads answers the request it sent, unless it gave
\* up an earlier request that the task still processes.
AnswerToOwnRequest ==
  "given_up" \notin overlaps => (received # NoAnswer => received.to = wire.id)

\* When the host is told that the command in progress is done, it is.
DoneMeansDone ==
  "given_up" \notin overlaps => (awaiting # NoId /\ done => finished[awaiting] # "IN_PROGRESS")

\* Between transactions, with no command in the task, the driver is ready for
\* the next one: no end of a transaction is lost between the interrupt and
\* the task.
ReadyWhenIdle ==
  overlaps = {} =>
    (nss = "high" /\ ~edge /\ enabled /\ pc = "wait" /\ ~event => state = "READY_TO_RX")

\* A request that is being processed leaves that state.
ProcessingEnds == [](state = "PROCESSING" => <>(state # "PROCESSING"))

\* "If the buffer is still used by the host command, postpone the DMA rx
\* setup": the end of a transaction does not make the driver ready for the
\* next one while the task has still to begin or to end the handler.
SetupPostponed ==
  [][spi_event_end /\ state # "READY_TO_RX" /\ (event \/ pc \in {"process", "handler"})
       => state' # "READY_TO_RX"]_vars

\* "When a EC_CMD_RESEND_RESPONSE arrives we will supply this response": the
\* host is told the result of the command in progress, or that there is none.
ResendIsTrue ==
  [][host_receive /\ wire.kind = "resend" /\ received'.to = wire.id
       => received'.result \in {finished[awaiting], "UNAVAILABLE"}]_vars

=============================================================================
