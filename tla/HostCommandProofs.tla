-------------------------- MODULE HostCommandProofs --------------------------
(***************************************************************************)
(* Theorems of HostCommand, for every number of requests: the host gets    *)
(* the answers to its own requests, is told done when it is, and finds the *)
(* driver ready, unless it gave up a request the task still had.           *)
(***************************************************************************)
EXTENDS HostCommand, TLAPS

(***************************************************************************)
(* The inductive invariant.                                                *)
(***************************************************************************)
\* The task has a request that it has not answered.
Holding ==
  \/ pc \in {"process", "handler", "respond", "transmit", "dma_go"}
  \/ pc \in {"assign", "send"} /\ ~command_pending
Sent == {"respond", "transmit", "dma_go", "sending", "later", "startup"}
\* IN_PROGRESS was the answer to i, which is not finished.
Running(i) == serving.id = i /\ command_pending /\ pc \in Sent \union {"erase"}

\* The chipset hooks do not run while the task sends.
SendingOK == pc \in {"dma_go", "sending", "later", "startup"} => chipsetOn

\* command_pending says that IN_PROGRESS was sent and the result is to come.
PendingOK ==
  /\ pc \in Sent => (command_pending <=> ret = "erase")
  /\ pc = "erase" => command_pending
  /\ pc \in {"wait", "process", "handler"} => ~command_pending
  /\ pc = "send" => IF ret = "erase" THEN ~command_pending /\ args0.result = "IN_PROGRESS"
                                     ELSE ~command_pending => args0.result # "IN_PROGRESS"
  /\ pc = "respond" /\ args0.result = "IN_PROGRESS" => command_pending
  /\ pc \in {"transmit", "dma_go"} =>
       out_msg.to = serving.id /\ (out_msg.result = "IN_PROGRESS" => command_pending)
  /\ pc # "wait" /\ pc # "process" => serving.id \in Ids

\* The request that is pending or in the task is the one the host waits for.
RequestOK ==
  /\ event \/ Holding =>
       /\ wire.id # NoId /\ wire.kind \in {"quick", "slow", "resend"}
       /\ received = NoAnswer /\ tx = NoAnswer /\ ~(nss = "low" /\ edge)
  /\ event => args0.request = wire /\ ~Holding
  /\ pc = "process" => args0.request = wire
  /\ Holding /\ pc # "process" => serving = wire
  /\ pc = "dma_go" => state = "PROCESSING"

\* An answer that is clocked out or was read is that to the host's request;
\* one that was not read before the host ended the transaction is dropped as
\* soon as the task is through.
AnswerOK ==
  /\ nss = "low" => wire.id # NoId
  /\ received # NoAnswer => received.to = wire.id
  /\ chipsetOn /\ tx # NoAnswer => tx.to = wire.id /\ wire.id # NoId /\ received = NoAnswer
  /\ chipsetOn /\ tx # NoAnswer /\ nss = "high" /\ ~edge =>
       pc = "startup" \/ (pc \in {"sending", "later"} /\ setup_transaction_later)
  /\ nss = "low" /\ edge => received = NoAnswer /\ (chipsetOn => tx = NoAnswer)
  /\ state = "PROCESSING" /\ tx # NoAnswer => pc = "sending"
  /\ state = "READY_TO_RX" => tx = NoAnswer
  /\ nss = "high" /\ ~edge /\ state = "PROCESSING" => setup_transaction_later

\* A command the host waits for is finished or runs; IN_PROGRESS and not busy
\* are true until they are read.
ProgressOK ==
  /\ awaiting # NoId => finished[awaiting] # "IN_PROGRESS" \/ Running(awaiting)
  /\ tx.result = "IN_PROGRESS" =>
       tx.to \in Ids /\ (finished[tx.to] # "IN_PROGRESS" \/ Running(tx.to))
  /\ chipsetOn /\ tx # NoAnswer /\ wire.kind = "status" /\ tx.result = "SUCCESS" /\ ~tx.busy =>
       (awaiting # NoId => finished[awaiting] # "IN_PROGRESS")

\* With no overlap, a driver that is not ready has the task to make it so.
ReadyOK ==
  /\ state = "PROCESSING" => event \/ Holding \/ pc = "sending"
  /\ event => pc \in {"wait", "erase", "assign", "send"}
  /\ pc = "sending" => state = "PROCESSING"
  /\ pc \in {"sending", "later", "startup"} => ~(nss = "low" /\ edge)
  /\ nss = "high" /\ ~edge /\ enabled =>
       state \in {"READY_TO_RX", "PROCESSING"}
         \/ (state = "SENDING" /\ pc = "later" /\ setup_transaction_later)


GivenUp == "given_up" \in overlaps
IInv ==
  /\ TypeOK
  /\ event => pending_args
  /\ SendingOK
  /\ ~GivenUp => PendingOK /\ RequestOK /\ AnswerOK /\ ProgressOK
  /\ overlaps = {} => ReadyOK
  /\ DoneMeansDone

-----------------------------------------------------------------------------
\* The first state satisfies the inductive invariant.
LEMMA InitIInv == Init => IInv
<1> SUFFICES ASSUME Init PROVE IInv
  OBVIOUS
<1> USE MaxRequestsAssumption DEF Init, NoRequest, NoAnswer, NoId, Requests, Answers,
        Kinds, Results, SpiStates, Steps, Ids
<1>1. TypeOK
  BY DEF TypeOK, HostTypes, DriverTypes, TaskTypes
<1>2. PendingOK
  BY DEF PendingOK, Holding, Sent
<1>3. RequestOK
  BY DEF RequestOK, Holding
<1>4. AnswerOK
  BY DEF AnswerOK
<1>5. ProgressOK
  BY DEF ProgressOK
<1>6. ReadyOK
  BY DEF ReadyOK, Holding
<1> QED BY <1>1, <1>2, <1>3, <1>4, <1>5, <1>6 DEF IInv, SendingOK, DoneMeansDone

\* What requests and answers are made of.
LEMMA Values ==
  /\ NoAnswer \in Answers /\ \A r \in Requests : r.id \in Ids \union {NoId}
  /\ \A i \in Ids \union {NoId}, kind \in Kinds : [id |-> i, kind |-> kind] \in Requests
  /\ \A i \in Ids \union {NoId}, result \in Results, busy \in BOOLEAN :
       [to |-> i, result |-> result, busy |-> busy] \in Answers
  /\ {"SUCCESS", "ERROR", "IN_PROGRESS", "UNAVAILABLE", "INVALID_CHECKSUM"} \subseteq Results
  /\ \A w \in Requests : w.id < MaxRequests => w.id + 1 \in Ids
BY MaxRequestsAssumption DEF Answers, Requests, NoAnswer, NoId, Results, Ids

\* What the interrupt does with a request.
LEMMA Received ==
  ASSUME TypeOK, spi_event_request
  PROVE  /\ edge /\ ~edge' /\ enabled /\ nss = "low" /\ state = "READY_TO_RX"
         /\ UNCHANGED <<nss, host, status, task, chipsetOn, history, enabled, setup_transaction_later>>
         /\ \/ /\ wire.kind = "corrupt" /\ state' = "SENDING" /\ UNCHANGED wakeup
               /\ args0' = [args0 EXCEPT !.result = "INVALID_CHECKSUM", !.response_size = 0]
               /\ tx' = [to |-> wire.id, result |-> "INVALID_CHECKSUM", busy |-> FALSE] /\ out_msg' = tx'
            \/ /\ wire.kind = "status" /\ state' = "SENDING" /\ UNCHANGED wakeup
               /\ args0' = [request |-> wire, result |-> "SUCCESS", response_size |-> 1]
               /\ tx' = [to |-> wire.id, result |-> "SUCCESS", busy |-> command_pending] /\ out_msg' = tx'
            \/ /\ wire.kind \in {"quick", "slow", "resend"} /\ state' = "PROCESSING"
               /\ event' /\ pending_args'
               /\ args0' = [request |-> wire, result |-> "SUCCESS", response_size |-> 0]
               /\ UNCHANGED <<tx, out_msg>>
<1> USE DEF TypeOK, HostTypes, Requests, Kinds, spi_event_request, irq,
        host_packet_receive,
        host_command_received, respond_now
<1>1. /\ edge /\ ~edge' /\ enabled /\ nss = "low" /\ state = "READY_TO_RX"
      /\ UNCHANGED <<nss, host, status, task, chipsetOn, history, enabled, setup_transaction_later>>
  OBVIOUS
<1>2. CASE wire.kind = "corrupt"
  BY <1>1, <1>2
<1>3. CASE wire.kind = "status"
  BY <1>1, <1>3
<1>4. CASE wire.kind \notin {"corrupt", "status"}
  BY <1>1, <1>4
<1> QED BY <1>2, <1>3, <1>4

\* A step keeps the types.
LEMMA HostTypesStep ==
  ASSUME TypeOK, Next
  PROVE  HostTypes'
<1> USE Values DEF TypeOK, HostTypes, wires, host, spi, wakeup, status, task, history
<1>1. CASE host_assert
  BY <1>1 DEF host_assert, MaySend, GaveUp, Answering
<1>2. CASE host_receive
  <2>1. done' = (wire.kind = "status" /\ tx.result = "SUCCESS" /\ ~tx.busy)
    BY <1>2 DEF host_receive
  <2>2. done' \in BOOLEAN
    BY <2>1, Zenon
  <2>3. received' \in Answers /\ awaiting' \in Ids \union {NoId}
    BY <1>2 DEF host_receive, DriverTypes
  <2>4. UNCHANGED <<nss, edge, wire, chipsetOn, overlaps>>
    BY <1>2 DEF host_receive
  <2> QED BY <2>2, <2>3, <2>4
<1>3. CASE host_deassert
  BY <1>3 DEF host_deassert
<1>4. CASE host_forgets
  BY <1>4 DEF host_forgets
<1>5. CASE IrqNext
  BY <1>5 DEF IrqNext, spi_event_disabled, spi_event_end, spi_event_bad,
     spi_event_request,
     irq
<1>6. CASE HooksNext
  BY <1>6 DEF HooksNext, spi_chipset_startup, spi_chipset_shutdown
<1>7. CASE TaskNext
  BY <1>7 DEF TaskNext, host_command_task, host_command_process, handler_quick,
     host_command_get_comms_status, host_command_resend_response, flash_command_erase,
     erased, assign_result, save_result, send_response, host_packet_respond,
     spi_send_response_packet, dma_go, set_sending, check_setup_transaction_later,
     spi_init_completes, At
<1> QED
  BY <1>1, <1>2, <1>3, <1>4, <1>5, <1>6, <1>7 DEF Next, HostNext

\* Every step keeps the types of the driver.
LEMMA DriverTypesStep ==
  ASSUME TypeOK, Next
  PROVE  DriverTypes'
<1> USE Values DEF TypeOK, HostTypes, DriverTypes, TaskTypes, SpiStates, wires, host, spi,
        wakeup, status, task, history
<1>1. CASE HostNext
  BY <1>1 DEF HostNext, host_assert, host_receive, host_deassert, host_forgets
<1>2. CASE spi_event_disabled
  BY <1>2 DEF spi_event_disabled, irq
<1>3. CASE spi_event_end
  BY <1>3 DEF spi_event_end, irq, spi_init, spi_startup
<1>4. CASE spi_event_bad
  BY <1>4 DEF spi_event_bad, irq
<1>5. CASE spi_event_request
  <2>1. CASE wire.kind = "corrupt"
    <3>1. args0' = [args0 EXCEPT !.result = "INVALID_CHECKSUM", !.response_size = 0]
      BY <1>5, <2>1, Received
    <3>2. tx' = [to |-> wire.id, result |-> "INVALID_CHECKSUM", busy |-> FALSE] /\ out_msg' = tx'
      BY <1>5, <2>1, Received
    <3>3. state' = "SENDING" /\ UNCHANGED <<enabled, setup_transaction_later>>
      BY <1>5, <2>1, Received
    <3>4. args0' \in [request : Requests, result : Results, response_size : {0, 1}]
      BY <3>1
    <3>5. tx' \in Answers /\ out_msg' \in Answers
      BY <3>2
    <3> QED BY <3>3, <3>4, <3>5
  <2>2. CASE wire.kind = "status"
    BY <1>5, <2>2, Received
  <2>3. CASE wire.kind \notin {"corrupt", "status"}
    BY <1>5, <2>3, Received
  <2> QED BY <2>1, <2>2, <2>3
<1>6. CASE spi_chipset_startup
  BY <1>6 DEF spi_chipset_startup, TaskSleeps, spi_startup
<1>7. CASE spi_chipset_shutdown
  BY <1>7 DEF spi_chipset_shutdown, TaskSleeps, Disabled
<1>8. CASE host_command_task
  BY <1>8 DEF host_command_task, At
<1>9. CASE host_command_process
  BY <1>9 DEF host_command_process, At
<1>10. CASE handler_quick
  BY <1>10 DEF handler_quick, At, handler_returns
<1>11. CASE host_command_get_comms_status
  BY <1>11 DEF host_command_get_comms_status, At, handler_returns
<1>12. CASE host_command_resend_response
  BY <1>12 DEF host_command_resend_response, At, handler_returns
<1>13. CASE flash_command_erase
  BY <1>13 DEF flash_command_erase, At
<1>14. CASE erased
  BY <1>14 DEF erased, At
<1>15. CASE assign_result
  BY <1>15 DEF assign_result, At
<1>16. CASE save_result
  BY <1>16 DEF save_result, At
<1>17. CASE send_response
  BY <1>17 DEF send_response, At
<1>18. CASE host_packet_respond
  BY <1>18 DEF host_packet_respond, At
<1>19. CASE spi_send_response_packet
  BY <1>19 DEF spi_send_response_packet, At
<1>20. CASE dma_go
  BY <1>20 DEF dma_go, At
<1>21. CASE set_sending
  BY <1>21 DEF set_sending, At
<1>22. CASE check_setup_transaction_later
  BY <1>22 DEF check_setup_transaction_later, At, Disabled
<1>23. CASE spi_init_completes
  BY <1>23 DEF spi_init_completes, At, spi_startup
<1> QED
  BY <1>1, <1>2, <1>3, <1>4, <1>5, <1>6, <1>7, <1>8, <1>9, <1>10, <1>11, <1>12, <1>13,
     <1>14, <1>15, <1>16, <1>17, <1>18, <1>19, <1>20, <1>21, <1>22, <1>23 DEF Next,
     IrqNext, HooksNext, TaskNext

\* Every step keeps the types of the task.
LEMMA TaskTypesStep ==
  ASSUME TypeOK, Next
  PROVE  TaskTypes'
<1> USE Values DEF TypeOK, HostTypes, DriverTypes, TaskTypes, Steps, wires, host, spi,
        wakeup, status, task, history
<1>1. CASE HostNext
  BY <1>1 DEF HostNext, host_assert, host_receive, host_deassert, host_forgets
<1>2. CASE spi_event_disabled
  BY <1>2 DEF spi_event_disabled, irq
<1>3. CASE spi_event_end
  BY <1>3 DEF spi_event_end, irq, spi_init, spi_startup
<1>4. CASE spi_event_bad
  BY <1>4 DEF spi_event_bad, irq
<1>5. CASE spi_event_request
  BY <1>5 DEF spi_event_request, irq, host_packet_receive, host_command_received,
     respond_now
<1>6. CASE HooksNext
  BY <1>6 DEF HooksNext, spi_chipset_startup, spi_chipset_shutdown
<1>7. CASE host_command_task
  BY <1>7 DEF host_command_task, At
<1>8. CASE host_command_process
  BY <1>8 DEF host_command_process, At
<1>9. CASE handler_quick
  BY <1>9 DEF handler_quick, At, handler_returns
<1>10. CASE host_command_get_comms_status
  BY <1>10 DEF host_command_get_comms_status, At, handler_returns
<1>11. CASE host_command_resend_response
  BY <1>11 DEF host_command_resend_response, At, handler_returns
<1>12. CASE flash_command_erase
  BY <1>12 DEF flash_command_erase, At
<1>13. CASE erased
  BY <1>13 DEF erased, At
<1>14. CASE assign_result
  BY <1>14 DEF assign_result, At
<1>15. CASE save_result
  BY <1>15 DEF save_result, At
<1>16. CASE send_response
  BY <1>16 DEF send_response, At
<1>17. CASE host_packet_respond
  BY <1>17 DEF host_packet_respond, At
<1>18. CASE spi_send_response_packet
  BY <1>18 DEF spi_send_response_packet, At
<1>19. CASE dma_go
  BY <1>19 DEF dma_go, At
<1>20. CASE set_sending
  BY <1>20 DEF set_sending, At
<1>21. CASE check_setup_transaction_later
  BY <1>21 DEF check_setup_transaction_later, At, Disabled
<1>22. CASE spi_init_completes
  BY <1>22 DEF spi_init_completes, At, spi_startup
<1> QED
  BY <1>1, <1>2, <1>3, <1>4, <1>5, <1>6, <1>7, <1>8, <1>9, <1>10, <1>11, <1>12, <1>13,
     <1>14, <1>15, <1>16, <1>17, <1>18, <1>19, <1>20, <1>21, <1>22 DEF Next, IrqNext,
     TaskNext

\* The driver is off while the chipset is, and while the task restarts it.
LEMMA EnabledStep ==
  ASSUME TypeOK, SendingOK, Next
  PROVE  /\ (enabled <=> chipsetOn /\ pc # "startup")'
         /\ (state = "DISABLED" <=> ~enabled)'
         /\ SendingOK'
<1> USE DEF SendingOK, TypeOK, HostTypes, DriverTypes, TaskTypes, wires, host, spi,
        wakeup, status, task, history
<1>1. CASE HostNext
  BY <1>1 DEF HostNext, host_assert, host_receive, host_deassert, host_forgets
<1>2. CASE spi_event_disabled
  BY <1>2 DEF spi_event_disabled, irq
<1>3. CASE spi_event_end
  <2> USE <1>3 DEF spi_event_end, irq, spi_init, spi_startup
  <2>1. enabled' <=> chipsetOn' /\ pc' # "startup"
    OBVIOUS
  <2>2. state' = "DISABLED" <=> ~enabled'
    OBVIOUS
  <2>3. SendingOK'
    OBVIOUS
  <2> QED BY <2>1, <2>2, <2>3
<1>4. CASE spi_event_bad
  BY <1>4 DEF spi_event_bad, irq
<1>5. CASE spi_event_request
  BY <1>5 DEF spi_event_request, irq, host_packet_receive, host_command_received,
     respond_now
<1>6. CASE spi_chipset_startup
  BY <1>6 DEF spi_chipset_startup, TaskSleeps, spi_startup
<1>7. CASE spi_chipset_shutdown
  BY <1>7 DEF spi_chipset_shutdown, TaskSleeps, Disabled
<1>8. CASE host_command_task
  BY <1>8 DEF host_command_task, At
<1>9. CASE host_command_process
  BY <1>9 DEF host_command_process, At
<1>10. CASE handler_quick
  BY <1>10 DEF handler_quick, At, handler_returns
<1>11. CASE host_command_get_comms_status
  BY <1>11 DEF host_command_get_comms_status, At, handler_returns
<1>12. CASE host_command_resend_response
  BY <1>12 DEF host_command_resend_response, At, handler_returns
<1>13. CASE flash_command_erase
  BY <1>13 DEF flash_command_erase, At
<1>14. CASE erased
  BY <1>14 DEF erased, At
<1>15. CASE assign_result
  BY <1>15 DEF assign_result, At
<1>16. CASE save_result
  <2> USE <1>16 DEF save_result, At
  <2>1. enabled' <=> chipsetOn' /\ pc' # "startup"
    OBVIOUS
  <2>2. state' = "DISABLED" <=> ~enabled'
    OBVIOUS
  <2>3. SendingOK'
    OBVIOUS
  <2> QED BY <2>1, <2>2, <2>3
<1>17. CASE send_response
  BY <1>17 DEF send_response, At
<1>18. CASE host_packet_respond
  BY <1>18 DEF host_packet_respond, At
<1>19. CASE spi_send_response_packet
  <2> USE <1>19 DEF spi_send_response_packet, At
  <2>1. enabled' <=> chipsetOn' /\ pc' # "startup"
    OBVIOUS
  <2>2. state' = "DISABLED" <=> ~enabled'
    OBVIOUS
  <2>3. SendingOK'
    OBVIOUS
  <2> QED BY <2>1, <2>2, <2>3
<1>20. CASE dma_go
  BY <1>20 DEF dma_go, At
<1>21. CASE set_sending
  <2> USE <1>21 DEF set_sending, At
  <2>1. enabled' <=> chipsetOn' /\ pc' # "startup"
    OBVIOUS
  <2>2. state' = "DISABLED" <=> ~enabled'
    OBVIOUS
  <2>3. SendingOK'
    OBVIOUS
  <2> QED BY <2>1, <2>2, <2>3
<1>22. CASE check_setup_transaction_later
  <2> USE <1>22 DEF check_setup_transaction_later, At, Disabled
  <2>1. enabled' <=> chipsetOn' /\ pc' # "startup"
    <3>1. CASE setup_transaction_later
      BY <3>1
    <3>2. CASE ~setup_transaction_later
      <4>1. enabled' = enabled /\ chipsetOn' = chipsetOn /\ pc' # "startup"
        BY <3>2
      <4>2. enabled <=> chipsetOn
        OBVIOUS
      <4> QED BY <4>1, <4>2
    <3> QED BY <3>1, <3>2
  <2>2. state' = "DISABLED" <=> ~enabled'
    OBVIOUS
  <2>3. SendingOK'
    OBVIOUS
  <2> QED BY <2>1, <2>2, <2>3
<1>23. CASE spi_init_completes
  <2> USE <1>23 DEF spi_init_completes, At, spi_startup
  <2>1. enabled' <=> chipsetOn' /\ pc' # "startup"
    OBVIOUS
  <2>2. state' = "DISABLED" <=> ~enabled'
    OBVIOUS
  <2>3. SendingOK'
    OBVIOUS
  <2> QED BY <2>1, <2>2, <2>3
<1> QED
  BY <1>1, <1>2, <1>3, <1>4, <1>5, <1>6, <1>7, <1>8, <1>9, <1>10, <1>11, <1>12, <1>13,
     <1>14, <1>15, <1>16, <1>17, <1>18, <1>19, <1>20, <1>21, <1>22, <1>23 DEF Next,
     IrqNext, HooksNext, TaskNext

\* Together.
LEMMA TypesStep == TypeOK /\ SendingOK /\ Next => TypeOK' /\ SendingOK'
BY HostTypesStep, DriverTypesStep, TaskTypesStep, EnabledStep DEF TypeOK

\* A step keeps what is said of the command in progress.
LEMMA PendingStep ==
  ASSUME TypeOK, TypeOK', PendingOK, RequestOK, event => pending_args, ~GivenUp',
         ~GivenUp, Next
  PROVE  PendingOK'
<1> USE MaxRequestsAssumption DEF TypeOK, HostTypes, DriverTypes, TaskTypes, PendingOK,
        RequestOK, Holding, Sent, GivenUp, NoId, NoAnswer, Ids,
        wires, host, spi, wakeup, status, task, history
<1>1. CASE host_assert
  BY <1>1 DEF host_assert, MaySend, GaveUp, Answering
<1>2. CASE host_receive
  BY <1>2 DEF host_receive
<1>3. CASE host_deassert
  BY <1>3 DEF host_deassert
<1>4. CASE host_forgets
  BY <1>4 DEF host_forgets
<1>5. CASE spi_event_disabled
  BY <1>5 DEF spi_event_disabled, irq
<1>6. CASE spi_event_end
  BY <1>6 DEF spi_event_end, irq, spi_init, spi_startup
<1>7. CASE spi_event_bad
  BY <1>7 DEF spi_event_bad, irq
<1>8. CASE spi_event_request
  BY <1>8, Received
<1>9. CASE spi_chipset_startup
  BY <1>9 DEF spi_chipset_startup, TaskSleeps, spi_startup
<1>10. CASE spi_chipset_shutdown
  BY <1>10 DEF spi_chipset_shutdown, TaskSleeps, Disabled
<1>11. CASE host_command_task
  BY <1>11 DEF host_command_task, At
<1>12. CASE host_command_process
  BY <1>12, Values DEF host_command_process, At
<1>13. CASE handler_quick
  BY <1>13 DEF handler_quick, At, handler_returns
<1>14. CASE host_command_get_comms_status
  BY <1>14 DEF host_command_get_comms_status, At, handler_returns
<1>15. CASE host_command_resend_response
  BY <1>15 DEF host_command_resend_response, At, handler_returns
<1>16. CASE flash_command_erase
  BY <1>16 DEF flash_command_erase, At
<1>17. CASE erased
  BY <1>17 DEF erased, At
<1>18. CASE assign_result
  BY <1>18 DEF assign_result, At
<1>19. CASE save_result
  BY <1>19 DEF save_result, At
<1>20. CASE send_response
  BY <1>20 DEF send_response, At
<1>21. CASE host_packet_respond
  BY <1>21 DEF host_packet_respond, At
<1>22. CASE spi_send_response_packet
  BY <1>22 DEF spi_send_response_packet, At
<1>23. CASE dma_go
  BY <1>23 DEF dma_go, At
<1>24. CASE set_sending
  BY <1>24 DEF set_sending, At
<1>25. CASE check_setup_transaction_later
  BY <1>25 DEF check_setup_transaction_later, At, Disabled
<1>26. CASE spi_init_completes
  BY <1>26 DEF spi_init_completes, At, spi_startup
<1> QED
  BY <1>1, <1>2, <1>3, <1>4, <1>5, <1>6, <1>7, <1>8, <1>9, <1>10, <1>11, <1>12, <1>13,
     <1>14, <1>15, <1>16, <1>17, <1>18, <1>19, <1>20, <1>21, <1>22, <1>23, <1>24, <1>25,
     <1>26 DEF Next, HostNext, IrqNext, HooksNext, TaskNext

\* A step keeps what is said of the request that the task has.
LEMMA RequestStep ==
  ASSUME TypeOK, TypeOK', PendingOK, RequestOK, AnswerOK, event => pending_args,
         ~GivenUp', ~GivenUp, Next
  PROVE  RequestOK'
<1> USE MaxRequestsAssumption DEF TypeOK, HostTypes, DriverTypes, TaskTypes, PendingOK,
        RequestOK, AnswerOK, Holding, Sent, GivenUp, NoId, NoAnswer, Ids,
        wires, host, spi, wakeup, status, task, history
<1>1. CASE host_assert
  BY <1>1 DEF host_assert, MaySend, GaveUp, Answering
<1>2. CASE host_receive
  BY <1>2 DEF host_receive
<1>3. CASE host_deassert
  BY <1>3 DEF host_deassert
<1>4. CASE host_forgets
  BY <1>4 DEF host_forgets
<1>5. CASE spi_event_disabled
  BY <1>5 DEF spi_event_disabled, irq
<1>6. CASE spi_event_end
  BY <1>6 DEF spi_event_end, irq, spi_init, spi_startup
<1>7. CASE spi_event_bad
  BY <1>7 DEF spi_event_bad, irq
<1>8. CASE spi_event_request
  <2>1. CASE wire.kind = "corrupt"
    BY <1>8, <2>1, Received
  <2>2. CASE wire.kind = "status"
    BY <1>8, <2>2, Received
  <2>3. CASE wire.kind \notin {"corrupt", "status"}
    BY <1>8, <2>3, Received
  <2> QED BY <2>1, <2>2, <2>3
<1>9. CASE spi_chipset_startup
  BY <1>9 DEF spi_chipset_startup, TaskSleeps, spi_startup
<1>10. CASE spi_chipset_shutdown
  BY <1>10 DEF spi_chipset_shutdown, TaskSleeps, Disabled
<1>11. CASE host_command_task
  BY <1>11 DEF host_command_task, At
<1>12. CASE host_command_process
  BY <1>12, Values DEF host_command_process, At
<1>13. CASE handler_quick
  BY <1>13 DEF handler_quick, At, handler_returns
<1>14. CASE host_command_get_comms_status
  BY <1>14 DEF host_command_get_comms_status, At, handler_returns
<1>15. CASE host_command_resend_response
  BY <1>15 DEF host_command_resend_response, At, handler_returns
<1>16. CASE flash_command_erase
  BY <1>16 DEF flash_command_erase, At
<1>17. CASE erased
  BY <1>17 DEF erased, At
<1>18. CASE assign_result
  BY <1>18 DEF assign_result, At
<1>19. CASE save_result
  BY <1>19 DEF save_result, At
<1>20. CASE send_response
  BY <1>20 DEF send_response, At
<1>21. CASE host_packet_respond
  BY <1>21 DEF host_packet_respond, At
<1>22. CASE spi_send_response_packet
  BY <1>22 DEF spi_send_response_packet, At
<1>23. CASE dma_go
  BY <1>23 DEF dma_go, At
<1>24. CASE set_sending
  BY <1>24 DEF set_sending, At
<1>25. CASE check_setup_transaction_later
  BY <1>25 DEF check_setup_transaction_later, At, Disabled
<1>26. CASE spi_init_completes
  BY <1>26 DEF spi_init_completes, At, spi_startup
<1> QED
  BY <1>1, <1>2, <1>3, <1>4, <1>5, <1>6, <1>7, <1>8, <1>9, <1>10, <1>11, <1>12, <1>13,
     <1>14, <1>15, <1>16, <1>17, <1>18, <1>19, <1>20, <1>21, <1>22, <1>23, <1>24, <1>25,
     <1>26 DEF Next, HostNext, IrqNext, HooksNext, TaskNext

\* A step keeps what is said of the answer.
LEMMA AnswerStep ==
  ASSUME TypeOK, TypeOK', PendingOK, RequestOK, AnswerOK, event => pending_args,
         ~GivenUp', ~GivenUp, Next
  PROVE  AnswerOK'
<1> USE MaxRequestsAssumption DEF TypeOK, HostTypes, DriverTypes, TaskTypes, PendingOK,
        RequestOK, AnswerOK, Holding, Sent, GivenUp, NoId, NoAnswer, Ids,
        wires, host, spi, wakeup, status, task, history
<1>1. CASE host_assert
  <2>1. wire'.id # NoId /\ nss' = "low" /\ edge' /\ received' = NoAnswer
    <3>1. wire.id \in Nat /\ wire'.id = wire.id + 1
      BY <1>1 DEF host_assert, Requests
    <3> QED BY <1>1, <3>1 DEF host_assert
  <2>2. chipsetOn /\ tx # NoAnswer => Answering /\ GaveUp
    BY <1>1 DEF host_assert, GaveUp, Answering
  <2>3. ~(chipsetOn /\ tx # NoAnswer)
    BY <1>1, <2>2 DEF host_assert
  <2> QED BY <1>1, <2>1, <2>3 DEF host_assert
<1>2. CASE host_receive
  BY <1>2 DEF host_receive
<1>3. CASE host_deassert
  BY <1>3 DEF host_deassert
<1>4. CASE host_forgets
  BY <1>4 DEF host_forgets
<1>5. CASE spi_event_disabled
  BY <1>5 DEF spi_event_disabled, irq
<1>6. CASE spi_event_end
  BY <1>6 DEF spi_event_end, irq, spi_init, spi_startup
<1>7. CASE spi_event_bad
  BY <1>7 DEF spi_event_bad, irq
<1>8. CASE spi_event_request
  <2>1. CASE wire.kind = "corrupt"
    BY <1>8, <2>1, Received
  <2>2. CASE wire.kind = "status"
    BY <1>8, <2>2, Received
  <2>3. CASE wire.kind \notin {"corrupt", "status"}
    BY <1>8, <2>3, Received
  <2> QED BY <2>1, <2>2, <2>3
<1>9. CASE spi_chipset_startup
  BY <1>9 DEF spi_chipset_startup, TaskSleeps, spi_startup
<1>10. CASE spi_chipset_shutdown
  BY <1>10 DEF spi_chipset_shutdown, TaskSleeps, Disabled
<1>11. CASE host_command_task
  BY <1>11 DEF host_command_task, At
<1>12. CASE host_command_process
  BY <1>12, Values DEF host_command_process, At
<1>13. CASE handler_quick
  BY <1>13 DEF handler_quick, At, handler_returns
<1>14. CASE host_command_get_comms_status
  BY <1>14 DEF host_command_get_comms_status, At, handler_returns
<1>15. CASE host_command_resend_response
  BY <1>15 DEF host_command_resend_response, At, handler_returns
<1>16. CASE flash_command_erase
  BY <1>16 DEF flash_command_erase, At
<1>17. CASE erased
  BY <1>17 DEF erased, At
<1>18. CASE assign_result
  BY <1>18 DEF assign_result, At
<1>19. CASE save_result
  BY <1>19 DEF save_result, At
<1>20. CASE send_response
  BY <1>20 DEF send_response, At
<1>21. CASE host_packet_respond
  BY <1>21 DEF host_packet_respond, At
<1>22. CASE spi_send_response_packet
  BY <1>22 DEF spi_send_response_packet, At
<1>23. CASE dma_go
  BY <1>23 DEF dma_go, At
<1>24. CASE set_sending
  BY <1>24 DEF set_sending, At
<1>25. CASE check_setup_transaction_later
  BY <1>25 DEF check_setup_transaction_later, At, Disabled
<1>26. CASE spi_init_completes
  BY <1>26 DEF spi_init_completes, At, spi_startup
<1> QED
  BY <1>1, <1>2, <1>3, <1>4, <1>5, <1>6, <1>7, <1>8, <1>9, <1>10, <1>11, <1>12, <1>13,
     <1>14, <1>15, <1>16, <1>17, <1>18, <1>19, <1>20, <1>21, <1>22, <1>23, <1>24, <1>25,
     <1>26 DEF Next, HostNext, IrqNext, HooksNext, TaskNext

\* A step keeps what is said of the progress the host is told.
LEMMA ProgressStep ==
  ASSUME TypeOK, TypeOK', PendingOK, RequestOK, AnswerOK, ProgressOK,
         event => pending_args, ~GivenUp', ~GivenUp, Next
  PROVE  ProgressOK'
<1> USE MaxRequestsAssumption DEF TypeOK, HostTypes, DriverTypes, TaskTypes, PendingOK,
        RequestOK, AnswerOK, ProgressOK, Running, Holding, Sent, GivenUp, NoId, NoAnswer,
        Ids,
        wires, host, spi, wakeup, status, task, history
<1>1. CASE host_assert
  BY <1>1 DEF host_assert, MaySend, GaveUp, Answering
<1>2. CASE host_receive
  BY <1>2 DEF host_receive
<1>3. CASE host_deassert
  BY <1>3 DEF host_deassert
<1>4. CASE host_forgets
  BY <1>4 DEF host_forgets
<1>5. CASE spi_event_disabled
  BY <1>5 DEF spi_event_disabled, irq
<1>6. CASE spi_event_end
  <2>1. UNCHANGED tx \/ tx' = NoAnswer
    BY <1>6 DEF spi_event_end, spi_init, spi_startup
  <2> QED BY <1>6, <2>1 DEF spi_event_end, irq
<1>7. CASE spi_event_bad
  BY <1>7 DEF spi_event_bad, irq
<1>8. CASE spi_event_request
  BY <1>8, Received
<1>9. CASE spi_chipset_startup
  BY <1>9 DEF spi_chipset_startup, TaskSleeps, spi_startup
<1>10. CASE spi_chipset_shutdown
  BY <1>10 DEF spi_chipset_shutdown, TaskSleeps, Disabled
<1>11. CASE host_command_task
  BY <1>11 DEF host_command_task, At
<1>12. CASE host_command_process
  BY <1>12, Values DEF host_command_process, At
<1>13. CASE handler_quick
  BY <1>13 DEF handler_quick, At, handler_returns
<1>14. CASE host_command_get_comms_status
  BY <1>14 DEF host_command_get_comms_status, At, handler_returns
<1>15. CASE host_command_resend_response
  BY <1>15 DEF host_command_resend_response, At, handler_returns
<1>16. CASE flash_command_erase
  BY <1>16 DEF flash_command_erase, At
<1>17. CASE erased
  BY <1>17 DEF erased, At
<1>18. CASE assign_result
  BY <1>18 DEF assign_result, At
<1>19. CASE save_result
  BY <1>19 DEF save_result, At
<1>20. CASE send_response
  BY <1>20 DEF send_response, At
<1>21. CASE host_packet_respond
  BY <1>21 DEF host_packet_respond, At
<1>22. CASE spi_send_response_packet
  BY <1>22 DEF spi_send_response_packet, At
<1>23. CASE dma_go
  BY <1>23 DEF dma_go, At
<1>24. CASE set_sending
  BY <1>24 DEF set_sending, At
<1>25. CASE check_setup_transaction_later
  BY <1>25 DEF check_setup_transaction_later, At, Disabled
<1>26. CASE spi_init_completes
  BY <1>26 DEF spi_init_completes, At, spi_startup
<1> QED
  BY <1>1, <1>2, <1>3, <1>4, <1>5, <1>6, <1>7, <1>8, <1>9, <1>10, <1>11, <1>12, <1>13,
     <1>14, <1>15, <1>16, <1>17, <1>18, <1>19, <1>20, <1>21, <1>22, <1>23, <1>24, <1>25,
     <1>26 DEF Next, HostNext, IrqNext, HooksNext, TaskNext

\* A step keeps what is said of a driver that nothing overlaps.
LEMMA ReadyStep ==
  ASSUME TypeOK, TypeOK', PendingOK, RequestOK, AnswerOK, ReadyOK, event => pending_args,
         overlaps' = {}, overlaps = {}, Next
  PROVE  ReadyOK'
<1> USE MaxRequestsAssumption DEF TypeOK, HostTypes, DriverTypes, TaskTypes, PendingOK,
        RequestOK, AnswerOK, ReadyOK, Holding, Sent, GivenUp, NoId, NoAnswer, Ids,
        wires, host, spi, wakeup, status, task, history
<1>1. CASE host_assert
  BY <1>1 DEF host_assert, MaySend, GaveUp, Answering
<1>2. CASE host_receive
  BY <1>2 DEF host_receive
<1>3. CASE host_deassert
  BY <1>3 DEF host_deassert
<1>4. CASE host_forgets
  BY <1>4 DEF host_forgets
<1>5. CASE spi_event_disabled
  BY <1>5 DEF spi_event_disabled, irq
<1>6. CASE spi_event_end
  BY <1>6 DEF spi_event_end, irq, spi_init, spi_startup
<1>7. CASE spi_event_bad
  BY <1>7 DEF spi_event_bad, irq
<1>8. CASE spi_event_request
  <2>1. CASE wire.kind = "corrupt"
    BY <1>8, <2>1, Received
  <2>2. CASE wire.kind = "status"
    BY <1>8, <2>2, Received
  <2>3. CASE wire.kind \notin {"corrupt", "status"}
    BY <1>8, <2>3, Received DEF Steps
  <2> QED BY <2>1, <2>2, <2>3
<1>9. CASE spi_chipset_startup
  BY <1>9 DEF spi_chipset_startup, TaskSleeps, spi_startup
<1>10. CASE spi_chipset_shutdown
  BY <1>10 DEF spi_chipset_shutdown, TaskSleeps, Disabled
<1>11. CASE host_command_task
  BY <1>11 DEF host_command_task, At
<1>12. CASE host_command_process
  BY <1>12, Values DEF host_command_process, At
<1>13. CASE handler_quick
  BY <1>13 DEF handler_quick, At, handler_returns
<1>14. CASE host_command_get_comms_status
  BY <1>14 DEF host_command_get_comms_status, At, handler_returns
<1>15. CASE host_command_resend_response
  BY <1>15 DEF host_command_resend_response, At, handler_returns
<1>16. CASE flash_command_erase
  BY <1>16 DEF flash_command_erase, At
<1>17. CASE erased
  BY <1>17 DEF erased, At
<1>18. CASE assign_result
  BY <1>18 DEF assign_result, At
<1>19. CASE save_result
  BY <1>19 DEF save_result, At
<1>20. CASE send_response
  BY <1>20 DEF send_response, At
<1>21. CASE host_packet_respond
  BY <1>21 DEF host_packet_respond, At
<1>22. CASE spi_send_response_packet
  BY <1>22 DEF spi_send_response_packet, At
<1>23. CASE dma_go
  BY <1>23 DEF dma_go, At
<1>24. CASE set_sending
  BY <1>24 DEF set_sending, At
<1>25. CASE check_setup_transaction_later
  BY <1>25 DEF check_setup_transaction_later, At, Disabled
<1>26. CASE spi_init_completes
  BY <1>26 DEF spi_init_completes, At, spi_startup
<1> QED
  BY <1>1, <1>2, <1>3, <1>4, <1>5, <1>6, <1>7, <1>8, <1>9, <1>10, <1>11, <1>12, <1>13,
     <1>14, <1>15, <1>16, <1>17, <1>18, <1>19, <1>20, <1>21, <1>22, <1>23, <1>24, <1>25,
     <1>26 DEF Next, HostNext, IrqNext, HooksNext, TaskNext

\* A step keeps what the host is told.
LEMMA DoneStep ==
  ASSUME TypeOK, ~GivenUp' => ~GivenUp /\ AnswerOK /\ ProgressOK, DoneMeansDone, Next
  PROVE  DoneMeansDone'
<1> SUFFICES ASSUME ~GivenUp', awaiting' # NoId, done' PROVE finished'[awaiting'] # "IN_PROGRESS"
  BY DEF DoneMeansDone, GivenUp
<1> USE DEF TypeOK, HostTypes, TaskTypes, wires, host, spi, wakeup, status, task, history
<1>1. CASE host_receive
  <2>1. awaiting' = awaiting /\ finished' = finished
    BY <1>1 DEF host_receive
  <2>2. wire.kind = "status" /\ tx.result = "SUCCESS" /\ ~tx.busy /\ chipsetOn /\ tx # NoAnswer
    BY <1>1 DEF host_receive
  <2> QED BY <2>1, <2>2 DEF ProgressOK
<1>2. CASE UNCHANGED <<awaiting, done>>
  <2>1. finished[awaiting] # "IN_PROGRESS" /\ awaiting \in Ids
    BY <1>2 DEF DoneMeansDone, GivenUp
  <2>2. CASE erased
    BY <1>2, <2>1, <2>2 DEF erased
  <2>3. CASE UNCHANGED finished
    BY <1>2, <2>1, <2>3
  <2>4. Next => erased \/ UNCHANGED finished
    BY DEF Next, HostNext, IrqNext, HooksNext, TaskNext, host_assert, host_receive,
       host_deassert,
       host_forgets, irq, spi_event_disabled, spi_event_end, spi_event_bad, spi_event_request,
       spi_chipset_startup, spi_chipset_shutdown, host_command_task, host_command_process,
       handler_quick, host_command_get_comms_status, host_command_resend_response,
       flash_command_erase, assign_result, save_result, send_response, host_packet_respond,
       spi_send_response_packet, dma_go, set_sending, check_setup_transaction_later,
       spi_init_completes
  <2> QED BY <2>2, <2>3, <2>4
<1>3. CASE host_forgets
  BY <1>3 DEF host_forgets
<1>4. HostNext => host_receive \/ host_forgets \/ UNCHANGED <<awaiting, done>>
  BY DEF HostNext, host_assert, host_deassert
<1>5. IrqNext \/ HooksNext => UNCHANGED <<awaiting, done>>
  BY DEF IrqNext, HooksNext, irq, spi_event_disabled, spi_event_end, spi_event_bad,
     spi_event_request, spi_chipset_startup, spi_chipset_shutdown
<1>6. TaskNext => UNCHANGED <<awaiting, done>>
  BY DEF TaskNext, At, host_command_task, host_command_process, handler_quick,
     host_command_get_comms_status, host_command_resend_response, flash_command_erase, erased,
     assign_result, save_result, send_response, host_packet_respond, spi_send_response_packet,
     dma_go, set_sending, check_setup_transaction_later, spi_init_completes
<1> QED BY <1>1, <1>2, <1>3, <1>4, <1>5, <1>6 DEF Next

\* An overlap is not forgotten, and pending_args is set before the event.
LEMMA HistoryStep ==
  ASSUME TypeOK, Next, event => pending_args
  PROVE  /\ overlaps \subseteq overlaps'
         /\ event' => pending_args'
<1> USE DEF history, wakeup
<1>1. CASE HostNext
  BY <1>1 DEF HostNext, host_assert, host_receive, host_deassert, host_forgets
<1>2. CASE spi_event_request
  BY <1>2, Received
<1>3. CASE IrqNext /\ ~spi_event_request
  BY <1>3 DEF IrqNext, irq, spi_event_disabled, spi_event_end, spi_event_bad
<1>4. CASE HooksNext
  BY <1>4 DEF HooksNext, spi_chipset_startup, spi_chipset_shutdown
<1>5. CASE TaskNext
  BY <1>5 DEF TaskNext, At, host_command_task, host_command_process, handler_quick,
     host_command_get_comms_status, host_command_resend_response, flash_command_erase, erased,
     assign_result, save_result, send_response, host_packet_respond, spi_send_response_packet,
     dma_go, set_sending, check_setup_transaction_later, spi_init_completes
<1> QED BY <1>1, <1>2, <1>3, <1>4, <1>5 DEF Next

-----------------------------------------------------------------------------
\* The invariant is inductive.
LEMMA NextIInv == IInv /\ [Next]_vars => IInv'
<1> SUFFICES ASSUME IInv, [Next]_vars PROVE IInv'
  OBVIOUS
<1>1. CASE Next
  <2>1. TypeOK' /\ SendingOK'
    BY <1>1, TypesStep DEF IInv
  <2>2. overlaps \subseteq overlaps' /\ (event' => pending_args')
    BY <1>1, HistoryStep DEF IInv
  <2>3. ~GivenUp' => PendingOK' /\ RequestOK' /\ AnswerOK' /\ ProgressOK'
    BY <1>1, <2>1, <2>2, PendingStep, RequestStep, AnswerStep, ProgressStep DEF IInv,
       GivenUp
  <2>4. overlaps' = {} => ReadyOK'
    BY <1>1, <2>1, <2>2, ReadyStep DEF IInv, GivenUp
  <2>5. DoneMeansDone'
    BY <1>1, <2>2, DoneStep DEF IInv, GivenUp
  <2> QED BY <2>1, <2>2, <2>3, <2>4, <2>5 DEF IInv
<1>2. CASE UNCHANGED vars
  BY <1>2 DEF vars, wires, host, spi, wakeup, status, task, history, IInv, GivenUp,
     TypeOK, HostTypes,
     DriverTypes, TaskTypes, SendingOK, PendingOK, RequestOK, AnswerOK, ProgressOK, ReadyOK,
     DoneMeansDone, Holding, Sent, Running
<1> QED BY <1>1, <1>2

\* Every state the code reaches satisfies the inductive invariant.
THEOREM Invariance == Spec => []IInv
<1> QED BY InitIInv, NextIInv, PTL DEF Spec

\* The driver listens to NSS exactly while the chipset is on, but for the
\* restart in the task (spi_chipset_startup, spi_init).
THEOREM TypeCorrect == Spec => []TypeOK
<1>1. IInv => TypeOK
  BY DEF IInv
<1> QED BY <1>1, Invariance, PTL

\* The host reads the answers to its own requests (spi_event, args0).
THEOREM AnswersAreOwn == Spec => []AnswerToOwnRequest
<1>1. IInv => AnswerToOwnRequest
  BY DEF IInv, GivenUp, AnswerOK, AnswerToOwnRequest
<1> QED BY <1>1, Invariance, PTL

\* A command in progress that the host is told is done, is (command_pending).
THEOREM DoneIsDone == Spec => []DoneMeansDone
<1>1. IInv => DoneMeansDone
  BY DEF IInv
<1> QED BY <1>1, Invariance, PTL

\* No end of a transaction is lost between the interrupt and the task
\* (setup_transaction_later).
THEOREM DriverIsReady == Spec => []ReadyWhenIdle
<1>1. IInv => ReadyWhenIdle
  <2> SUFFICES ASSUME IInv, overlaps = {}, nss = "high", ~edge, enabled, pc = "wait", ~event
               PROVE  state = "READY_TO_RX"
    BY DEF ReadyWhenIdle
  <2>1. ReadyOK
    BY DEF IInv
  <2> QED BY <2>1 DEF ReadyOK, Holding
<1> QED BY <1>1, Invariance, PTL
=============================================================================
