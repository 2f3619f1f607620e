-------------------------------- MODULE Prl --------------------------------
(***************************************************************************)
(* The protocol layer of USB PD (common/usbc/usb_prl_sm.c): message        *)
(* transmission (tx), chunked reception (rch) and chunked transmission     *)
(* (tch), which the PD task runs one after the other in prl_run.  They     *)
(* hand messages over through flags; between any two of them the interrupt *)
(* of the TCPC sets xmit_status or caches a received message.  One port    *)
(* without cable messages, PD revision 3.0.                                *)
(*                                                                         *)
(* The policy engine (PE) is reduced to how it uses the layer.  External:  *)
(* the TCPC and the port partner.  A hard reset ends the behaviour.        *)
(***************************************************************************)
EXTENDS Integers, Sequences

CONSTANTS
  PD_MESSAGE_ID_COUNT,    \* mask of a message id
  MaxRequests,            \* bound: messages of the PE, see MaySend
  MaxMessages,            \* bound: messages of the partner's PE
  MaxSoftResets,          \* bound: soft resets by the partner
  CacheDepth              \* bound: received messages the EC caches

ASSUME PrlAssumption ==
  /\ PD_MESSAGE_ID_COUNT \in Nat \ {0}
  /\ MaxRequests \in Nat /\ MaxMessages \in Nat /\ MaxSoftResets \in Nat
  /\ CacheDepth \in Nat \ {0}

MsgIds == 0 .. PD_MESSAGE_ID_COUNT
NoId == -1
NextId(id) == (id + 1) % (PD_MESSAGE_ID_COUNT + 1)

\* Message n of a PE, plain or chunk c of an extended one of two chunks; a
\* request of chunk c; a soft reset.
Contents == [kind : {"plain", "chunk", "request", "soft"}, n : Nat, c : 0 .. 2]
Content(kind, n, c) == [kind |-> kind, n |-> n, c |-> c]
NoContent == Content("plain", 0, 0)
Chunks == 2

VARIABLES
  pc,                     \* PD task: what it runs next
  port,                   \* see Ports
  rxq,                    \* cached_messages of tcpci.c
  phy,                    \* what the TCPC transmits
  partner                 \* see Partners

vars == <<pc, port, rxq, phy, partner>>

\* out: the message built for the TCPC (pdmsg); emsg: the one received last
\* (rx_emsg, rx_chk_buf); tx_emsg, n and result: the last message of the PE,
\* its number and what the PE was told of it; init: local_state is SM_INIT.
\* History: passed, messages given to the PE since the ids were reset; dropped,
\* a message that was no duplicate was ignored; stray, an outcome with no
\* message waiting for one; mishaps, see Mishaps.
\* missed: the status FAILED was overwritten because of a received message;
\* overwritten: so was a chunk not processed yet; unread: a message of the PE
\* began with the result of a chunk request not read; unsynced: the ids were
\* reset for a Soft_Reset that was discarded; wrapped: the ids came round to
\* the last one the partner stored; late: a message was taken between the reset
\* of the ids and the Soft_Reset, xmit_status being that of a transmission from
\* before prl_init; unclaimed: a message of the PE began with
\* PE_FLAGS_MSG_DISCARDED set, which is then taken for its outcome (not followed).
\* result "discarded": PE_FLAGS_MSG_DISCARDED is set.
Mishaps == {"missed", "overwritten", "unread", "unsynced", "wrapped", "late", "unclaimed"}
Results == {"none", "sent", "error", "discarded", "abandoned"}
Ports ==
  [tx : {"wait", "start_ams", "pending", "layer_reset", "phy"},
   tx_xmit : BOOLEAN, ams : BOOLEAN, counter : MsgIds,
   status : {"unset", "wait", "success", "failed", "discarded"},
   complete : BOOLEAN, error : BOOLEAN, out : Contents,
   rch : {"wait", "processing", "requesting", "waiting", "report"},
   rch_received : BOOLEAN, expected : 0 .. Chunks,
   tch : {"wait", "transmission", "construct", "sending", "wait_request", "received"},
   tch_xmit : BOOLEAN, tch_received : BOOLEAN, to_send : 0 .. Chunks,
   rx_id : MsgIds \union {NoId}, emsg : Contents, init : BOOLEAN,
   pe : {"run", "soft_reset", "await_accept", "hard_reset"},
   pe_ams : BOOLEAN, pe_received : BOOLEAN,
   tx_emsg : Contents, n : Nat, result : Results,
   passed : Seq(Nat), dropped : BOOLEAN, stray : BOOLEAN,
   mishaps : SUBSET Mishaps]

\* n: messages of its PE; owes: what it sends next of a chunked message;
\* accepted: requests of the port it got, a chunked one with its first chunk.
Partners ==
  [counter : MsgIds, stored : MsgIds \union {NoId}, n : 0 .. MaxMessages,
   owes : {"nothing", "request", "chunk", "accept"}, chunking : BOOLEAN,
   resets : 0 .. MaxSoftResets, awaits_accept : BOOLEAN, accepted : SUBSET Nat]

Init ==
  /\ pc = "pe" /\ rxq = <<>> /\ phy = [id |-> NoId, content |-> NoContent, got |-> FALSE]
  /\ port =
       [tx |-> "wait", tx_xmit |-> FALSE, ams |-> FALSE, counter |-> 0,
        status |-> "unset", complete |-> FALSE, error |-> FALSE, out |-> NoContent,
        rch |-> "wait", rch_received |-> FALSE, expected |-> 0,
        tch |-> "wait", tch_xmit |-> FALSE, tch_received |-> FALSE, to_send |-> 0,
        rx_id |-> NoId, emsg |-> NoContent, init |-> FALSE,
        pe |-> "run", pe_ams |-> FALSE, pe_received |-> FALSE,
        tx_emsg |-> NoContent, n |-> 0, result |-> "abandoned",
        passed |-> <<>>, dropped |-> FALSE, stray |-> FALSE, mishaps |-> {}]
  /\ partner =
       [counter |-> 0, stored |-> NoId, n |-> 0, owes |-> "nothing", chunking |-> FALSE,
        resets |-> 0, awaits_accept |-> FALSE, accepted |-> {}]

-----------------------------------------------------------------------------
(***************************************************************************)
(* What the PE is told.                                                    *)
(***************************************************************************)
Note(s, happens, mishap) ==
  [s EXCEPT !.mishaps = @ \union (IF happens THEN {mishap} ELSE {})]

Told(s, result) ==
  IF s.result = "none" THEN [s EXCEPT !.result = result, !.pe_ams = FALSE]
                       ELSE [s EXCEPT !.stray = TRUE]

pe_message_sent(s) == Told(s, "sent")

\* PE_FLAGS_MSG_DISCARDED stays set until a state of the PE looks at it: see
\* DiscardRead.  That of a chunk request is set too, the PE waiting for nothing.
pe_report_discard(s) ==
  [Note(s, s.tx_emsg.kind = "soft" /\ s.result = "none", "unsynced") EXCEPT
     !.stray = @ \/ (s.result \notin {"none", "discarded"} /\ s.out.kind # "request"),
     !.result = "discarded", !.pe_ams = FALSE,
     !.pe = IF @ = "await_accept" THEN "run" ELSE @]

\* A soft reset, or a hard reset while one is under way.
ProtocolError(s) ==
  IF s.pe \in {"soft_reset", "await_accept"} THEN [s EXCEPT !.pe = "hard_reset"]
  ELSE [s EXCEPT !.pe = "soft_reset", !.init = TRUE, !.pe_ams = FALSE,
                 !.result = IF @ = "none" THEN "abandoned" ELSE @]

\* The outcomes: depending on the state of the PE it resets the layer, or gives
\* up its AMS and goes on.
pe_report_error(s, e) ==
  LET t == IF e \in {"ERR_TCH_XMIT", "ERR_TCH_CHUNKED"} THEN Told(s, "error") ELSE s IN
  IF e = "ERR_RCH_CHUNK_WAIT_TIMEOUT" THEN {s}
  ELSE {ProtocolError(t)} \union (IF s.pe = "run" THEN {[t EXCEPT !.pe_ams = FALSE]} ELSE {})

pe_message_received(s) ==
  [s EXCEPT !.pe_received = TRUE,
            !.passed = IF s.emsg.kind \in {"plain", "chunk"} THEN Append(@, s.emsg.n) ELSE @]

prl_send(s, content) ==
  [Note(s, s.result = "discarded", "unclaimed") EXCEPT
     !.tx_emsg = content, !.n = s.n + 1, !.result = "none", !.tch_xmit = TRUE]

\* The PE answers with Accept.
pe_got_soft_reset(s) ==
  [prl_send(s, Content("plain", s.n + 1, 0)) EXCEPT !.pe = "run", !.pe_ams = FALSE]

-----------------------------------------------------------------------------
(***************************************************************************)
(* Entries of the states of tx; those of prl_tx_phy_layer_reset and        *)
(* prl_tx_discard_message go on to PRL_TX_WAIT_FOR_MESSAGE_REQUEST.        *)
(***************************************************************************)
tx_wait_entry(s) == [s EXCEPT !.tx = "wait", !.status = "unset"]

\* Mutant: the id is not cut to its three bits.
CountOn(s) == [s EXCEPT !.counter = @ + 1]

increment_msgid_counter(s) ==
  [Note(s, s.pe # "soft_reset" /\ NextId(s.counter) = partner.stored, "wrapped")
     EXCEPT !.counter = NextId(@)]

\* Mutant: the stored id is left.
ResetCounter(s) == [s EXCEPT !.counter = 0, !.passed = <<>>]

prl_reset_msg_ids(s) == [s EXCEPT !.counter = 0, !.rx_id = NoId, !.passed = <<>>]

tx_discard_entry(s) ==
  tx_wait_entry(
    IF s.tx_xmit \/ s.status \in {"wait", "discarded"}
    THEN pe_report_discard(increment_msgid_counter([s EXCEPT !.tx_xmit = FALSE]))
    ELSE Note(s, s.status = "failed", "missed"))

-----------------------------------------------------------------------------
(***************************************************************************)
(* Entries of the states of rch and tch.                                   *)
(***************************************************************************)
rch_wait_entry(s) == [s EXCEPT !.rch = "wait", !.rch_received = FALSE]

rch_pass_up_entry(s) == rch_wait_entry(pe_message_received(s))

rch_requesting_entry(s) ==
  [s EXCEPT !.rch = "requesting", !.tx_xmit = TRUE, !.out = Content("request", 0, s.expected)]

rch_report_entry(s, e) ==
  LET t == [s EXCEPT !.rch = "report", !.rch_received = FALSE] IN
  IF s.rch_received THEN pe_report_error(pe_message_received(t), "ERR_RCH_MSG_REC")
                    ELSE pe_report_error(t, e)

tch_wait_entry(s) == [s EXCEPT !.tch = "wait"]

\* Mutant: the message that is reported as discarded is still requested.
DiscardAndKeep(s) ==
  LET t == [s EXCEPT !.tch = "received", !.tch_received = FALSE, !.rch_received = TRUE] IN
  IF s.tch_xmit THEN pe_report_discard(t) ELSE t

tch_received_entry(s) ==
  LET t == [s EXCEPT !.tch = "received", !.tch_received = FALSE,
                     !.rch_received = TRUE, !.tch_xmit = FALSE] IN
  IF s.tch_xmit THEN pe_report_discard(t) ELSE t

\* The PE is told first, then a message that was received is looked at.  The
\* entries that report an error give the set of their outcomes.
AfterTold(s) == IF s.tch_received THEN tch_received_entry(s) ELSE tch_wait_entry(s)

tch_sent_entry(s) == AfterTold(pe_message_sent(s))
tch_report_entry(s, e) == {AfterTold(t) : t \in pe_report_error(s, e)}

tch_construct_entry(s) ==
  IF s.tch_received THEN tch_received_entry(s)
  ELSE [s EXCEPT !.tch = "construct", !.tx_xmit = TRUE,
                 !.out = Content("chunk", s.tx_emsg.n, s.to_send)]

tch_wait_request_entry(s) == [s EXCEPT !.tch = "wait_request", !.to_send = @ + 1]

prl_init(s) ==
  [rch_wait_entry(tch_wait_entry(tx_wait_entry(prl_reset_msg_ids(s)))) EXCEPT
     !.tx_xmit = FALSE, !.ams = FALSE, !.complete = FALSE, !.error = FALSE,
     !.tch_xmit = FALSE, !.tch_received = FALSE, !.init = FALSE]

prl_is_busy(s) == s.rch # "wait" \/ s.tch # "wait"

-----------------------------------------------------------------------------
(***************************************************************************)
(* The PE's part of the loop, then the start of prl_run.                   *)
(***************************************************************************)
\* The state of the PE reads or clears PE_FLAGS_MSG_DISCARDED, or leaves it.
DiscardRead(s) ==
  {s, [s EXCEPT !.result = IF @ = "discarded" THEN "abandoned" ELSE @]}

PeRuns(s) ==
  /\ pc = "pe" /\ pc' = "rx"
  /\ \E t \in DiscardRead([s EXCEPT !.pe_received = FALSE]) :
       port' = IF t.init THEN prl_init(t) ELSE t
  /\ UNCHANGED <<rxq, phy, partner>>

\* bound: a soft reset comes on top, and an Accept.
MaySend(soft) ==
  ~port.init /\ port.result # "none" /\ port.n < MaxRequests + partner.resets + soft

pe_idle == port.pe # "hard_reset" /\ PeRuns(port)

\* The first message of an AMS of the PE, or an answer.
pe_send_msg ==
  /\ port.pe = "run" /\ MaySend(0)
  /\ \E kind \in {"plain", "chunk"}, ams \in BOOLEAN :
       /\ port.pe_received \/ ~prl_is_busy(port)
       /\ ams => ~port.pe_received
       /\ PeRuns([prl_send(port, Content(kind, port.n + 1, 0)) EXCEPT !.pe_ams = ams])

\* For instance after a discard, or when an answer did not come in time.
pe_send_soft_reset ==
  /\ port.pe = "run" /\ port.result # "none"
  /\ port.n <= MaxRequests + partner.resets
  /\ PeRuns(ProtocolError(port))

pe_send_soft_reset_run ==
  /\ port.pe = "soft_reset" /\ MaySend(1)
  /\ PeRuns([prl_send(port, Content("soft", port.n + 1, 0)) EXCEPT !.pe = "await_accept"])

pe_soft_reset_accepted ==
  /\ port.pe = "await_accept" /\ port.result = "sent" /\ port.pe_received
  /\ PeRuns([port EXCEPT !.pe = "run"])

pe_sender_response_timeout ==
  /\ port.pe = "await_accept"
  /\ PeRuns([port EXCEPT !.pe = "hard_reset"])

-----------------------------------------------------------------------------
(***************************************************************************)
(* prl_run: each part in its turn.                                         *)
(***************************************************************************)
Turn(at, next) == port.pe # "hard_reset" /\ pc = at /\ pc' = next

Idle(at, next) == Turn(at, next) /\ UNCHANGED <<port, rxq, phy, partner>>

\* prl_rx_wait_for_phy_message
RxTurn == Turn("rx", "rch") /\ UNCHANGED <<phy, partner>>

rx_nothing == RxTurn /\ (port.rch_received \/ rxq = <<>>) /\ UNCHANGED <<port, rxq>>

Received == Head(rxq)
MessageArrives == RxTurn /\ ~port.rch_received /\ rxq # <<>> /\ rxq' = Tail(rxq)

\* The PE is told once the layer is reset.
rx_soft_reset ==
  /\ MessageArrives /\ Received.content.kind = "soft"
  /\ port' = pe_got_soft_reset(rch_wait_entry(tch_wait_entry(tx_wait_entry(
               prl_reset_msg_ids([port EXCEPT !.emsg = Received.content])))))

rx_duplicate ==
  /\ MessageArrives /\ Received.content.kind # "soft"
  /\ port.rx_id = Received.id
  /\ port' = [port EXCEPT !.emsg = Received.content,
                          !.dropped = @ \/ Received.content # port.emsg]

\* Mutant: the id is not stored.
RxUnstored ==
  /\ MessageArrives /\ Received.content.kind # "soft"
  /\ port.rx_id # Received.id
  /\ LET s == [Note(port, port.rch = "processing", "overwritten") EXCEPT
                 !.emsg = Received.content]
         t == IF s.status # "success" \/ s.tx_xmit THEN tx_discard_entry(s)
              ELSE Note(s, s.tx = "layer_reset", "late") IN
     port' = IF t.tch # "wait" \/ t.tch_xmit THEN [t EXCEPT !.tch_received = TRUE]
                                             ELSE [t EXCEPT !.rch_received = TRUE]

rx_message ==
  /\ MessageArrives /\ Received.content.kind # "soft"
  /\ port.rx_id # Received.id
  /\ LET s == [Note(port, port.rch = "processing", "overwritten") EXCEPT
                 !.emsg = Received.content]
         t == IF s.status # "success" \/ s.tx_xmit THEN tx_discard_entry(s)
              ELSE Note(s, s.tx = "layer_reset", "late")
         u == [t EXCEPT !.rx_id = Received.id] IN
     port' = IF u.tch # "wait" \/ u.tch_xmit THEN [u EXCEPT !.tch_received = TRUE]
                                             ELSE [u EXCEPT !.rch_received = TRUE]

-----------------------------------------------------------------------------
RchTurns(outcomes) == Turn("rch", "tch") /\ port' \in outcomes /\ UNCHANGED <<rxq, phy, partner>>
RchTurn(s) == RchTurns({s})

\* RCH_WAIT_FOR_MESSAGE_FROM_PROTOCOL_LAYER
rch_wait_run ==
  /\ port.rch = "wait" /\ port.rch_received
  /\ LET s == [port EXCEPT !.rch_received = FALSE] IN
     RchTurn(IF s.emsg.kind \in {"chunk", "request"}
             THEN [s EXCEPT !.expected = 0, !.rch = "processing"]
             ELSE rch_pass_up_entry(s))

\* A message that came since then has overwritten the chunk in rx_chk_buf; the
\* payload of a plain one is taken for an extended header.
rch_processing_run ==
  /\ port.rch = "processing"
  /\ \E expected \in (IF port.emsg.kind = "plain" THEN BOOLEAN
                      ELSE {port.emsg.c = port.expected}) :
     \E last \in (IF port.emsg.kind = "plain" THEN BOOLEAN
                  ELSE {port.expected = Chunks - 1}) :
       LET s == [port EXCEPT !.expected = @ + 1] IN
       RchTurns(IF ~expected \/ port.expected = Chunks
                  THEN rch_report_entry(port, "ERR_RCH_CHUNKED")
                ELSE {IF last THEN rch_pass_up_entry(s) ELSE rch_requesting_entry(s)})

rch_requesting_run ==
  /\ port.rch = "requesting" /\ (port.complete \/ port.error \/ port.rch_received)
  /\ RchTurns(IF port.error /\ ~port.complete THEN rch_report_entry(port, "ERR_RCH_CHUNKED")
              ELSE {[port EXCEPT !.complete = FALSE, !.rch = "waiting"]})

\* A message that is not extended stays where it is.
rch_waiting_run ==
  /\ port.rch = "waiting" /\ port.rch_received
  /\ LET s == [port EXCEPT !.complete = FALSE] IN
     RchTurns(CASE s.emsg.kind = "chunk" -> {[s EXCEPT !.rch_received = FALSE, !.rch = "processing"]}
                [] s.emsg.kind = "request" -> rch_report_entry(s, "ERR_RCH_CHUNKED")
                [] OTHER -> {s})

rch_waiting_timeout ==
  /\ port.rch = "waiting" /\ ~port.rch_received
  /\ RchTurns(rch_report_entry(port, "ERR_RCH_CHUNK_WAIT_TIMEOUT"))

rch_report_run == port.rch = "report" /\ RchTurn(rch_wait_entry(port))

rch_idle ==
  /\ Idle("rch", "tch")
  /\ \/ port.rch = "wait" /\ ~port.rch_received
     \/ port.rch = "requesting" /\ ~(port.complete \/ port.error \/ port.rch_received)
     \/ port.rch = "waiting" /\ ~port.rch_received

-----------------------------------------------------------------------------
TchTurns(outcomes) ==
  /\ Turn("tch", "tx") \/ Turn("tch2", "pe")
  /\ port' \in outcomes /\ UNCHANGED <<rxq, phy, partner>>
TchTurn(s) == TchTurns({s})

tch_wait_received == port.tch = "wait" /\ port.tch_received /\ TchTurn(tch_received_entry(port))

\* A message of the PE is refused while a chunked one is received.
tch_wait_xmit ==
  /\ port.tch = "wait" /\ ~port.tch_received /\ port.tch_xmit
  /\ LET s == [Note(port, port.complete \/ port.error \/ port.tx = "phy", "unread")
                 EXCEPT !.tch_xmit = FALSE] IN
     TchTurns(CASE s.rch # "wait" -> tch_report_entry(s, "ERR_TCH_XMIT")
                [] s.rch = "wait" /\ s.tx_emsg.kind = "chunk" ->
                     {tch_construct_entry([s EXCEPT !.to_send = 0])}
                [] OTHER ->
                     {[s EXCEPT !.out = s.tx_emsg, !.tx_xmit = TRUE, !.tch = "transmission"]})

tch_transmission_run ==
  /\ port.tch = "transmission"
  /\ \/ port.complete /\ TchTurn(tch_sent_entry([port EXCEPT !.complete = FALSE]))
     \/ /\ ~port.complete /\ port.error
        /\ TchTurns(tch_report_entry([port EXCEPT !.error = FALSE], "ERR_TCH_XMIT"))
     \/ /\ ~port.complete /\ ~port.error /\ port.tch_received /\ port.status # "success"
        /\ TchTurn(tch_received_entry(port))

tch_construct_run == port.tch = "construct" /\ TchTurn([port EXCEPT !.tch = "sending"])

\* The chunk was the last one if to_send is.
tch_sending_run ==
  LET last == port.to_send = Chunks - 1
      s == [port EXCEPT !.complete = FALSE] IN
  /\ port.tch = "sending"
  /\ \/ port.error /\ TchTurns(tch_report_entry(port, "ERR_TCH_XMIT"))
     \/ ~port.error /\ last /\ port.complete /\ TchTurn(tch_sent_entry(s))
     \/ /\ ~port.error /\ ~(last /\ port.complete) /\ port.tch_received
        /\ TchTurn(tch_received_entry(port))
     \/ /\ ~port.error /\ ~last /\ port.complete /\ ~port.tch_received
        /\ TchTurn(tch_wait_request_entry(s))

tch_wait_request_run ==
  /\ port.tch = "wait_request" /\ port.tch_received
  /\ LET s == [port EXCEPT !.tch_received = FALSE] IN
     TchTurns(CASE s.emsg.kind # "request" -> {tch_received_entry(s)}
                [] s.emsg.kind = "request" /\ s.emsg.c = s.to_send -> {tch_construct_entry(s)}
                [] OTHER -> tch_report_entry(s, "ERR_TCH_CHUNKED"))

tch_wait_request_timeout ==
  /\ port.tch = "wait_request" /\ ~port.tch_received
  /\ TchTurn(tch_sent_entry(port))

tch_received_run == port.tch = "received" /\ TchTurn(tch_wait_entry(port))

tch_idle ==
  /\ Idle("tch", "tx") \/ Idle("tch2", "pe")
  /\ \/ port.tch = "wait" /\ ~port.tch_received /\ ~port.tch_xmit
     \/ /\ port.tch = "transmission" /\ ~port.complete /\ ~port.error
        /\ ~(port.tch_received /\ port.status # "success")
     \/ port.tch = "sending" /\ ~port.error /\ ~port.complete /\ ~port.tch_received
     \/ port.tch = "wait_request" /\ ~port.tch_received

-----------------------------------------------------------------------------
InFlight == phy.id # NoId
TxTurn(s) == Turn("tx", "tch2") /\ port' = s /\ UNCHANGED <<rxq, partner>>
TxKeeps(s) == TxTurn(s) /\ UNCHANGED phy

\* prl_tx_construct_message and tcpm_transmit, whose result nobody looks at:
\* it is not sent when a received message is pending or an access fails.  The
\* TCPC is done with one message before it is given the next.
construct_message(s) ==
  LET t == [s EXCEPT !.tx = "phy", !.status = "wait", !.complete = FALSE] IN
  /\ ~InFlight
  /\ \/ rxq # <<>> /\ TxKeeps([t EXCEPT !.status = "discarded"])
     \/ TxKeeps(t)
     \/ /\ rxq = <<>> /\ TxTurn(t)
        /\ phy' = [id |-> s.counter, content |-> s.out, got |-> FALSE]

\* A message goes to the TCPC; a soft reset resets the layer first.
Pass(s) ==
  LET t == [s EXCEPT !.tx_xmit = FALSE] IN
  IF s.out.kind = "soft" THEN TxKeeps([prl_reset_msg_ids(t) EXCEPT !.tx = "layer_reset"])
                         ELSE construct_message(t)

\* PRL_TX_WAIT_FOR_MESSAGE_REQUEST; without an AMS its flags are cleared.
tx_wait_run ==
  /\ port.tx = "wait"
  /\ LET s == [port EXCEPT !.ams = @ /\ port.pe_ams] IN
     \/ s.pe_ams /\ ~s.ams /\ TxKeeps([s EXCEPT !.ams = TRUE, !.tx = "start_ams"])
     \/ (s.pe_ams => s.ams) /\ s.tx_xmit /\ Pass(s)
     \/ (s.pe_ams => s.ams) /\ ~s.tx_xmit /\ TxKeeps(s)

\* PRL_TX_SRC_SOURCE_TX, PRL_TX_SNK_START_AMS
tx_start_ams_run ==
  /\ port.tx = "start_ams"
  /\ TxKeeps(IF port.tx_xmit THEN [port EXCEPT !.tx = "pending"] ELSE port)

\* PRL_TX_SRC_PENDING, PRL_TX_SNK_PENDING: until SinkTxTimer expires or the
\* source shows SinkTxOk.
tx_pending_run == port.tx = "pending" /\ (Pass(port) \/ TxKeeps(port))

tx_layer_reset_run == port.tx = "layer_reset" /\ construct_message(port)

\* PRL_TX_WAIT_FOR_PHY_RESPONSE
\* Mutant: the next message has the same id.
SuccessKeepsId ==
  /\ port.tx = "phy" /\ port.status = "success"
  /\ TxKeeps(tx_wait_entry([port EXCEPT !.complete = TRUE]))

tx_phy_success ==
  /\ port.tx = "phy" /\ port.status = "success"
  /\ TxKeeps(tx_wait_entry(increment_msgid_counter([port EXCEPT !.complete = TRUE])))

\* The TCPC answers before the timer expires, if it has got the message.
tx_phy_error ==
  /\ port.tx = "phy"
  /\ port.status = "failed" \/ (port.status # "success" /\ phy.id = NoId)
  /\ TxKeeps(tx_wait_entry(increment_msgid_counter([port EXCEPT !.error = TRUE])))

tx_phy_wait == port.tx = "phy" /\ port.status \in {"wait", "discarded"} /\ TxKeeps(port)

-----------------------------------------------------------------------------
(***************************************************************************)
(* External: the TCPC and the port partner.                                *)
(***************************************************************************)
\* The PE and rch read nothing that these write, so that nothing is lost when
\* these do not come right before them.
Alive == port.pe # "hard_reset" /\ pc \notin {"pe", "rch"}
NoPhy == [id |-> NoId, content |-> NoContent, got |-> FALSE]

\* The partner gets the message, and drops a duplicate.
partner_receives ==
  /\ Alive /\ InFlight /\ ~phy.got
  /\ phy' = [phy EXCEPT !.got = TRUE]
  /\ LET c == phy.content
         q == [partner EXCEPT !.stored = phy.id, !.accepted = @ \union {c.n}] IN
     partner' =
       CASE c.kind = "soft" ->
              [q EXCEPT !.counter = 0, !.owes = "accept", !.chunking = FALSE,
                        !.awaits_accept = FALSE]
         [] c.kind # "soft" /\ phy.id = partner.stored -> partner
         [] c.kind = "plain" /\ phy.id # partner.stored ->
              [q EXCEPT !.owes = "nothing", !.chunking = FALSE, !.awaits_accept = FALSE]
         [] c.kind = "chunk" /\ phy.id # partner.stored ->
              [q EXCEPT !.owes = IF c.c = 0 THEN "request" ELSE "nothing", !.chunking = FALSE]
         [] OTHER ->
              [q EXCEPT !.owes = IF partner.chunking THEN "chunk" ELSE "nothing"]
  /\ UNCHANGED <<pc, port, rxq>>

\* The result of a transmission; GoodCRC may be lost.
tcpc_tx_complete ==
  /\ Alive /\ InFlight
  /\ \E status \in (IF phy.got THEN {"success", "failed"} ELSE {"failed"}) :
       port' = [port EXCEPT !.status = status]
  /\ phy' = NoPhy
  /\ UNCHANGED <<pc, rxq, partner>>

\* A message of the partner, once or twice when its GoodCRC is lost.  It ends
\* a transmission, whose result tcpc_alert hands over first.
Send(q, content) ==
  /\ Alive /\ Len(rxq) < CacheDepth
  /\ LET m == [id |-> q.counter, content |-> content] IN
     \/ rxq' = Append(rxq, m)
     \/ Len(rxq) + 1 < CacheDepth /\ rxq' = rxq \o <<m, m>>
  /\ partner' = [q EXCEPT !.counter = NextId(@)]
  /\ phy' = NoPhy
  /\ IF ~InFlight THEN UNCHANGED port
     ELSE \E status \in {"discarded", "failed"} \union (IF phy.got THEN {"success"} ELSE {}) :
            port' = [port EXCEPT !.status = status]
  /\ UNCHANGED pc

partner_message ==
  /\ partner.n < MaxMessages /\ ~partner.awaits_accept /\ partner.owes # "accept"
  /\ \E kind \in {"plain", "chunk"} :
       Send([partner EXCEPT !.n = @ + 1, !.owes = "nothing", !.chunking = (kind = "chunk")],
            Content(kind, partner.n + 1, 0))

partner_request ==
  /\ partner.owes = "request" /\ ~partner.awaits_accept
  /\ Send([partner EXCEPT !.owes = "nothing"], Content("request", 0, 1))

partner_chunk ==
  /\ partner.owes = "chunk" /\ ~partner.awaits_accept
  /\ Send([partner EXCEPT !.owes = "nothing", !.chunking = FALSE],
          Content("chunk", partner.n, 1))

partner_accept ==
  /\ partner.owes = "accept" /\ partner.n < MaxMessages
  /\ Send([partner EXCEPT !.n = @ + 1, !.owes = "nothing"], Content("plain", partner.n + 1, 0))

partner_soft_reset ==
  /\ partner.resets < MaxSoftResets /\ partner.owes # "accept"
  /\ Send([partner EXCEPT !.resets = @ + 1, !.counter = 0, !.stored = NoId,
                          !.owes = "nothing", !.chunking = FALSE, !.awaits_accept = TRUE],
          Content("soft", 0, 0))

-----------------------------------------------------------------------------
PeNext ==
  \/ pe_idle \/ pe_send_msg \/ pe_send_soft_reset
  \/ pe_send_soft_reset_run \/ pe_soft_reset_accepted \/ pe_sender_response_timeout
RxNext == rx_nothing \/ rx_soft_reset \/ rx_duplicate \/ rx_message
RchNext ==
  \/ rch_wait_run \/ rch_processing_run \/ rch_requesting_run
  \/ rch_waiting_run \/ rch_waiting_timeout \/ rch_report_run \/ rch_idle
TchNext ==
  \/ tch_wait_received \/ tch_wait_xmit \/ tch_transmission_run \/ tch_construct_run
  \/ tch_sending_run \/ tch_wait_request_run \/ tch_wait_request_timeout
  \/ tch_received_run \/ tch_idle
TxNext ==
  \/ tx_wait_run \/ tx_start_ams_run \/ tx_pending_run \/ tx_layer_reset_run
  \/ tx_phy_success \/ tx_phy_error \/ tx_phy_wait
ExternalNext ==
  \/ partner_receives \/ tcpc_tx_complete
  \/ partner_message \/ partner_request \/ partner_chunk \/ partner_accept \/ partner_soft_reset

TaskNext == PeNext \/ RxNext \/ RchNext \/ TchNext \/ TxNext
Next == TaskNext \/ ExternalNext

Spec == Init /\ [][Next]_vars

\* The PD task runs its loop again and again, and a timer that stays enabled
\* expires.
FairSpec == Spec /\ WF_vars(TaskNext) /\ SF_vars(rch_waiting_timeout)

-----------------------------------------------------------------------------
(***************************************************************************)
(* Properties.                                                             *)
(***************************************************************************)
\* Message ids stay in their three bits, chunk numbers within the message.
TypeOK ==
  /\ pc \in {"pe", "rx", "rch", "tch", "tx", "tch2"}
  /\ port \in Ports /\ partner \in Partners
  /\ phy \in [id : MsgIds \union {NoId}, content : Contents, got : BOOLEAN]
  /\ rxq \in Seq([id : MsgIds, content : Contents]) /\ Len(rxq) <= CacheDepth

\* The PE is given each message of the partner's PE at most once and in the
\* order they were sent, however often the partner had to retry and however
\* chunks were interrupted: by prl_rx_wait_for_phy_message and the routing to
\* rch or tch.  Not when a message took the place of a chunk that
\* rch_processing_extended_message_run had not looked at.  prl_reset_msg_ids
\* clears passed: a duplicate cached across a soft reset is outside this.
InOrderOnce ==
  "overwritten" \notin port.mishaps =>
    \A i, j \in DOMAIN port.passed : i < j => port.passed[i] < port.passed[j]

\* What prl_rx_wait_for_phy_message ignores as a duplicate is one: no new
\* message, chunk or request of the partner has the stored id, across soft
\* resets of either side.  Not when a message was stored after the ids were
\* reset for Soft_Reset: the answer may have its id.
FreshNotDropped == "late" \notin port.mishaps => ~port.dropped

\* "Ignore if this is a duplicate message" (usb_prl_sm.c:2261): nothing else is
\* ignored there.
OnlyDuplicatesIgnored == ~port.dropped

\* pe_message_sent, pe_report_error and the discard of a message (not of a chunk
\* request) by pe_report_discard come when the PE waits for the outcome of one,
\* never for a message whose outcome it already has.  Not when a message began
\* with the flags of a chunk request that rch did not wait for, or with
\* PE_FLAGS_MSG_DISCARDED set: the PE takes it for its outcome, and no longer
\* waits for the one that comes.
NoStrayOutcome == port.mishaps \intersect {"unread", "unclaimed"} = {} => ~port.stray

\* When the PE is told that its message was sent, the partner's layer has
\* accepted it: GoodCRC was not given for an id it had seen, and the outcome
\* was not that of another message.  Not after one of the mishaps that leave
\* ids or outcomes wrong.
SentWasAccepted ==
  port.mishaps \intersect {"missed", "unsynced", "unread", "wrapped", "unclaimed"} = {} =>
    (port.result = "sent" => port.n \in partner.accepted)

\* The wait of rch for a chunk ends, by a chunk, by another message or by the
\* ChunkSenderResponseTimer; rx takes no message, not even a soft reset, while
\* one is left for rch.
ChunkWaitEnds == port.rch = "waiting" ~> port.rch # "waiting"
=============================================================================
