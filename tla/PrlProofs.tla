----------------------------- MODULE PrlProofs -----------------------------
(***************************************************************************)
(* Theorems of Prl, for every number of ids, messages and resets and every *)
(* depth of the cache.                                                     *)
(*                                                                         *)
(* First what each operator and each action of Prl changes, field by field *)
(* of port (the lemmas on ...Effect): the proofs that follow use these and *)
(* do not expand the actions again.  Then five inductive invariants, each  *)
(* resting on the ones before it:                                          *)
(*   Core     types, and how flags and states of tx, rch and tch go        *)
(*            together;                                                    *)
(*   Fresher  what the partner sends next is newer than what was stored;   *)
(*   InOrder  where each message is between the partner and the PE;        *)
(*   Settled  who waits for the outcome of what is requested, on the air   *)
(*            or in complete and error;                                    *)
(*   Agreed   the ids of both sides, and what an outcome is about.         *)
(***************************************************************************)
EXTENDS Prl, TLAPS

(***************************************************************************)
(* The record port, field by field.                                        *)
(***************************************************************************)
Fields ==
  {"tx", "tx_xmit", "ams", "counter", "status", "complete", "error", "out",
   "rch", "rch_received", "expected", "tch", "tch_xmit", "tch_received", "to_send",
   "rx_id", "emsg", "init", "pe", "pe_ams", "pe_received", "tx_emsg", "n", "result",
   "passed", "dropped", "stray", "mishaps"}

Record(s) == DOMAIN s = Fields /\ s = [f \in DOMAIN s |-> s[f]]

\* t differs from s in no field but those of F.
SameBut(F, s, t) == Record(t) /\ \A f \in Fields \ F : t[f] = s[f]

TxTypes(s) ==
  /\ s.tx \in {"wait", "start_ams", "pending", "layer_reset", "phy"}
  /\ s.tx_xmit \in BOOLEAN /\ s.ams \in BOOLEAN
  /\ s.status \in {"unset", "wait", "success", "failed", "discarded"}
  /\ s.complete \in BOOLEAN /\ s.error \in BOOLEAN /\ s.out \in Contents
RchTypes(s) ==
  /\ s.rch \in {"wait", "processing", "requesting", "waiting", "report"}
  /\ s.rch_received \in BOOLEAN
  /\ s.rx_id \in MsgIds \union {NoId} /\ s.emsg \in Contents
TchTypes(s) ==
  /\ s.tch \in {"wait", "transmission", "construct", "sending", "wait_request", "received"}
  /\ s.tch_xmit \in BOOLEAN /\ s.tch_received \in BOOLEAN /\ s.init \in BOOLEAN
PeTypes(s) ==
  /\ s.pe \in {"run", "soft_reset", "await_accept", "hard_reset"}
  /\ s.pe_ams \in BOOLEAN /\ s.pe_received \in BOOLEAN
  /\ s.tx_emsg \in Contents /\ s.result \in Results
CountTypes(s) ==
  /\ s.counter \in MsgIds /\ s.expected \in 0 .. Chunks /\ s.to_send \in 0 .. Chunks
  /\ s.n \in Nat
HistoryTypes(s) ==
  /\ s.passed \in Seq(Nat) /\ s.dropped \in BOOLEAN /\ s.stray \in BOOLEAN
  /\ s.mishaps \in SUBSET Mishaps
Types(s) ==
  TxTypes(s) /\ RchTypes(s) /\ TchTypes(s) /\ PeTypes(s) /\ CountTypes(s) /\ HistoryTypes(s)

\* The types of Ports, one field at a time.
LEMMA PortsAreTyped == ASSUME NEW s PROVE s \in Ports <=> Record(s) /\ Types(s)
<1>1. s \in Ports => Record(s) /\ Types(s)
  BY DEF Record, Types, TxTypes, RchTypes, TchTypes, PeTypes, CountTypes, HistoryTypes, Ports,
     Fields
<1>2. Record(s) /\ Types(s) => s \in Ports
  BY DEF Record, Types, TxTypes, RchTypes, TchTypes, PeTypes, CountTypes, HistoryTypes, Ports,
     Fields
<1> QED BY <1>1, <1>2

-----------------------------------------------------------------------------
(***************************************************************************)
(* What the operators on port change.                                      *)
(***************************************************************************)
\* Note changes the mishaps only.
LEMMA NoteFields ==
  ASSUME NEW s, Record(s), NEW happens, NEW mishap
  PROVE  /\ SameBut({"mishaps"}, s, Note(s, happens, mishap))
         /\ Note(s, happens, mishap).mishaps = s.mishaps \union (IF happens THEN {mishap} ELSE {})
BY DEF Record, SameBut, Fields, Note

\* Told gives an outcome that is waited for, or is stray.
LEMMA ToldFields ==
  ASSUME NEW s, Record(s), NEW r, NEW t, t = Told(s, r)
  PROVE  /\ SameBut({"result", "pe_ams", "stray"}, s, t)
         /\ s.result = "none" => t.result = r /\ t.pe_ams = FALSE /\ t.stray = s.stray
         /\ s.result # "none" => t.result = s.result /\ t.pe_ams = s.pe_ams /\ t.stray = TRUE
BY DEF Record, SameBut, Fields, Told

\* A discard of what is neither a message nor a chunk request.
StrayDiscard(s) == s.result \notin {"none", "discarded"} /\ s.out.kind # "request"
\* pe_report_discard sets the flag, ends the AMS and the wait for Accept.
LEMMA DiscardFields ==
  ASSUME NEW s, Record(s), NEW t, t = pe_report_discard(s)
  PROVE  /\ SameBut({"mishaps", "result", "stray", "pe_ams", "pe"}, s, t)
         /\ t.mishaps = s.mishaps \union
              (IF s.tx_emsg.kind = "soft" /\ s.result = "none" THEN {"unsynced"} ELSE {})
         /\ t.result = "discarded" /\ t.stray = (s.stray \/ StrayDiscard(s))
         /\ t.pe_ams = FALSE
         /\ t.pe = IF s.pe = "await_accept" THEN "run" ELSE s.pe
<1> DEFINE u == Note(s, s.tx_emsg.kind = "soft" /\ s.result = "none", "unsynced")
<1>1. SameBut({"mishaps"}, s, u)
      /\ u.mishaps = s.mishaps \union
           (IF s.tx_emsg.kind = "soft" /\ s.result = "none" THEN {"unsynced"} ELSE {})
  BY NoteFields
<1>2. t = [u EXCEPT !.stray = @ \/ StrayDiscard(s), !.result = "discarded", !.pe_ams = FALSE,
                    !.pe = IF @ = "await_accept" THEN "run" ELSE @]
  BY DEF pe_report_discard, StrayDiscard
<1> HIDE DEF u
<1>3. Record(t)
  BY <1>1, <1>2 DEF SameBut, Record
<1>4. \A f \in Fields \ {"result", "stray", "pe_ams", "pe"} : t[f] = u[f]
  BY <1>1, <1>2 DEF SameBut, Record, Fields
<1>5. /\ t.result = "discarded" /\ t.stray = (u.stray \/ StrayDiscard(s))
      /\ t.pe_ams = FALSE
      /\ t.pe = (IF u.pe = "await_accept" THEN "run" ELSE u.pe)
  BY <1>1, <1>2 DEF SameBut, Record, Fields
<1> QED BY <1>1, <1>3, <1>4, <1>5 DEF SameBut, Fields

\* A protocol error resets the layer, or the port.
LEMMA ProtocolErrorFields ==
  ASSUME NEW s, Record(s), NEW t, t = ProtocolError(s)
  PROVE  /\ SameBut({"pe", "init", "pe_ams", "result"}, s, t)
         /\ s.pe \in {"soft_reset", "await_accept"} =>
              SameBut({"pe"}, s, t) /\ t.pe = "hard_reset"
         /\ s.pe \notin {"soft_reset", "await_accept"} =>
              /\ t.pe = "soft_reset" /\ t.init = TRUE /\ t.pe_ams = FALSE
              /\ t.result = IF s.result = "none" THEN "abandoned" ELSE s.result
BY DEF Record, SameBut, Fields, ProtocolError

\* pe_message_received passes a plain message or a chunk.
LEMMA MessageReceivedFields ==
  ASSUME NEW s, Record(s), NEW t, t = pe_message_received(s)
  PROVE  /\ SameBut({"pe_received", "passed"}, s, t)
         /\ t.pe_received = TRUE
         /\ t.passed = IF s.emsg.kind \in {"plain", "chunk"} THEN Append(s.passed, s.emsg.n) ELSE s.passed
BY DEF Record, SameBut, Fields, pe_message_received

\* What is noted when a message of the PE begins.
Unclaimed(s) == IF s.result = "discarded" THEN {"unclaimed"} ELSE {}
\* prl_send replaces the message of the PE.
LEMMA SendFields ==
  ASSUME NEW s, Record(s), NEW c, NEW t, t = prl_send(s, c)
  PROVE  /\ SameBut({"tx_emsg", "n", "result", "tch_xmit", "mishaps"}, s, t)
         /\ t.tx_emsg = c /\ t.n = s.n + 1 /\ t.result = "none" /\ t.tch_xmit = TRUE
         /\ t.mishaps = s.mishaps \union Unclaimed(s)
<1> DEFINE u == Note(s, s.result = "discarded", "unclaimed")
<1>1. SameBut({"mishaps"}, s, u) /\ u.mishaps = s.mishaps \union Unclaimed(s)
  BY NoteFields DEF Unclaimed
<1>2. t = [u EXCEPT !.tx_emsg = c, !.n = s.n + 1, !.result = "none", !.tch_xmit = TRUE]
  BY DEF prl_send
<1> HIDE DEF u
<1>3. /\ SameBut({"tx_emsg", "n", "result", "tch_xmit"}, u, t)
      /\ t.tx_emsg = c /\ t.n = s.n + 1 /\ t.result = "none" /\ t.tch_xmit = TRUE
  <2> DEFINE m == s.n + 1
  <2>1. t = [u EXCEPT !.tx_emsg = c, !.n = m, !.result = "none", !.tch_xmit = TRUE] /\ Record(u)
    BY <1>1, <1>2 DEF SameBut
  <2>2. t.tx_emsg = c /\ t.n = m
    <3> HIDE DEF m
    <3> QED BY <2>1 DEF Record, Fields
  <2>3. t.result = "none" /\ t.tch_xmit = TRUE
    <3> HIDE DEF m
    <3> QED BY <2>1 DEF Record, Fields
  <2>4. Record(t)
    <3> HIDE DEF m
    <3> QED BY <2>1 DEF Record
  <2>5. \A f \in Fields \ {"tx_emsg", "n", "result", "tch_xmit"} : t[f] = u[f]
    <3> HIDE DEF m
    <3> QED BY <2>1 DEF Record, Fields
  <2> QED BY <2>2, <2>3, <2>4, <2>5 DEF SameBut
<1> QED BY <1>1, <1>3 DEF SameBut, Fields

\* increment_msgid_counter goes on to the next id and notes the stored one.
LEMMA IncrementFields ==
  ASSUME NEW s, Record(s), NEW t, t = increment_msgid_counter(s)
  PROVE  /\ SameBut({"counter", "mishaps"}, s, t)
         /\ t.counter = NextId(s.counter)
         /\ t.mishaps = s.mishaps \union
              (IF s.pe # "soft_reset" /\ NextId(s.counter) = partner.stored THEN {"wrapped"} ELSE {})
<1> DEFINE u == Note(s, s.pe # "soft_reset" /\ NextId(s.counter) = partner.stored, "wrapped")
<1>1. SameBut({"mishaps"}, s, u)
      /\ u.mishaps = s.mishaps \union
           (IF s.pe # "soft_reset" /\ NextId(s.counter) = partner.stored THEN {"wrapped"} ELSE {})
  BY NoteFields
<1>2. t = [u EXCEPT !.counter = NextId(@)]
  BY DEF increment_msgid_counter
<1> HIDE DEF u
<1> QED BY <1>1, <1>2 DEF Record, SameBut, Fields

\* tx waits, and the status is forgotten.
LEMMA TxWaitFields ==
  ASSUME NEW s, Record(s), NEW t, t = tx_wait_entry(s)
  PROVE  SameBut({"tx", "status"}, s, t) /\ t.tx = "wait" /\ t.status = "unset"
BY DEF Record, SameBut, Fields, tx_wait_entry

\* A transmission that a received message ends.
Ends(s) == s.tx_xmit \/ s.status \in {"wait", "discarded"}
TxDiscarded(s, t) ==
  /\ SameBut({"tx", "status", "tx_xmit", "counter", "mishaps", "result", "stray", "pe_ams", "pe"}, s, t)
  /\ t.tx = "wait" /\ t.status = "unset"
  /\ Ends(s) =>
       /\ t.tx_xmit = FALSE /\ t.counter = NextId(s.counter) /\ t.pe_ams = FALSE
       /\ t.mishaps = s.mishaps
            \union (IF s.pe # "soft_reset" /\ NextId(s.counter) = partner.stored
                    THEN {"wrapped"} ELSE {})
            \union (IF s.tx_emsg.kind = "soft" /\ s.result = "none" THEN {"unsynced"} ELSE {})
       /\ t.result = "discarded" /\ t.stray = (s.stray \/ StrayDiscard(s))
       /\ t.pe = IF s.pe = "await_accept" THEN "run" ELSE s.pe
  /\ ~Ends(s) =>
       /\ SameBut({"tx", "status", "mishaps"}, s, t)
       /\ t.mishaps = s.mishaps \union (IF s.status = "failed" THEN {"missed"} ELSE {})
\* The entry of prl_tx_discard_message.
LEMMA TxDiscardFields ==
  ASSUME NEW s, Record(s), NEW t, t = tx_discard_entry(s)
  PROVE  TxDiscarded(s, t)
<1>1. CASE Ends(s)
  <2> DEFINE a == [s EXCEPT !.tx_xmit = FALSE]
             b == increment_msgid_counter(a)
             c == pe_report_discard(b)
  <2>1. SameBut({"tx_xmit"}, s, a) /\ a.tx_xmit = FALSE
    BY DEF Record, SameBut, Fields
  <2>2. /\ SameBut({"counter", "mishaps"}, a, b)
        /\ b.counter = NextId(a.counter)
        /\ b.mishaps = a.mishaps \union
             (IF a.pe # "soft_reset" /\ NextId(a.counter) = partner.stored THEN {"wrapped"} ELSE {})
    BY <2>1, IncrementFields DEF SameBut
  <2>3. /\ SameBut({"mishaps", "result", "stray", "pe_ams", "pe"}, b, c)
        /\ c.mishaps = b.mishaps \union
             (IF b.tx_emsg.kind = "soft" /\ b.result = "none" THEN {"unsynced"} ELSE {})
        /\ c.result = "discarded" /\ c.stray = (b.stray \/ StrayDiscard(b))
        /\ c.pe_ams = FALSE
        /\ c.pe = IF b.pe = "await_accept" THEN "run" ELSE b.pe
    BY <2>2, DiscardFields DEF SameBut
  <2>4. t = tx_wait_entry(c)
    BY <1>1 DEF tx_discard_entry, Ends
  <2> HIDE DEF a, b, c
  <2>5. SameBut({"tx", "status"}, c, t) /\ t.tx = "wait" /\ t.status = "unset"
    BY <2>3, <2>4, TxWaitFields DEF SameBut
  <2> QED BY <1>1, <2>1, <2>2, <2>3, <2>5 DEF SameBut, Fields, TxDiscarded, StrayDiscard
<1>2. CASE ~Ends(s)
  <2> DEFINE a == Note(s, s.status = "failed", "missed")
  <2>1. SameBut({"mishaps"}, s, a)
        /\ a.mishaps = s.mishaps \union (IF s.status = "failed" THEN {"missed"} ELSE {})
    BY NoteFields
  <2>2. t = tx_wait_entry(a)
    BY <1>2 DEF tx_discard_entry, Ends
  <2> HIDE DEF a
  <2>3. SameBut({"tx", "status"}, a, t) /\ t.tx = "wait" /\ t.status = "unset"
    BY <2>1, <2>2, TxWaitFields DEF SameBut
  <2> QED BY <1>2, <2>1, <2>3 DEF SameBut, Fields, TxDiscarded
<1> QED BY <1>1, <1>2

\* prl_reset_msg_ids changes both ids and what was passed.
LEMMA ResetIdsFields ==
  ASSUME NEW s, Record(s), NEW t, t = prl_reset_msg_ids(s)
  PROVE  /\ SameBut({"counter", "rx_id", "passed"}, s, t)
         /\ t.counter = 0 /\ t.rx_id = NoId /\ t.passed = <<>>
BY DEF Record, SameBut, Fields, prl_reset_msg_ids

\* rch waits, and what it received is taken.
LEMMA RchWaitFields ==
  ASSUME NEW s, Record(s), NEW t, t = rch_wait_entry(s)
  PROVE  /\ SameBut({"rch", "rch_received"}, s, t)
         /\ t.rch = "wait" /\ t.rch_received = FALSE
BY DEF Record, SameBut, Fields, rch_wait_entry

\* The entry of rch_pass_up_message.
LEMMA PassUpFields ==
  ASSUME NEW s, Record(s), NEW t, t = rch_pass_up_entry(s)
  PROVE  /\ SameBut({"rch", "rch_received", "pe_received", "passed"}, s, t)
         /\ t.rch = "wait" /\ t.rch_received = FALSE /\ t.pe_received = TRUE
         /\ t.passed = IF s.emsg.kind \in {"plain", "chunk"} THEN Append(s.passed, s.emsg.n) ELSE s.passed
<1> DEFINE u == pe_message_received(s)
<1>1. /\ SameBut({"pe_received", "passed"}, s, u)
      /\ u.pe_received = TRUE
      /\ u.passed = IF s.emsg.kind \in {"plain", "chunk"} THEN Append(s.passed, s.emsg.n) ELSE s.passed
  BY MessageReceivedFields
<1>2. t = rch_wait_entry(u)
  BY DEF rch_pass_up_entry
<1> HIDE DEF u
<1>3. SameBut({"rch", "rch_received"}, u, t) /\ t.rch = "wait" /\ t.rch_received = FALSE
  BY <1>1, <1>2, RchWaitFields DEF SameBut
<1> QED BY <1>1, <1>3 DEF SameBut, Fields

\* The entry of rch_requesting_chunk.
LEMMA RequestingFields ==
  ASSUME NEW s, Record(s), NEW t, t = rch_requesting_entry(s)
  PROVE  /\ SameBut({"rch", "tx_xmit", "out"}, s, t)
         /\ t.rch = "requesting" /\ t.tx_xmit = TRUE /\ t.out = Content("request", 0, s.expected)
BY DEF Record, SameBut, Fields, rch_requesting_entry

\* The states of the PE after an error.
PeGoesOn(s, t) ==
  \/ t.pe = s.pe /\ t.init = s.init /\ s.pe = "run"
  \/ t.pe = "hard_reset" /\ s.pe \in {"soft_reset", "await_accept"} /\ t.init = s.init
  \/ t.pe = "soft_reset" /\ s.pe \notin {"soft_reset", "await_accept"} /\ t.init = TRUE

\* The PE gives up its AMS.
AmsEnds(s, t) == t.pe_ams = s.pe_ams \/ t.pe_ams = FALSE

\* What an error that is reported to the PE may do.
OfMessage(e) == e \in {"ERR_TCH_XMIT", "ERR_TCH_CHUNKED"}
Reported(s, e, t) ==
  /\ SameBut({"result", "pe_ams", "stray", "pe", "init"}, s, t) /\ AmsEnds(s, t)
  /\ OfMessage(e) /\ s.result # "none" => t.stray = TRUE
  /\ ~OfMessage(e) \/ s.result = "none" => t.stray = s.stray
  /\ s.result # "none" => t.result = s.result
  /\ s.result = "none" /\ OfMessage(e) => t.result = "error"
  /\ s.result = "none" /\ ~OfMessage(e) => t.result = "none"
       \/ (t.result = "abandoned" /\ t.pe = "soft_reset" /\ s.pe # "soft_reset")
  /\ PeGoesOn(s, t)
       \/ (e = "ERR_RCH_CHUNK_WAIT_TIMEOUT" /\ t.pe = s.pe /\ t.init = s.init)
\* Each outcome of pe_report_error.
LEMMA ReportFields ==
  ASSUME NEW s, Record(s), NEW e, NEW t, t \in pe_report_error(s, e)
  PROVE  Reported(s, e, t)
<1> DEFINE u == IF OfMessage(e) THEN Told(s, "error") ELSE s
<1>a. OfMessage(e) => u = Told(s, "error")
  OBVIOUS
<1>b. ~OfMessage(e) => u = s
  OBVIOUS
<1>2. \/ e = "ERR_RCH_CHUNK_WAIT_TIMEOUT" /\ t = s
      \/ t = ProtocolError(u)
      \/ s.pe = "run" /\ t = [u EXCEPT !.pe_ams = FALSE]
  BY DEF pe_report_error, OfMessage
<1> HIDE DEF u
<1>1. /\ SameBut({"result", "pe_ams", "stray"}, s, u) /\ AmsEnds(s, u)
      /\ OfMessage(e) /\ s.result # "none" => u.stray = TRUE
      /\ ~OfMessage(e) \/ s.result = "none" => u.stray = s.stray
      /\ u.result = IF s.result = "none" /\ OfMessage(e) THEN "error" ELSE s.result
  <2>1. CASE OfMessage(e)
    <3>1. u = Told(s, "error")
      BY <1>a, <2>1
    <3>2. /\ SameBut({"result", "pe_ams", "stray"}, s, u) /\ AmsEnds(s, u)
          /\ s.result = "none" => u.result = "error" /\ u.stray = s.stray
          /\ s.result # "none" => u.result = s.result /\ u.stray = TRUE
      BY <3>1 DEF Told, Record, SameBut, Fields, AmsEnds
    <3> QED BY <3>2, <2>1
  <2>2. CASE ~OfMessage(e)
    BY <1>b, <2>2 DEF SameBut, AmsEnds
  <2> QED BY <2>1, <2>2
<1>3. CASE e = "ERR_RCH_CHUNK_WAIT_TIMEOUT" /\ t = s
  BY <1>3 DEF SameBut, OfMessage, PeGoesOn, Reported, AmsEnds
<1>4. CASE t = ProtocolError(u)
  <2>1. Record(u)
    BY <1>1 DEF SameBut
  <2>2. /\ SameBut({"pe", "init", "pe_ams", "result"}, u, t)
        /\ u.pe \in {"soft_reset", "await_accept"} =>
             SameBut({"pe"}, u, t) /\ t.pe = "hard_reset"
        /\ u.pe \notin {"soft_reset", "await_accept"} =>
             /\ t.pe = "soft_reset" /\ t.init = TRUE /\ t.pe_ams = FALSE
             /\ t.result = IF u.result = "none" THEN "abandoned" ELSE u.result
    BY <2>1, <1>4, ProtocolErrorFields
  <2> QED BY <1>1, <2>2 DEF SameBut, Fields, PeGoesOn, Reported, AmsEnds
<1>5. CASE s.pe = "run" /\ t = [u EXCEPT !.pe_ams = FALSE]
  <2>1. SameBut({"pe_ams"}, u, t) /\ t.pe_ams = FALSE
    BY <1>1, <1>5 DEF SameBut, Record, Fields
  <2> QED BY <1>1, <1>5, <2>1 DEF SameBut, Fields, PeGoesOn, Reported, AmsEnds
<1> QED BY <1>2, <1>3, <1>4, <1>5

TchTook(s, t) ==
  /\ SameBut({"tch", "tch_received", "rch_received", "tch_xmit",
              "mishaps", "result", "stray", "pe_ams", "pe"}, s, t)
  /\ t.tch = "received" /\ t.tch_received = FALSE /\ t.rch_received = TRUE
  /\ t.tch_xmit = FALSE
  /\ ~s.tch_xmit => SameBut({"tch", "tch_received", "rch_received", "tch_xmit"}, s, t)
  /\ s.tch_xmit =>
       /\ t.mishaps = s.mishaps \union
            (IF s.tx_emsg.kind = "soft" /\ s.result = "none" THEN {"unsynced"} ELSE {})
       /\ t.result = "discarded" /\ t.stray = (s.stray \/ StrayDiscard(s))
       /\ t.pe_ams = FALSE
       /\ t.pe = IF s.pe = "await_accept" THEN "run" ELSE s.pe
\* The entry of tch_message_received, with the discard of a requested message.
LEMMA TchReceivedFields ==
  ASSUME NEW s, Record(s), NEW t, t = tch_received_entry(s)
  PROVE  TchTook(s, t)
<1> DEFINE u == [s EXCEPT !.tch = "received", !.tch_received = FALSE,
                          !.rch_received = TRUE, !.tch_xmit = FALSE]
<1>1. Record(u)
  BY DEF Record
<1>2. \A f \in Fields \ {"tch", "tch_received", "rch_received", "tch_xmit"} : u[f] = s[f]
  BY DEF Record, Fields
<1>3. u.tch = "received" /\ u.tch_received = FALSE /\ u.rch_received = TRUE /\ u.tch_xmit = FALSE
  BY DEF Record, Fields
<1>4. t = IF s.tch_xmit THEN pe_report_discard(u) ELSE u
  BY DEF tch_received_entry
<1> HIDE DEF u
<1>5. CASE s.tch_xmit
  <2>1. /\ SameBut({"mishaps", "result", "stray", "pe_ams", "pe"}, u, t)
        /\ t.mishaps = u.mishaps \union
             (IF u.tx_emsg.kind = "soft" /\ u.result = "none" THEN {"unsynced"} ELSE {})
        /\ t.result = "discarded" /\ t.stray = (u.stray \/ StrayDiscard(u))
        /\ t.pe_ams = FALSE
        /\ t.pe = IF u.pe = "await_accept" THEN "run" ELSE u.pe
    BY <1>1, <1>4, <1>5, DiscardFields
  <2> QED BY <1>2, <1>3, <1>5, <2>1 DEF SameBut, Fields, TchTook, StrayDiscard
<1>6. CASE ~s.tch_xmit
  BY <1>1, <1>2, <1>3, <1>4, <1>6 DEF SameBut, Fields, TchTook
<1> QED BY <1>5, <1>6

\* The layer is as after its initialisation.
Fresh(s) ==
  /\ s.tx = "wait" /\ s.status = "unset" /\ s.tx_xmit = FALSE /\ s.ams = FALSE
  /\ s.complete = FALSE /\ s.error = FALSE /\ s.counter = 0 /\ s.rx_id = NoId
  /\ s.rch = "wait" /\ s.rch_received = FALSE
  /\ s.tch = "wait" /\ s.tch_xmit = FALSE /\ s.tch_received = FALSE
  /\ s.passed = <<>> /\ s.init = FALSE
FreshFields ==
  {"tx", "status", "tx_xmit", "ams", "complete", "error", "counter", "rx_id", "rch",
   "rch_received", "tch", "tch_xmit", "tch_received", "passed", "init"}
\* prl_init leaves the layer fresh and what belongs to the PE as it is.
LEMMA InitFields ==
  ASSUME NEW s, Record(s), NEW t, t = prl_init(s)
  PROVE  SameBut(FreshFields, s, t) /\ Fresh(t)
<1> DEFINE a == prl_reset_msg_ids(s)
           b == tx_wait_entry(a)
           c == tch_wait_entry(b)
           d == rch_wait_entry(c)
<1>1. SameBut({"counter", "rx_id", "passed"}, s, a)
      /\ a.counter = 0 /\ a.rx_id = NoId /\ a.passed = <<>>
  BY ResetIdsFields
<1>2. SameBut({"tx", "status"}, a, b) /\ b.tx = "wait" /\ b.status = "unset"
  BY <1>1, TxWaitFields DEF SameBut
<1>3. SameBut({"tch"}, b, c) /\ c.tch = "wait"
  <2>1. Record(b)
    BY <1>2 DEF SameBut
  <2> HIDE DEF b
  <2> QED BY <2>1 DEF SameBut, Record, Fields, tch_wait_entry
<1>4. SameBut({"rch", "rch_received"}, c, d) /\ d.rch = "wait" /\ d.rch_received = FALSE
  BY <1>3, RchWaitFields DEF SameBut
<1>5. t = [d EXCEPT !.tx_xmit = FALSE, !.ams = FALSE, !.complete = FALSE, !.error = FALSE,
                    !.tch_xmit = FALSE, !.tch_received = FALSE, !.init = FALSE]
  BY DEF prl_init
<1> HIDE DEF a, b, c, d
<1>6. Record(t)
  BY <1>4, <1>5 DEF SameBut, Record
<1>7. \A f \in Fields \ {"tx_xmit", "ams", "complete", "error", "tch_xmit", "tch_received", "init"} :
        t[f] = d[f]
  BY <1>4, <1>5 DEF SameBut, Record, Fields
<1>8. /\ t.tx_xmit = FALSE /\ t.ams = FALSE /\ t.complete = FALSE /\ t.error = FALSE
      /\ t.tch_xmit = FALSE /\ t.tch_received = FALSE /\ t.init = FALSE
  BY <1>4, <1>5 DEF SameBut, Record, Fields
<1>9. \A f \in Fields \ FreshFields : t[f] = s[f]
  BY <1>1, <1>2, <1>3, <1>4, <1>7 DEF SameBut, Fields, FreshFields
<1>10. Fresh(t)
  BY <1>1, <1>2, <1>3, <1>4, <1>7, <1>8 DEF SameBut, Fields, Fresh
<1> QED BY <1>6, <1>9, <1>10 DEF SameBut

\* tch, told of an outcome, looks at a message that was received.
LEMMA AfterToldFields ==
  ASSUME NEW s, Record(s), NEW t, t = AfterTold(s)
  PROVE  /\ s.tch_received => t = tch_received_entry(s)
         /\ ~s.tch_received => SameBut({"tch"}, s, t) /\ t.tch = "wait"
<1>1. s.tch_received => t = tch_received_entry(s)
  BY DEF AfterTold
<1>2. ASSUME ~s.tch_received PROVE SameBut({"tch"}, s, t) /\ t.tch = "wait"
  BY <1>2 DEF AfterTold, tch_wait_entry, SameBut, Record, Fields
<1> QED BY <1>1, <1>2

\* What tch does with a message that was received, no message of the PE waiting.
Flags == {"tch", "tch_received", "rch_received", "tch_xmit"}
Released(s, t) ==
  /\ s.tch_received => /\ t.tch = "received" /\ t.tch_received = FALSE
                       /\ t.rch_received = TRUE /\ t.tch_xmit = FALSE
  /\ ~s.tch_received => /\ t.tch = "wait" /\ t.tch_received = s.tch_received
                        /\ t.rch_received = s.rch_received /\ t.tch_xmit = s.tch_xmit
\* What tch does once the PE is told.
LEMMA ReleasedFields ==
  ASSUME NEW s, Record(s), ~s.tch_xmit, NEW t, t = AfterTold(s)
  PROVE  SameBut(Flags, s, t) /\ Released(s, t)
<1>1. CASE s.tch_received
  <2>1. t = tch_received_entry(s)
    BY <1>1, AfterToldFields
  <2>2. /\ SameBut({"tch", "tch_received", "rch_received", "tch_xmit"}, s, t)
        /\ t.tch = "received" /\ t.tch_received = FALSE /\ t.rch_received = TRUE
        /\ t.tch_xmit = FALSE
    BY <2>1, TchReceivedFields DEF TchTook
  <2> QED BY <1>1, <2>2 DEF Released, Flags
<1>2. CASE ~s.tch_received
  <2>1. SameBut({"tch"}, s, t) /\ t.tch = "wait"
    BY <1>2, AfterToldFields
  <2> QED BY <1>2, <2>1 DEF Released, Flags, SameBut, Fields
<1> QED BY <1>1, <1>2

TchSent(s, t) ==
  /\ SameBut(Flags \union {"result", "pe_ams", "stray"}, s, t) /\ AmsEnds(s, t)
  /\ Released(s, t)
  /\ s.result = "none" => t.result = "sent" /\ t.stray = s.stray
  /\ s.result # "none" => t.result = s.result /\ t.stray = TRUE
\* The entry of tch_message_sent.
LEMMA SentFields ==
  ASSUME NEW s, Record(s), ~s.tch_xmit, NEW t, t = tch_sent_entry(s)
  PROVE  TchSent(s, t)
<1> DEFINE u == Told(s, "sent")
<1>1. /\ SameBut({"result", "pe_ams", "stray"}, s, u) /\ AmsEnds(s, u)
      /\ s.result = "none" => u.result = "sent" /\ u.stray = s.stray
      /\ s.result # "none" => u.result = s.result /\ u.stray = TRUE
  BY DEF Told, Record, SameBut, Fields, AmsEnds
<1>2. t = AfterTold(u)
  BY DEF tch_sent_entry, pe_message_sent
<1> HIDE DEF u
<1>3. Record(u) /\ ~u.tch_xmit
  BY <1>1 DEF SameBut, Fields
<1>4. SameBut(Flags, u, t) /\ Released(u, t)
  BY <1>2, <1>3, ReleasedFields
<1>5. Released(s, t)
  BY <1>1, <1>4 DEF Released, SameBut, Fields
<1> QED BY <1>1, <1>4, <1>5 DEF SameBut, Fields, Flags, TchSent, AmsEnds

TchReported(s, t) ==
  /\ SameBut(Flags \union {"result", "pe_ams", "stray", "pe", "init"}, s, t) /\ AmsEnds(s, t)
  /\ Released(s, t) /\ PeGoesOn(s, t)
  /\ s.result = "none" => t.result = "error" /\ t.stray = s.stray
  /\ s.result # "none" => t.result = s.result /\ t.stray = TRUE
\* Each outcome of the entry of tch_report_error.
LEMMA TchReportFields ==
  ASSUME NEW s, Record(s), ~s.tch_xmit, NEW e, OfMessage(e), NEW t, t \in tch_report_entry(s, e)
  PROVE  TchReported(s, t)
<1>1. PICK u \in pe_report_error(s, e) : t = AfterTold(u)
  BY DEF tch_report_entry
<1>2. /\ SameBut({"result", "pe_ams", "stray", "pe", "init"}, s, u) /\ AmsEnds(s, u)
      /\ PeGoesOn(s, u)
      /\ s.result = "none" => u.result = "error" /\ u.stray = s.stray
      /\ s.result # "none" => u.result = s.result /\ u.stray = TRUE
  <2>1. e # "ERR_RCH_CHUNK_WAIT_TIMEOUT"
    BY DEF OfMessage
  <2>2. Reported(s, e, u)
    BY ReportFields
  <2> QED BY <2>1, <2>2 DEF Reported
<1>3. Record(u) /\ ~u.tch_xmit
  BY <1>2 DEF SameBut, Fields
<1>4. SameBut(Flags, u, t) /\ Released(u, t)
  BY <1>1, <1>3, ReleasedFields
<1>5. Released(s, t)
  BY <1>2, <1>4 DEF Released, SameBut, Fields
<1>6. PeGoesOn(s, t)
  BY <1>2, <1>4 DEF PeGoesOn, SameBut, Fields, Flags
<1> QED BY <1>2, <1>4, <1>5, <1>6 DEF SameBut, Fields, Flags, TchReported, AmsEnds

RchReported(s, e, t) ==
  /\ AmsEnds(s, t)
  /\ SameBut({"rch", "rch_received", "pe_received", "passed",
              "result", "pe_ams", "pe", "init"}, s, t)
  /\ t.rch = "report" /\ t.rch_received = FALSE
  /\ s.rch_received => t.pe_received = TRUE
  /\ ~s.rch_received => t.pe_received = s.pe_received
  /\ t.passed = IF s.rch_received /\ s.emsg.kind \in {"plain", "chunk"}
                THEN Append(s.passed, s.emsg.n) ELSE s.passed
  /\ PeGoesOn(s, t)
       \/ (t.pe = s.pe /\ t.init = s.init /\ ~s.rch_received
             /\ e = "ERR_RCH_CHUNK_WAIT_TIMEOUT")
  /\ s.result # "none" => t.result = s.result
  /\ s.result = "none" => t.result = "none"
       \/ (t.result = "abandoned" /\ t.pe = "soft_reset" /\ s.pe # "soft_reset")
\* Each outcome of the entry of rch_report_error.
LEMMA RchReportFields ==
  ASSUME NEW s, Record(s), NEW e, ~OfMessage(e), NEW t, t \in rch_report_entry(s, e)
  PROVE  RchReported(s, e, t)
<1> DEFINE a == [s EXCEPT !.rch = "report", !.rch_received = FALSE]
           b == IF s.rch_received THEN pe_message_received(a) ELSE a
           f == IF s.rch_received THEN "ERR_RCH_MSG_REC" ELSE e
<1>1. SameBut({"rch", "rch_received"}, s, a) /\ a.rch = "report" /\ a.rch_received = FALSE
  BY DEF SameBut, Record, Fields
<1>2. t \in pe_report_error(b, f)
  BY DEF rch_report_entry
<1> HIDE DEF a
<1>3. /\ SameBut({"pe_received", "passed"}, a, b)
      /\ s.rch_received => b.pe_received = TRUE
      /\ ~s.rch_received => b.pe_received = a.pe_received
      /\ b.passed = IF s.rch_received /\ a.emsg.kind \in {"plain", "chunk"}
                    THEN Append(a.passed, a.emsg.n) ELSE a.passed
  <2>1. CASE s.rch_received
    <3>1. b = pe_message_received(a)
      BY <2>1
    <3>2. Record(a)
      BY <1>1 DEF SameBut
    <3> HIDE DEF b
    <3> QED BY <2>1, <3>1, <3>2, MessageReceivedFields
  <2>2. CASE ~s.rch_received
    BY <1>1, <2>2 DEF SameBut
  <2> QED BY <2>1, <2>2
<1>4. ~OfMessage(f) /\ (f = "ERR_RCH_CHUNK_WAIT_TIMEOUT" => ~s.rch_received /\ e = f)
  BY DEF OfMessage
<1> HIDE DEF b, f
<1>5. Record(b)
  BY <1>3 DEF SameBut
<1>a. Reported(b, f, t)
  BY <1>2, <1>5, ReportFields
<1>6. /\ SameBut({"result", "pe_ams", "stray", "pe", "init"}, b, t)
      /\ t.stray = b.stray /\ AmsEnds(b, t)
  BY <1>a, <1>4 DEF Reported
<1>7. /\ PeGoesOn(b, t)
           \/ (t.pe = b.pe /\ t.init = b.init /\ ~s.rch_received
                 /\ e = "ERR_RCH_CHUNK_WAIT_TIMEOUT")
  BY <1>a, <1>4 DEF Reported
<1>8. /\ b.result # "none" => t.result = b.result
      /\ b.result = "none" => t.result = "none"
           \/ (t.result = "abandoned" /\ t.pe = "soft_reset" /\ b.pe # "soft_reset")
  BY <1>a, <1>4 DEF Reported
<1>9. /\ PeGoesOn(s, t)
           \/ (t.pe = s.pe /\ t.init = s.init /\ ~s.rch_received
                 /\ e = "ERR_RCH_CHUNK_WAIT_TIMEOUT")
  BY <1>1, <1>3, <1>7 DEF PeGoesOn, SameBut, Fields
<1>10. /\ s.result # "none" => t.result = s.result
       /\ s.result = "none" => t.result = "none"
            \/ (t.result = "abandoned" /\ t.pe = "soft_reset" /\ s.pe # "soft_reset")
  BY <1>1, <1>3, <1>8 DEF SameBut, Fields
<1>11. SameBut({"rch", "rch_received", "pe_received", "passed",
                     "result", "pe_ams", "pe", "init"}, s, t)
  BY <1>1, <1>3, <1>6 DEF SameBut, Fields
<1>12. /\ t.rch = "report" /\ t.rch_received = FALSE
       /\ s.rch_received => t.pe_received = TRUE
       /\ ~s.rch_received => t.pe_received = s.pe_received
       /\ t.passed = IF s.rch_received /\ s.emsg.kind \in {"plain", "chunk"}
                       THEN Append(s.passed, s.emsg.n) ELSE s.passed
  BY <1>1, <1>3, <1>6 DEF SameBut, Fields
<1>13. AmsEnds(s, t)
  BY <1>1, <1>3, <1>6 DEF SameBut, Fields, AmsEnds
<1> QED BY <1>9, <1>10, <1>11, <1>12, <1>13 DEF RchReported

-----------------------------------------------------------------------------
(***************************************************************************)
(* What the actions change: the PE.                                        *)
(***************************************************************************)
PeTurn == pc = "pe" /\ pc' = "rx" /\ rxq' = rxq /\ phy' = phy /\ partner' = partner
\* The PE may have read or cleared that a message was discarded.
FlagRead(s, t) == t.result = s.result \/ (s.result = "discarded" /\ t.result = "abandoned")
PeEffect(s) ==
  /\ PeTurn /\ port'.pe_received = FALSE /\ FlagRead(s, port')
  /\ ~s.init => SameBut({"pe_received", "result"}, s, port')
  /\ s.init => SameBut(FreshFields \union {"pe_received", "result"}, s, port') /\ Fresh(port')

\* The end of the turn of the PE, with the prl_init of prl_run.
LEMMA PeRunsStep == ASSUME NEW s, Record(s), PeRuns(s) PROVE PeEffect(s)
<1> DEFINE u == [s EXCEPT !.pe_received = FALSE]
<1>1. SameBut({"pe_received"}, s, u) /\ u.pe_received = FALSE
  BY DEF Record, SameBut, Fields
<1>2. PICK t \in DiscardRead(u) : port' = IF t.init THEN prl_init(t) ELSE t
  BY DEF PeRuns
<1>3. PeTurn
  BY DEF PeRuns, PeTurn
<1> HIDE DEF u
<1>4. SameBut({"pe_received", "result"}, s, t) /\ t.pe_received = FALSE /\ FlagRead(s, t)
  <2>1. CASE t = u
    BY <1>1, <2>1 DEF SameBut, Fields, FlagRead
  <2>2. CASE t = [u EXCEPT !.result = IF @ = "discarded" THEN "abandoned" ELSE @]
    <3>1. SameBut({"result"}, u, t) /\ FlagRead(u, t)
      BY <1>1, <2>2 DEF SameBut, Record, Fields, FlagRead
    <3> QED BY <1>1, <3>1 DEF SameBut, Fields, FlagRead
  <2> QED BY <2>1, <2>2 DEF DiscardRead
<1>5. s.init <=> t.init
  BY <1>4 DEF SameBut, Fields
<1>6. CASE s.init
  <2>1. SameBut(FreshFields, t, port') /\ Fresh(port')
    BY <1>2, <1>4, <1>5, <1>6, InitFields DEF SameBut
  <2> QED BY <1>3, <1>4, <1>6, <2>1 DEF PeEffect, SameBut, Fields, FreshFields, FlagRead
<1>7. CASE ~s.init
  <2>1. port' = t
    BY <1>2, <1>5, <1>7
  <2> QED BY <1>3, <1>4, <1>7, <2>1 DEF PeEffect
<1> QED BY <1>6, <1>7

PeSendEffect ==
  /\ PeTurn /\ port.pe = "run" /\ ~port.init /\ port.result # "none"
  /\ port.pe_received \/ (port.rch = "wait" /\ port.tch = "wait")
  /\ SameBut({"pe_received", "tx_emsg", "n", "result", "tch_xmit", "mishaps", "pe_ams"}, port, port')
  /\ port'.pe_received = FALSE /\ port'.n = port.n + 1 /\ port'.result = "none"
  /\ port'.mishaps = port.mishaps \union Unclaimed(port)
  /\ port'.tch_xmit = TRUE /\ port'.pe_ams \in BOOLEAN
  /\ port'.tx_emsg \in {Content("plain", port.n + 1, 0), Content("chunk", port.n + 1, 0)}
\* A message of the PE is requested.
LEMMA PeSendStep ==
  ASSUME Record(port), pe_send_msg
  PROVE  PeSendEffect
<1> USE DEF PeSendEffect
<1>1. PICK kind \in {"plain", "chunk"}, ams \in BOOLEAN :
        /\ port.pe_received \/ ~prl_is_busy(port)
        /\ PeRuns([prl_send(port, Content(kind, port.n + 1, 0)) EXCEPT !.pe_ams = ams])
  BY DEF pe_send_msg
<1> DEFINE c == Content(kind, port.n + 1, 0)
           a == prl_send(port, c)
           s == [a EXCEPT !.pe_ams = ams]
<1>2. c \in {Content("plain", port.n + 1, 0), Content("chunk", port.n + 1, 0)}
  OBVIOUS
<1> HIDE DEF c
<1>3. /\ SameBut({"tx_emsg", "n", "result", "tch_xmit", "mishaps"}, port, a)
      /\ a.tx_emsg = c /\ a.n = port.n + 1 /\ a.result = "none" /\ a.tch_xmit = TRUE
      /\ a.mishaps = port.mishaps \union Unclaimed(port)
  BY SendFields
<1>4. PeRuns(s)
  BY <1>1 DEF c
<1> HIDE DEF a
<1>5. SameBut({"pe_ams"}, a, s) /\ s.pe_ams = ams
  BY <1>3 DEF SameBut, Record, Fields
<1> HIDE DEF s
<1>6. PeEffect(s)
  BY <1>4, <1>5, PeRunsStep DEF SameBut
<1>7. port.pe = "run" /\ ~port.init /\ port.result # "none"
  BY DEF pe_send_msg, MaySend
<1>8. ~s.init
  BY <1>3, <1>5, <1>7 DEF SameBut, Fields
<1>9. SameBut({"pe_received", "result"}, s, port') /\ FlagRead(s, port')
      /\ port'.pe_received = FALSE /\ PeTurn
  BY <1>6, <1>8 DEF PeEffect
<1>10. port.pe_received \/ (port.rch = "wait" /\ port.tch = "wait")
  BY <1>1 DEF prl_is_busy
<1>11. SameBut({"pe_received", "tx_emsg", "n", "result", "tch_xmit", "mishaps", "pe_ams"}, port, port')
  BY <1>3, <1>5, <1>9 DEF SameBut, Fields
<1>12. /\ port'.n = port.n + 1 /\ port'.result = "none" /\ port'.tch_xmit = TRUE
       /\ port'.mishaps = port.mishaps \union Unclaimed(port)
       /\ port'.pe_ams = ams /\ port'.tx_emsg = c
  BY <1>3, <1>5, <1>9 DEF SameBut, Fields, FlagRead
<1> QED BY <1>2, <1>7, <1>9, <1>10, <1>11, <1>12

PeSendResetEffect ==
  /\ PeTurn /\ port.pe = "run" /\ port.result # "none"
  /\ SameBut(FreshFields \union {"pe_received", "pe", "pe_ams", "result"}, port, port')
  /\ FlagRead(port, port')
  /\ Fresh(port') /\ port'.pe_received = FALSE /\ port'.pe = "soft_reset"
  /\ port'.pe_ams = FALSE
\* The PE resets the layer.
LEMMA PeSendResetStep ==
  ASSUME Record(port), pe_send_soft_reset
  PROVE  PeSendResetEffect
<1> USE DEF PeSendResetEffect
<1> DEFINE s == ProtocolError(port)
<1>1. PeRuns(s) /\ port.pe = "run" /\ port.result # "none"
  BY DEF pe_send_soft_reset
<1>2. /\ SameBut({"pe", "init", "pe_ams", "result"}, port, s)
      /\ s.pe = "soft_reset" /\ s.init = TRUE /\ s.pe_ams = FALSE
      /\ s.result = IF port.result = "none" THEN "abandoned" ELSE port.result
  BY <1>1, ProtocolErrorFields
<1> HIDE DEF s
<1>3. PeEffect(s)
  BY <1>1, <1>2, PeRunsStep DEF SameBut
<1>4. /\ PeTurn /\ port'.pe_received = FALSE
      /\ SameBut(FreshFields \union {"pe_received", "result"}, s, port') /\ Fresh(port')
      /\ FlagRead(s, port')
  BY <1>2, <1>3 DEF PeEffect
<1>5. SameBut(FreshFields \union {"pe_received", "pe", "pe_ams", "result"}, port, port')
      /\ FlagRead(port, port')
  BY <1>1, <1>2, <1>4 DEF SameBut, Fields, FreshFields, FlagRead
<1>6. port'.pe = "soft_reset" /\ port'.pe_ams = FALSE
  BY <1>2, <1>4 DEF SameBut, Fields, FreshFields
<1> QED BY <1>1, <1>4, <1>5, <1>6

PeResetRunEffect ==
  /\ PeTurn /\ port.pe = "soft_reset" /\ ~port.init /\ port.result # "none"
  /\ SameBut({"pe_received", "tx_emsg", "n", "result", "tch_xmit", "mishaps", "pe"}, port, port')
  /\ port'.pe_received = FALSE /\ port'.n = port.n + 1 /\ port'.result = "none"
  /\ port'.mishaps = port.mishaps \union Unclaimed(port)
  /\ port'.tch_xmit = TRUE /\ port'.pe = "await_accept"
  /\ port'.tx_emsg = Content("soft", port.n + 1, 0)
\* The PE requests its Soft_Reset.
LEMMA PeResetRunStep ==
  ASSUME Record(port), pe_send_soft_reset_run
  PROVE  PeResetRunEffect
<1> USE DEF PeResetRunEffect
<1> DEFINE c == Content("soft", port.n + 1, 0)
           a == prl_send(port, c)
           s == [a EXCEPT !.pe = "await_accept"]
<1> HIDE DEF c
<1>3. /\ SameBut({"tx_emsg", "n", "result", "tch_xmit", "mishaps"}, port, a)
      /\ a.tx_emsg = c /\ a.n = port.n + 1 /\ a.result = "none" /\ a.tch_xmit = TRUE
      /\ a.mishaps = port.mishaps \union Unclaimed(port)
  BY SendFields
<1>4. PeRuns(s) /\ port.pe = "soft_reset" /\ ~port.init /\ port.result # "none"
  BY DEF c, pe_send_soft_reset_run, MaySend
<1> HIDE DEF a
<1>5. SameBut({"pe"}, a, s) /\ s.pe = "await_accept"
  BY <1>3 DEF SameBut, Record, Fields
<1> HIDE DEF s
<1>6. PeEffect(s)
  BY <1>4, <1>5, PeRunsStep DEF SameBut
<1>8. ~s.init
  BY <1>3, <1>4, <1>5 DEF SameBut, Fields
<1>9. SameBut({"pe_received", "result"}, s, port') /\ FlagRead(s, port')
      /\ port'.pe_received = FALSE /\ PeTurn
  BY <1>6, <1>8 DEF PeEffect
<1>11. SameBut({"pe_received", "tx_emsg", "n", "result", "tch_xmit", "mishaps", "pe"}, port, port')
  BY <1>3, <1>5, <1>9 DEF SameBut, Fields
<1>12. /\ port'.n = port.n + 1 /\ port'.result = "none" /\ port'.tch_xmit = TRUE
       /\ port'.mishaps = port.mishaps \union Unclaimed(port)
       /\ port'.pe = "await_accept" /\ port'.tx_emsg = c
  BY <1>3, <1>5, <1>9 DEF SameBut, Fields, FlagRead
<1> QED BY <1>4, <1>9, <1>11, <1>12 DEF c

\* The steps that at most change the state of the PE.
PeWaits == pe_idle \/ pe_soft_reset_accepted \/ pe_sender_response_timeout
PeWaitsEffect ==
  /\ PeTurn /\ port'.pe_received = FALSE
  /\ \/ port'.pe = port.pe /\ port.pe # "hard_reset"
     \/ port.pe = "await_accept" /\ port'.pe = "run" /\ port.result = "sent"
     \/ port.pe = "await_accept" /\ port'.pe = "hard_reset"
  /\ FlagRead(port, port')
  /\ ~port.init => SameBut({"pe_received", "pe", "result"}, port, port')
  /\ port.init => SameBut(FreshFields \union {"pe_received", "pe", "result"}, port, port')
                  /\ Fresh(port')
\* The PE goes on without a message.
LEMMA PeWaitsStep ==
  ASSUME Record(port), PeWaits
  PROVE  PeWaitsEffect
<1> USE DEF PeWaitsEffect
<1>1. PICK s : /\ PeRuns(s) /\ SameBut({"pe"}, port, s)
               /\ \/ s.pe = port.pe /\ port.pe # "hard_reset"
                  \/ port.pe = "await_accept" /\ s.pe = "run" /\ port.result = "sent"
                  \/ port.pe = "await_accept" /\ s.pe = "hard_reset"
  <2>1. CASE pe_idle
    <3>1. SameBut({"pe"}, port, port)
      BY DEF SameBut
    <3> QED BY <2>1, <3>1 DEF pe_idle
  <2>2. CASE pe_soft_reset_accepted
    <3> DEFINE s == [port EXCEPT !.pe = "run"]
    <3>1. SameBut({"pe"}, port, s) /\ s.pe = "run"
      BY DEF SameBut, Record, Fields
    <3> HIDE DEF s
    <3>2. PeRuns(s) /\ port.pe = "await_accept" /\ port.result = "sent"
      BY <2>2 DEF pe_soft_reset_accepted, s
    <3> QED BY <3>1, <3>2
  <2>3. CASE pe_sender_response_timeout
    <3> DEFINE s == [port EXCEPT !.pe = "hard_reset"]
    <3>1. SameBut({"pe"}, port, s) /\ s.pe = "hard_reset"
      BY DEF SameBut, Record, Fields
    <3> HIDE DEF s
    <3>2. PeRuns(s) /\ port.pe = "await_accept"
      BY <2>3 DEF pe_sender_response_timeout, s
    <3> QED BY <3>1, <3>2
  <2> QED BY <2>1, <2>2, <2>3 DEF PeWaits
<1>2. PeEffect(s)
  BY <1>1, PeRunsStep DEF SameBut
<1>3. port'.pe = s.pe /\ PeTurn /\ port'.pe_received = FALSE /\ FlagRead(port, port')
  BY <1>1, <1>2 DEF PeEffect, SameBut, Fields, FreshFields, FlagRead
<1>4. port.init <=> s.init
  BY <1>1 DEF SameBut, Fields
<1>5. ASSUME ~port.init PROVE SameBut({"pe_received", "pe", "result"}, port, port')
  BY <1>1, <1>2, <1>4, <1>5 DEF PeEffect, SameBut, Fields
<1>6. ASSUME port.init
      PROVE  SameBut(FreshFields \union {"pe_received", "pe", "result"}, port, port') /\ Fresh(port')
  BY <1>1, <1>2, <1>4, <1>6 DEF PeEffect, SameBut, Fields, FreshFields
<1> QED BY <1>1, <1>3, <1>5, <1>6

-----------------------------------------------------------------------------
(***************************************************************************)
(* What the actions change: rx.                                            *)
(***************************************************************************)
RxEffect == /\ port.pe # "hard_reset" /\ pc = "rx" /\ pc' = "rch" /\ phy' = phy /\ partner' = partner
            /\ ~port.rch_received /\ rxq # <<>> /\ rxq' = Tail(rxq)

RxSoftResetEffect ==
  /\ RxEffect /\ Received.content.kind = "soft"
  /\ SameBut({"emsg", "counter", "rx_id", "passed", "tx", "status", "tch", "rch",
              "rch_received", "tx_emsg", "n", "result", "tch_xmit", "mishaps", "pe", "pe_ams"},
             port, port')
  /\ port'.emsg = Received.content /\ port'.counter = 0 /\ port'.rx_id = NoId
  /\ port'.passed = <<>> /\ port'.tx = "wait" /\ port'.status = "unset"
  /\ port'.tch = "wait" /\ port'.rch = "wait" /\ port'.rch_received = FALSE
  /\ port'.tx_emsg = Content("plain", port.n + 1, 0) /\ port'.n = port.n + 1
  /\ port'.result = "none" /\ port'.tch_xmit = TRUE
  /\ port'.pe = "run" /\ port'.pe_ams = FALSE
  /\ port'.mishaps = port.mishaps \union Unclaimed(port)
\* A Soft_Reset is taken, and Accept requested.
LEMMA RxSoftResetStep ==
  ASSUME Record(port), rx_soft_reset
  PROVE  RxSoftResetEffect
<1> USE DEF RxSoftResetEffect
<1> DEFINE m == Received.content
           a == [port EXCEPT !.emsg = m]
           b == prl_reset_msg_ids(a)
           c == tx_wait_entry(b)
           d == tch_wait_entry(c)
           e == rch_wait_entry(d)
           f == prl_send(e, Content("plain", e.n + 1, 0))
<1>1. /\ RxEffect /\ m.kind = "soft" /\ port' = [f EXCEPT !.pe = "run", !.pe_ams = FALSE]
  BY DEF rx_soft_reset, MessageArrives, RxTurn, Turn, RxEffect, pe_got_soft_reset
<1>2. SameBut({"emsg"}, port, a) /\ a.emsg = m
  BY DEF SameBut, Record, Fields
<1> HIDE DEF a
<1>3. SameBut({"counter", "rx_id", "passed"}, a, b) /\ b.counter = 0 /\ b.rx_id = NoId /\ b.passed = <<>>
  BY <1>2, ResetIdsFields DEF SameBut
<1> HIDE DEF b
<1>4. SameBut({"tx", "status"}, b, c) /\ c.tx = "wait" /\ c.status = "unset"
  BY <1>3, TxWaitFields DEF SameBut
<1> HIDE DEF c
<1>5. SameBut({"tch"}, c, d) /\ d.tch = "wait"
  BY <1>4 DEF SameBut, Record, Fields, tch_wait_entry
<1> HIDE DEF d
<1>6. SameBut({"rch", "rch_received"}, d, e) /\ e.rch = "wait" /\ e.rch_received = FALSE
  BY <1>5, RchWaitFields DEF SameBut
<1> HIDE DEF e
<1>7. /\ SameBut({"tx_emsg", "n", "result", "tch_xmit", "mishaps"}, e, f)
      /\ f.mishaps = e.mishaps \union Unclaimed(e)
      /\ f.tx_emsg = Content("plain", e.n + 1, 0) /\ f.n = e.n + 1
      /\ f.result = "none" /\ f.tch_xmit = TRUE
  <2>1. Record(e)
    BY <1>6 DEF SameBut
  <2> DEFINE k == Content("plain", e.n + 1, 0)
  <2>2. f = prl_send(e, k)
    OBVIOUS
  <2> HIDE DEF k, f
  <2>3. /\ SameBut({"tx_emsg", "n", "result", "tch_xmit", "mishaps"}, e, f)
        /\ f.tx_emsg = k /\ f.n = e.n + 1 /\ f.result = "none" /\ f.tch_xmit = TRUE
        /\ f.mishaps = e.mishaps \union Unclaimed(e)
    <3>1. LET p == prl_send(e, k) IN
          /\ SameBut({"tx_emsg", "n", "result", "tch_xmit", "mishaps"}, e, p)
          /\ p.tx_emsg = k /\ p.n = e.n + 1 /\ p.result = "none" /\ p.tch_xmit = TRUE
          /\ p.mishaps = e.mishaps \union Unclaimed(e)
      BY <2>1, SendFields
    <3> QED BY <2>2, <3>1
  <2> QED BY <2>3 DEF k
<1> HIDE DEF f
<1>8. SameBut({"pe", "pe_ams"}, f, port') /\ port'.pe = "run" /\ port'.pe_ams = FALSE
  BY <1>1, <1>7 DEF SameBut, Record, Fields
<1>9. e.n = port.n /\ e.mishaps = port.mishaps /\ Unclaimed(e) = Unclaimed(port)
  BY <1>2, <1>3, <1>4, <1>5, <1>6 DEF SameBut, Fields, Unclaimed
<1>10. SameBut({"emsg", "counter", "rx_id", "passed", "tx", "status", "tch", "rch",
                "rch_received", "tx_emsg", "n", "result", "tch_xmit", "mishaps", "pe", "pe_ams"},
               port, port')
  BY <1>2, <1>3, <1>4, <1>5, <1>6, <1>7, <1>8 DEF SameBut, Fields
<1>11. /\ port'.emsg = m /\ port'.counter = 0 /\ port'.rx_id = NoId
       /\ port'.passed = <<>> /\ port'.tx = "wait" /\ port'.status = "unset"
       /\ port'.tch = "wait" /\ port'.rch = "wait" /\ port'.rch_received = FALSE
  BY <1>2, <1>3, <1>4, <1>5, <1>6, <1>7, <1>8 DEF SameBut, Fields
<1>12. /\ port'.tx_emsg = Content("plain", port.n + 1, 0) /\ port'.n = port.n + 1
       /\ port'.result = "none" /\ port'.tch_xmit = TRUE
       /\ port'.mishaps = port.mishaps \union Unclaimed(port)
  BY <1>7, <1>8, <1>9 DEF SameBut, Fields
<1> QED BY <1>1, <1>8, <1>10, <1>11, <1>12

RxDuplicateEffect ==
  /\ RxEffect /\ Received.content.kind # "soft" /\ port.rx_id = Received.id
  /\ SameBut({"emsg", "dropped"}, port, port')
  /\ port'.emsg = Received.content
  /\ port'.dropped \in BOOLEAN
  /\ Received.content = port.emsg /\ ~port.dropped => ~port'.dropped
\* A message with the stored id is ignored.
LEMMA RxDuplicateStep ==
  ASSUME Record(port), rx_duplicate
  PROVE  RxDuplicateEffect
<1> USE DEF RxDuplicateEffect
<1>1. RxEffect /\ Received.content.kind # "soft" /\ port.rx_id = Received.id
  BY DEF rx_duplicate, MessageArrives, RxTurn, Turn, RxEffect
<1>2. port' = [port EXCEPT !.emsg = Received.content,
                           !.dropped = @ \/ Received.content # port.emsg]
  BY DEF rx_duplicate
<1> DEFINE m == Received.content
           d == port.dropped \/ m # port.emsg
<1>3. port' = [port EXCEPT !.emsg = m, !.dropped = d]
  BY <1>2
<1>4. d \in BOOLEAN /\ (m = port.emsg /\ ~port.dropped => ~d)
  OBVIOUS
<1> HIDE DEF m, d
<1>5. SameBut({"emsg", "dropped"}, port, port') /\ port'.emsg = m /\ port'.dropped = d
  <2>1. Record(port')
    BY <1>3 DEF Record
  <2>2. \A f \in Fields \ {"emsg", "dropped"} : port'[f] = port[f]
    BY <1>3 DEF Record, Fields
  <2>3. port'.emsg = m /\ port'.dropped = d
    BY <1>3 DEF Record, Fields
  <2> QED BY <2>1, <2>2, <2>3 DEF SameBut
<1> QED BY <1>1, <1>4, <1>5 DEF m

\* The message is for tch.
ForTch == port.tch # "wait" \/ port.tch_xmit
RxMessageEffect ==
  /\ RxEffect /\ Received.content.kind # "soft" /\ port.rx_id # Received.id
  /\ SameBut({"mishaps", "emsg", "tx", "status", "tx_xmit", "counter", "result", "stray", "pe_ams", "pe",
              "rx_id", "tch_received", "rch_received"}, port, port')
  /\ port'.emsg = Received.content /\ port'.rx_id = Received.id
  /\ port.mishaps \subseteq port'.mishaps /\ port'.mishaps \subseteq port.mishaps \union Mishaps
  /\ port.rch = "processing" => "overwritten" \in port'.mishaps
  /\ ForTch => port'.tch_received = TRUE /\ port'.rch_received = port.rch_received
  /\ ~ForTch => port'.tch_received = port.tch_received /\ port'.rch_received = TRUE
  /\ port.status = "success" /\ ~port.tx_xmit =>
       /\ SameBut({"mishaps", "emsg", "rx_id", "tch_received", "rch_received"}, port, port')
       /\ port.tx = "layer_reset" => "late" \in port'.mishaps
  /\ port.status # "success" \/ port.tx_xmit => port'.tx = "wait" /\ port'.status = "unset"
  /\ Ends(port) =>
       /\ port'.tx_xmit = FALSE /\ port'.counter = NextId(port.counter) /\ port'.pe_ams = FALSE
       /\ port.pe # "soft_reset" /\ NextId(port.counter) = partner.stored =>
            "wrapped" \in port'.mishaps
       /\ port.tx_emsg.kind = "soft" /\ port.result = "none" => "unsynced" \in port'.mishaps
       /\ port'.result = "discarded" /\ port'.stray = (port.stray \/ StrayDiscard(port))
       /\ port'.pe = IF port.pe = "await_accept" THEN "run" ELSE port.pe
  /\ port.status \in {"unset", "failed"} /\ ~port.tx_xmit =>
       /\ SameBut({"mishaps", "emsg", "rx_id", "tch_received", "rch_received", "tx", "status"},
                  port, port')
       /\ port.status = "failed" => "missed" \in port'.mishaps

\* The message is stored and handed to rch or tch.
Handed(id, t, p) ==
  /\ SameBut({"rx_id", "tch_received", "rch_received"}, t, p) /\ p.rx_id = id
  /\ t.tch # "wait" \/ t.tch_xmit => p.tch_received = TRUE /\ p.rch_received = t.rch_received
  /\ ~(t.tch # "wait" \/ t.tch_xmit) => p.tch_received = t.tch_received /\ p.rch_received = TRUE
\* The last assignments of rx_message.
LEMMA HandedOver ==
  ASSUME NEW t, Record(t), NEW id, NEW p,
         p = LET u == [t EXCEPT !.rx_id = id] IN
             IF u.tch # "wait" \/ u.tch_xmit THEN [u EXCEPT !.tch_received = TRUE]
                                             ELSE [u EXCEPT !.rch_received = TRUE]
  PROVE  Handed(id, t, p)
<1> DEFINE u == [t EXCEPT !.rx_id = id]
<1>1. SameBut({"rx_id"}, t, u) /\ u.rx_id = id
  BY DEF SameBut, Record, Fields
<1>2. p = IF u.tch # "wait" \/ u.tch_xmit THEN [u EXCEPT !.tch_received = TRUE]
                                          ELSE [u EXCEPT !.rch_received = TRUE]
  OBVIOUS
<1> HIDE DEF u
<1>3. u.tch = t.tch /\ (u.tch_xmit <=> t.tch_xmit)
  BY <1>1 DEF SameBut, Fields
<1>4. CASE t.tch # "wait" \/ t.tch_xmit
  <2>1. p = [u EXCEPT !.tch_received = TRUE]
    BY <1>2, <1>3, <1>4
  <2>a. Record(p)
    BY <1>1, <2>1 DEF SameBut, Record
  <2>b. \A f \in Fields \ {"tch_received"} : p[f] = u[f]
    BY <1>1, <2>1 DEF SameBut, Record, Fields
  <2>c. p.tch_received = TRUE
    BY <1>1, <2>1 DEF SameBut, Record, Fields
  <2>2. SameBut({"tch_received"}, u, p) /\ p.tch_received = TRUE
    BY <2>a, <2>b, <2>c DEF SameBut
  <2> QED BY <1>1, <1>4, <2>2 DEF SameBut, Fields, Handed
<1>5. CASE ~(t.tch # "wait" \/ t.tch_xmit)
  <2>1. p = [u EXCEPT !.rch_received = TRUE]
    BY <1>2, <1>3, <1>5
  <2>a. Record(p)
    BY <1>1, <2>1 DEF SameBut, Record
  <2>b. \A f \in Fields \ {"rch_received"} : p[f] = u[f]
    BY <1>1, <2>1 DEF SameBut, Record, Fields
  <2>c. p.rch_received = TRUE
    BY <1>1, <2>1 DEF SameBut, Record, Fields
  <2>2. SameBut({"rch_received"}, u, p) /\ p.rch_received = TRUE
    BY <2>a, <2>b, <2>c DEF SameBut
  <2> QED BY <1>1, <1>5, <2>2 DEF SameBut, Fields, Handed
<1> QED BY <1>4, <1>5

\* A message is stored, ends what is being sent and goes to rch or tch.
LEMMA RxMessageStep == ASSUME Record(port), rx_message PROVE RxMessageEffect
<1> DEFINE m == Received.content
           a == Note(port, port.rch = "processing", "overwritten")
           s == [a EXCEPT !.emsg = m]
           t == IF s.status # "success" \/ s.tx_xmit THEN tx_discard_entry(s)
                ELSE Note(s, s.tx = "layer_reset", "late")
<1>1. RxEffect /\ m.kind # "soft" /\ port.rx_id # Received.id
  BY DEF rx_message, MessageArrives, RxTurn, Turn, RxEffect
<1>2. port' = LET u == [t EXCEPT !.rx_id = Received.id] IN
              IF u.tch # "wait" \/ u.tch_xmit THEN [u EXCEPT !.tch_received = TRUE]
                                              ELSE [u EXCEPT !.rch_received = TRUE]
  BY DEF rx_message
<1> HIDE DEF t
<1>3. /\ SameBut({"mishaps"}, port, a)
      /\ a.mishaps = port.mishaps \union (IF port.rch = "processing" THEN {"overwritten"} ELSE {})
  BY NoteFields
<1> HIDE DEF a
<1>4. SameBut({"emsg"}, a, s) /\ s.emsg = m
  BY <1>3 DEF SameBut, Record, Fields
<1> HIDE DEF s
<1>5. /\ SameBut({"mishaps", "emsg"}, port, s) /\ s.emsg = m
      /\ s.mishaps = port.mishaps \union (IF port.rch = "processing" THEN {"overwritten"} ELSE {})
  BY <1>3, <1>4 DEF SameBut, Fields
<1> DEFINE T == {"mishaps", "emsg", "tx", "status", "tx_xmit", "counter", "result", "stray", "pe_ams", "pe"}
           Outcome(p) ==
             /\ port.status = "success" /\ ~port.tx_xmit =>
                  /\ SameBut({"mishaps", "emsg"}, port, p)
                  /\ port.tx = "layer_reset" => "late" \in p.mishaps
             /\ port.status # "success" \/ port.tx_xmit => p.tx = "wait" /\ p.status = "unset"
             /\ Ends(port) =>
                  /\ p.tx_xmit = FALSE /\ p.counter = NextId(port.counter) /\ p.pe_ams = FALSE
                  /\ port.pe # "soft_reset" /\ NextId(port.counter) = partner.stored =>
                       "wrapped" \in p.mishaps
                  /\ port.tx_emsg.kind = "soft" /\ port.result = "none" => "unsynced" \in p.mishaps
                  /\ p.result = "discarded" /\ p.stray = (port.stray \/ StrayDiscard(port))
                  /\ p.pe = IF port.pe = "await_accept" THEN "run" ELSE port.pe
             /\ port.status \in {"unset", "failed"} /\ ~port.tx_xmit =>
                  /\ SameBut({"mishaps", "emsg", "tx", "status"}, port, p)
                  /\ port.status = "failed" => "missed" \in p.mishaps
           Noted(p) ==
             /\ port.mishaps \subseteq p.mishaps /\ p.mishaps \subseteq port.mishaps \union Mishaps
             /\ port.rch = "processing" => "overwritten" \in p.mishaps
<1>6. SameBut(T, port, t) /\ t.emsg = m /\ Noted(t) /\ Outcome(t)
  <2>a. /\ s.status = port.status /\ (s.tx_xmit <=> port.tx_xmit) /\ s.tx = port.tx
        /\ s.counter = port.counter /\ s.pe = port.pe /\ s.result = port.result
        /\ s.stray = port.stray /\ (StrayDiscard(s) <=> StrayDiscard(port))
        /\ s.tx_emsg = port.tx_emsg /\ (Ends(s) <=> Ends(port))
    BY <1>5 DEF SameBut, Fields, Ends, StrayDiscard
  <2>b. Noted(s)
    BY <1>5 DEF Mishaps
  <2>1. CASE port.status = "success" /\ ~port.tx_xmit
    <3>1. t = Note(s, s.tx = "layer_reset", "late")
      BY <2>1, <2>a DEF t
    <3>2. /\ SameBut({"mishaps"}, s, t)
          /\ t.mishaps = s.mishaps \union (IF s.tx = "layer_reset" THEN {"late"} ELSE {})
      <4>1. Record(s)
        BY <1>5 DEF SameBut
      <4>2. /\ SameBut({"mishaps"}, s, Note(s, s.tx = "layer_reset", "late"))
            /\ Note(s, s.tx = "layer_reset", "late").mishaps
                 = s.mishaps \union (IF s.tx = "layer_reset" THEN {"late"} ELSE {})
        BY <4>1, NoteFields
      <4> QED BY <3>1, <4>2
    <3>3. SameBut({"mishaps", "emsg"}, port, t) /\ t.emsg = m
      BY <1>5, <3>2 DEF SameBut, Fields
    <3>4. Noted(t) /\ (port.tx = "layer_reset" => "late" \in t.mishaps)
      BY <2>a, <2>b, <3>2 DEF Mishaps
    <3>5. SameBut(T, port, t)
      BY <3>3 DEF SameBut
    <3> QED BY <2>1, <3>3, <3>4, <3>5 DEF Ends
  <2>2. CASE port.status # "success" \/ port.tx_xmit
    <3>1. t = tx_discard_entry(s)
      BY <2>2, <2>a DEF t
    <3>2. Record(s)
      BY <1>5 DEF SameBut
    <3>3. TxDiscarded(s, t)
      BY <3>1, <3>2, TxDiscardFields
    <3>4. SameBut(T, port, t) /\ t.emsg = m
      BY <1>5, <3>3 DEF TxDiscarded, SameBut, Fields
    <3>5. CASE Ends(s)
      <4>1. Noted(t)
        BY <2>b, <3>3, <3>5 DEF TxDiscarded, Mishaps
      <4>2. Ends(port) =>
               /\ t.tx_xmit = FALSE /\ t.counter = NextId(port.counter) /\ t.pe_ams = FALSE
               /\ port.pe # "soft_reset" /\ NextId(port.counter) = partner.stored =>
                    "wrapped" \in t.mishaps
               /\ port.tx_emsg.kind = "soft" /\ port.result = "none" => "unsynced" \in t.mishaps
               /\ t.result = "discarded" /\ t.stray = (port.stray \/ StrayDiscard(port))
               /\ t.pe = IF port.pe = "await_accept" THEN "run" ELSE port.pe
        BY <2>a, <3>3, <3>5 DEF TxDiscarded
      <4>3. ~(port.status \in {"unset", "failed"} /\ ~port.tx_xmit)
        BY <2>a, <3>5 DEF Ends
      <4>4. t.tx = "wait" /\ t.status = "unset"
        BY <3>3 DEF TxDiscarded
      <4> QED BY <2>2, <3>4, <4>1, <4>2, <4>3, <4>4
    <3>6. CASE ~Ends(s)
      <4>1. Noted(t)
        BY <2>b, <3>3, <3>6 DEF TxDiscarded, Mishaps
      <4>2. /\ SameBut({"mishaps", "emsg", "tx", "status"}, port, t)
            /\ port.status = "failed" => "missed" \in t.mishaps
        BY <1>5, <2>a, <3>3, <3>6 DEF TxDiscarded, SameBut, Fields
      <4>4. t.tx = "wait" /\ t.status = "unset"
        BY <3>3 DEF TxDiscarded
      <4> QED BY <2>2, <2>a, <3>4, <3>6, <4>1, <4>2, <4>4
    <3> QED BY <3>5, <3>6
  <2> QED BY <2>1, <2>2
<1>7. /\ SameBut({"rx_id", "tch_received", "rch_received"}, t, port') /\ port'.rx_id = Received.id
      /\ t.tch # "wait" \/ t.tch_xmit =>
           port'.tch_received = TRUE /\ port'.rch_received = t.rch_received
      /\ ~(t.tch # "wait" \/ t.tch_xmit) =>
           port'.tch_received = t.tch_received /\ port'.rch_received = TRUE
  <2>1. Record(t)
    BY <1>6 DEF SameBut
  <2>2. Handed(Received.id, t, port')
    BY <1>2, <2>1, HandedOver
  <2> QED BY <2>2 DEF Handed
<1>8. Noted(port')
  BY <1>6, <1>7 DEF SameBut, Fields
<1>9. /\ ForTch => port'.tch_received = TRUE /\ port'.rch_received = port.rch_received
      /\ ~ForTch => port'.tch_received = port.tch_received /\ port'.rch_received = TRUE
  BY <1>6, <1>7 DEF SameBut, Fields, ForTch
<1>10. SameBut({"mishaps", "emsg", "tx", "status", "tx_xmit", "counter", "result", "stray", "pe_ams", "pe",
                "rx_id", "tch_received", "rch_received"}, port, port') /\ port'.emsg = m
  BY <1>6, <1>7 DEF SameBut, Fields
<1>11. /\ port'.tx = t.tx /\ port'.status = t.status /\ port'.counter = t.counter
       /\ port'.mishaps = t.mishaps /\ port'.result = t.result /\ port'.pe = t.pe
       /\ port'.pe_ams = t.pe_ams /\ port'.tx_xmit = t.tx_xmit /\ port'.stray = t.stray
  BY <1>7 DEF SameBut, Fields
<1>12. port.status = "success" /\ ~port.tx_xmit =>
         /\ SameBut({"mishaps", "emsg", "rx_id", "tch_received", "rch_received"}, port, port')
         /\ port.tx = "layer_reset" => "late" \in port'.mishaps
  BY <1>6, <1>7, <1>11 DEF SameBut, Fields
<1>13. port.status \in {"unset", "failed"} /\ ~port.tx_xmit =>
         /\ SameBut({"mishaps", "emsg", "rx_id", "tch_received", "rch_received", "tx", "status"},
                    port, port')
         /\ port.status = "failed" => "missed" \in port'.mishaps
  BY <1>6, <1>7, <1>11 DEF SameBut, Fields
<1>14. port.status # "success" \/ port.tx_xmit => port'.tx = "wait" /\ port'.status = "unset"
  BY <1>6, <1>11
<1>15. Ends(port) =>
         /\ port'.tx_xmit = FALSE /\ port'.counter = NextId(port.counter) /\ port'.pe_ams = FALSE
         /\ port.pe # "soft_reset" /\ NextId(port.counter) = partner.stored =>
              "wrapped" \in port'.mishaps
         /\ port.tx_emsg.kind = "soft" /\ port.result = "none" => "unsynced" \in port'.mishaps
         /\ port'.result = "discarded" /\ port'.stray = (port.stray \/ StrayDiscard(port))
         /\ port'.pe = IF port.pe = "await_accept" THEN "run" ELSE port.pe
  BY <1>6, <1>11
<1> HIDE DEF Noted, Outcome
<1> QED BY <1>1, <1>7, <1>8, <1>9, <1>10, <1>12, <1>13, <1>14, <1>15 DEF RxMessageEffect, Noted

-----------------------------------------------------------------------------
(***************************************************************************)
(* What the actions change: rch.                                           *)
(***************************************************************************)
RchEffect == /\ port.pe # "hard_reset" /\ pc = "rch" /\ pc' = "tch"
             /\ rxq' = rxq /\ phy' = phy /\ partner' = partner

\* Something that rch received is given to the PE.
PassesUp(s, t) ==
  /\ t.rch = "wait" /\ t.rch_received = FALSE /\ t.pe_received = TRUE
  /\ t.passed = IF s.emsg.kind \in {"plain", "chunk"} THEN Append(s.passed, s.emsg.n) ELSE s.passed

RchWaitEffect ==
  /\ RchEffect /\ port.rch = "wait" /\ port.rch_received
  /\ port.emsg.kind \in {"chunk", "request"} =>
       /\ SameBut({"rch", "rch_received", "expected"}, port, port')
       /\ port'.rch = "processing" /\ port'.rch_received = FALSE /\ port'.expected = 0
  /\ port.emsg.kind \notin {"chunk", "request"} =>
       /\ SameBut({"rch", "rch_received", "pe_received", "passed"}, port, port')
       /\ PassesUp(port, port')
\* rch passes a message up, or begins with a chunk.
LEMMA RchWaitStep ==
  ASSUME Record(port), rch_wait_run
  PROVE  RchWaitEffect
<1> USE DEF RchWaitEffect
<1> DEFINE s == [port EXCEPT !.rch_received = FALSE]
<1>1. SameBut({"rch_received"}, port, s) /\ s.rch_received = FALSE
  BY DEF SameBut, Record, Fields
<1>2. /\ RchEffect /\ port.rch = "wait" /\ port.rch_received
      /\ port' = IF s.emsg.kind \in {"chunk", "request"}
                 THEN [s EXCEPT !.expected = 0, !.rch = "processing"]
                 ELSE rch_pass_up_entry(s)
  BY DEF rch_wait_run, RchTurn, RchTurns, Turn, RchEffect
<1> HIDE DEF s
<1>3. s.emsg = port.emsg /\ s.passed = port.passed
  BY <1>1 DEF SameBut, Fields
<1>4. CASE port.emsg.kind \in {"chunk", "request"}
  <2>1. port' = [s EXCEPT !.expected = 0, !.rch = "processing"]
    BY <1>2, <1>3, <1>4
  <2>2. SameBut({"rch", "expected"}, s, port') /\ port'.rch = "processing" /\ port'.expected = 0
    BY <1>1, <2>1 DEF SameBut, Record, Fields
  <2> QED BY <1>1, <1>2, <1>4, <2>2 DEF SameBut, Fields
<1>5. CASE port.emsg.kind \notin {"chunk", "request"}
  <2>1. port' = rch_pass_up_entry(s) /\ Record(s)
    BY <1>1, <1>2, <1>3, <1>5 DEF SameBut
  <2>2. /\ SameBut({"rch", "rch_received", "pe_received", "passed"}, s, port')
        /\ port'.rch = "wait" /\ port'.rch_received = FALSE /\ port'.pe_received = TRUE
        /\ port'.passed = IF s.emsg.kind \in {"plain", "chunk"}
                          THEN Append(s.passed, s.emsg.n) ELSE s.passed
    BY <2>1, PassUpFields
  <2>3. SameBut({"rch", "rch_received", "pe_received", "passed"}, port, port')
    BY <1>1, <2>2 DEF SameBut, Fields
  <2> QED BY <1>2, <1>3, <1>5, <2>2, <2>3 DEF PassesUp
<1> QED BY <1>4, <1>5

\* The chunk is the one that was expected.
AsExpected == port.expected # Chunks /\ (port.emsg.kind # "plain" => port.emsg.c = port.expected)
RchProcessingEffect ==
  /\ RchEffect /\ port.rch = "processing"
  /\ \/ RchReported(port, "ERR_RCH_CHUNKED", port')
     \/ /\ AsExpected /\ PassesUp(port, port') /\ port'.expected = port.expected + 1
        /\ SameBut({"rch", "rch_received", "pe_received", "passed", "expected"}, port, port')
     \/ /\ AsExpected /\ port'.expected = port.expected + 1
        /\ port.emsg.kind # "plain" => port.expected # Chunks - 1
        /\ SameBut({"rch", "tx_xmit", "out", "expected"}, port, port')
        /\ port'.rch = "requesting" /\ port'.tx_xmit = TRUE
        /\ port'.out = Content("request", 0, port.expected + 1)
\* rch takes a chunk: the last one, one before, or an error.
LEMMA RchProcessingStep ==
  ASSUME Record(port), rch_processing_run
  PROVE  RchProcessingEffect
<1> USE DEF RchProcessingEffect
<1> DEFINE s == [port EXCEPT !.expected = @ + 1]
<1>1. SameBut({"expected"}, port, s) /\ s.expected = port.expected + 1
  BY DEF SameBut, Record, Fields
<1>2. PICK expected \in (IF port.emsg.kind = "plain" THEN BOOLEAN
                         ELSE {port.emsg.c = port.expected}) :
      \E last \in (IF port.emsg.kind = "plain" THEN BOOLEAN
                   ELSE {port.expected = Chunks - 1}) :
        RchTurns(IF ~expected \/ port.expected = Chunks
                 THEN rch_report_entry(port, "ERR_RCH_CHUNKED")
                 ELSE {IF last THEN rch_pass_up_entry(s) ELSE rch_requesting_entry(s)})
  BY DEF rch_processing_run
<1>3. PICK last \in (IF port.emsg.kind = "plain" THEN BOOLEAN
                     ELSE {port.expected = Chunks - 1}) :
        RchTurns(IF ~expected \/ port.expected = Chunks
                 THEN rch_report_entry(port, "ERR_RCH_CHUNKED")
                 ELSE {IF last THEN rch_pass_up_entry(s) ELSE rch_requesting_entry(s)})
  BY <1>2
<1>4. RchEffect /\ port.rch = "processing"
  BY <1>3 DEF rch_processing_run, RchTurns, Turn, RchEffect
<1> HIDE DEF s
<1>5. \/ port' \in rch_report_entry(port, "ERR_RCH_CHUNKED")
      \/ expected /\ port.expected # Chunks /\ last /\ port' = rch_pass_up_entry(s)
      \/ expected /\ port.expected # Chunks /\ ~last /\ port' = rch_requesting_entry(s)
  BY <1>3 DEF RchTurns
<1>6. port.emsg.kind # "plain" => (expected <=> port.emsg.c = port.expected)
  BY <1>2
<1>7. port.emsg.kind # "plain" => (last <=> port.expected = Chunks - 1)
  BY <1>3
<1>8. Record(s) /\ s.emsg = port.emsg /\ s.passed = port.passed
  BY <1>1 DEF SameBut, Fields
<1>9. CASE port' \in rch_report_entry(port, "ERR_RCH_CHUNKED")
  BY <1>4, <1>9, RchReportFields DEF OfMessage
<1>10. CASE expected /\ port.expected # Chunks /\ last /\ port' = rch_pass_up_entry(s)
  <2>1. /\ SameBut({"rch", "rch_received", "pe_received", "passed"}, s, port')
        /\ port'.rch = "wait" /\ port'.rch_received = FALSE /\ port'.pe_received = TRUE
        /\ port'.passed = IF s.emsg.kind \in {"plain", "chunk"}
                          THEN Append(s.passed, s.emsg.n) ELSE s.passed
    BY <1>8, <1>10, PassUpFields
  <2>2. SameBut({"rch", "rch_received", "pe_received", "passed", "expected"}, port, port')
        /\ port'.expected = port.expected + 1
    BY <1>1, <2>1 DEF SameBut, Fields
  <2>3. PassesUp(port, port')
    BY <1>8, <2>1 DEF PassesUp
  <2> QED BY <1>4, <1>6, <1>10, <2>2, <2>3 DEF AsExpected
<1>11. CASE expected /\ port.expected # Chunks /\ ~last /\ port' = rch_requesting_entry(s)
  <2>1. /\ SameBut({"rch", "tx_xmit", "out"}, s, port')
        /\ port'.rch = "requesting" /\ port'.tx_xmit = TRUE
        /\ port'.out = Content("request", 0, s.expected)
    BY <1>8, <1>11, RequestingFields
  <2>2. SameBut({"rch", "tx_xmit", "out", "expected"}, port, port')
        /\ port'.expected = port.expected + 1
    BY <1>1, <2>1 DEF SameBut, Fields
  <2> QED BY <1>1, <1>4, <1>6, <1>7, <1>11, <2>1, <2>2 DEF AsExpected
<1> QED BY <1>5, <1>9, <1>10, <1>11

RchRequestingEffect ==
  /\ RchEffect /\ port.rch = "requesting"
  /\ \/ RchReported(port, "ERR_RCH_CHUNKED", port')
     \/ /\ SameBut({"rch", "complete"}, port, port')
        /\ port'.rch = "waiting" /\ port'.complete = FALSE
\* rch goes on once its request is sent, or reports an error.
LEMMA RchRequestingStep ==
  ASSUME Record(port), rch_requesting_run
  PROVE  RchRequestingEffect
<1> USE DEF RchRequestingEffect
<1>1. /\ RchEffect /\ port.rch = "requesting"
      /\ \/ port' \in rch_report_entry(port, "ERR_RCH_CHUNKED")
         \/ port' = [port EXCEPT !.complete = FALSE, !.rch = "waiting"]
  BY DEF rch_requesting_run, RchTurns, Turn, RchEffect
<1>2. CASE port' \in rch_report_entry(port, "ERR_RCH_CHUNKED")
  BY <1>1, <1>2, RchReportFields DEF OfMessage
<1>3. CASE port' = [port EXCEPT !.complete = FALSE, !.rch = "waiting"]
  <2>1. /\ SameBut({"rch", "complete"}, port, port')
        /\ port'.rch = "waiting" /\ port'.complete = FALSE
    BY <1>3 DEF SameBut, Record, Fields
  <2> QED BY <1>1, <2>1
<1> QED BY <1>1, <1>2, <1>3

RchWaitingEffect ==
  /\ RchEffect /\ port.rch = "waiting" /\ port.rch_received
  /\ \/ /\ port.emsg.kind = "chunk" /\ SameBut({"rch", "rch_received", "complete"}, port, port')
        /\ port'.rch = "processing" /\ port'.rch_received = FALSE /\ port'.complete = FALSE
     \/ /\ port.emsg.kind = "request"
        /\ \E s : /\ SameBut({"complete"}, port, s) /\ s.complete = FALSE
                  /\ RchReported(s, "ERR_RCH_CHUNKED", port')
     \/ SameBut({"complete"}, port, port') /\ port'.complete = FALSE
\* rch takes a message while it waits for a chunk.
LEMMA RchWaitingStep ==
  ASSUME Record(port), rch_waiting_run
  PROVE  RchWaitingEffect
<1> USE DEF RchWaitingEffect
<1> DEFINE s == [port EXCEPT !.complete = FALSE]
<1>1. SameBut({"complete"}, port, s) /\ s.complete = FALSE
  BY DEF SameBut, Record, Fields
<1>2. /\ RchEffect /\ port.rch = "waiting" /\ port.rch_received
      /\ port' \in (CASE s.emsg.kind = "chunk" ->
                           {[s EXCEPT !.rch_received = FALSE, !.rch = "processing"]}
                      [] s.emsg.kind = "request" -> rch_report_entry(s, "ERR_RCH_CHUNKED")
                      [] OTHER -> {s})
  BY DEF rch_waiting_run, RchTurns, Turn, RchEffect
<1> HIDE DEF s
<1>3. s.emsg = port.emsg /\ Record(s)
  BY <1>1 DEF SameBut, Fields
<1>4. CASE s.emsg.kind = "chunk"
  <2>1. port' = [s EXCEPT !.rch_received = FALSE, !.rch = "processing"]
    BY <1>2, <1>4
  <2>2. SameBut({"rch", "rch_received"}, s, port') /\ port'.rch = "processing"
        /\ port'.rch_received = FALSE
    BY <1>3, <2>1 DEF SameBut, Record, Fields
  <2>3. SameBut({"rch", "rch_received", "complete"}, port, port') /\ port'.complete = FALSE
    BY <1>1, <2>2 DEF SameBut, Fields
  <2> QED BY <1>2, <1>3, <1>4, <2>2, <2>3
<1>5. CASE s.emsg.kind = "request"
  <2>1. port' \in rch_report_entry(s, "ERR_RCH_CHUNKED")
    BY <1>2, <1>5
  <2>2. RchReported(s, "ERR_RCH_CHUNKED", port')
    BY <1>3, <2>1, RchReportFields DEF OfMessage
  <2> QED BY <1>1, <1>2, <1>3, <1>5, <2>2
<1>6. CASE s.emsg.kind \notin {"chunk", "request"}
  <2>1. port' = s
    BY <1>2, <1>6
  <2> QED BY <1>1, <1>2, <2>1
<1> QED BY <1>4, <1>5, <1>6

RchTimeoutEffect ==
  /\ RchEffect /\ port.rch = "waiting" /\ ~port.rch_received
  /\ RchReported(port, "ERR_RCH_CHUNK_WAIT_TIMEOUT", port')
\* rch gives up its wait for a chunk.
LEMMA RchTimeoutStep ==
  ASSUME Record(port), rch_waiting_timeout
  PROVE  RchTimeoutEffect
<1> USE DEF RchTimeoutEffect
<1>1. /\ RchEffect /\ port.rch = "waiting" /\ ~port.rch_received
      /\ port' \in rch_report_entry(port, "ERR_RCH_CHUNK_WAIT_TIMEOUT")
  BY DEF rch_waiting_timeout, RchTurns, Turn, RchEffect
<1> QED BY <1>1, RchReportFields DEF OfMessage

RchReportEffect ==
  /\ RchEffect /\ port.rch = "report" /\ SameBut({"rch", "rch_received"}, port, port')
  /\ port'.rch = "wait" /\ port'.rch_received = FALSE
\* rch goes back to its wait.
LEMMA RchReportStep ==
  ASSUME Record(port), rch_report_run
  PROVE  RchReportEffect
<1> USE DEF RchReportEffect
<1>1. RchEffect /\ port.rch = "report" /\ port' = rch_wait_entry(port)
  BY DEF rch_report_run, RchTurn, RchTurns, Turn, RchEffect
<1> QED BY <1>1, RchWaitFields

-----------------------------------------------------------------------------
(***************************************************************************)
(* What the actions change: tch.  It takes a message of the PE only while  *)
(* it waits.                                                               *)
(***************************************************************************)
TchEffect == /\ port.pe # "hard_reset" /\ rxq' = rxq /\ phy' = phy /\ partner' = partner
             /\ (pc = "tch" /\ pc' = "tx") \/ (pc = "tch2" /\ pc' = "pe")

TchWaitReceivedEffect ==
  TchEffect /\ port.tch = "wait" /\ port.tch_received /\ TchTook(port, port')
\* tch gives a message to rch.
LEMMA TchWaitReceivedStep ==
  ASSUME Record(port), tch_wait_received
  PROVE  TchWaitReceivedEffect
<1> USE DEF TchWaitReceivedEffect
<1>1. TchEffect /\ port.tch = "wait" /\ port.tch_received /\ port' = tch_received_entry(port)
  BY DEF tch_wait_received, TchTurn, TchTurns, Turn, TchEffect
<1> QED BY <1>1, TchReceivedFields

\* The PE is told of the outcome o.
ToldOf(o, s, t) ==
  /\ AmsEnds(s, t)
  /\ s.result = "none" => t.result = o /\ t.stray = s.stray
  /\ s.result # "none" => t.result = s.result /\ t.stray = TRUE

TchWaitXmitEffect ==
  /\ TchEffect /\ port.tch = "wait" /\ ~port.tch_received /\ port.tch_xmit
  /\ port.mishaps \subseteq port'.mishaps /\ port'.mishaps \subseteq port.mishaps \union Mishaps
  /\ port.complete \/ port.error \/ port.tx = "phy" => "unread" \in port'.mishaps
  /\ port'.tch_xmit = FALSE
  /\ \/ /\ port.rch # "wait"
        /\ SameBut({"tch", "tch_xmit", "mishaps", "result", "pe_ams", "stray", "pe", "init"},
                   port, port')
        /\ port'.tch = "wait" /\ PeGoesOn(port, port') /\ ToldOf("error", port, port')
     \/ /\ port.rch = "wait" /\ port.tx_emsg.kind = "chunk"
        /\ SameBut({"tch", "tch_xmit", "mishaps", "to_send", "tx_xmit", "out"}, port, port')
        /\ port'.tch = "construct" /\ port'.tx_xmit = TRUE /\ port'.to_send = 0
        /\ port'.out = Content("chunk", port.tx_emsg.n, 0)
     \/ /\ port.rch = "wait" /\ port.tx_emsg.kind # "chunk"
        /\ SameBut({"tch", "tch_xmit", "mishaps", "tx_xmit", "out"}, port, port')
        /\ port'.tch = "transmission" /\ port'.tx_xmit = TRUE /\ port'.out = port.tx_emsg
\* tch takes a message of the PE, or refuses it.
LEMMA TchWaitXmitStep ==
  ASSUME Record(port), tch_wait_xmit
  PROVE  TchWaitXmitEffect
<1> USE DEF TchWaitXmitEffect
<1> DEFINE a == Note(port, port.complete \/ port.error \/ port.tx = "phy", "unread")
           s == [a EXCEPT !.tch_xmit = FALSE]
<1>1. /\ SameBut({"mishaps"}, port, a)
      /\ a.mishaps = port.mishaps
           \union (IF port.complete \/ port.error \/ port.tx = "phy" THEN {"unread"} ELSE {})
  BY NoteFields
<1>2. /\ TchEffect /\ port.tch = "wait" /\ ~port.tch_received /\ port.tch_xmit
      /\ port' \in (CASE s.rch # "wait" -> tch_report_entry(s, "ERR_TCH_XMIT")
                      [] s.rch = "wait" /\ s.tx_emsg.kind = "chunk" ->
                           {tch_construct_entry([s EXCEPT !.to_send = 0])}
                      [] OTHER ->
                           {[s EXCEPT !.out = s.tx_emsg, !.tx_xmit = TRUE, !.tch = "transmission"]})
  BY DEF tch_wait_xmit, TchTurns, Turn, TchEffect
<1> HIDE DEF a
<1>3. SameBut({"tch_xmit"}, a, s) /\ s.tch_xmit = FALSE
  BY <1>1 DEF SameBut, Record, Fields
<1> HIDE DEF s
<1>4. SameBut({"mishaps", "tch_xmit"}, port, s) /\ Record(s) /\ ~s.tch_received
  BY <1>1, <1>2, <1>3 DEF SameBut, Fields
<1>5. /\ port.mishaps \subseteq s.mishaps /\ s.mishaps \subseteq port.mishaps \union Mishaps
      /\ port.complete \/ port.error \/ port.tx = "phy" => "unread" \in s.mishaps
  <2>1. s.mishaps = a.mishaps
    BY <1>3 DEF SameBut, Fields
  <2> QED BY <1>1, <2>1 DEF Mishaps
<1>6. /\ s.rch = port.rch /\ s.tx_emsg = port.tx_emsg
      /\ s.result = port.result /\ s.pe = port.pe
  BY <1>4 DEF SameBut, Fields
<1>7. CASE s.rch # "wait"
  <2>1. port' \in tch_report_entry(s, "ERR_TCH_XMIT")
    BY <1>2, <1>7
  <2>2. TchReported(s, port')
    BY <1>3, <1>4, <2>1, TchReportFields DEF OfMessage
  <2>3. /\ SameBut({"tch", "tch_xmit", "mishaps", "result", "pe_ams", "stray", "pe", "init"},
                   port, port')
        /\ port'.tch = "wait" /\ port'.tch_xmit = FALSE
    BY <1>3, <1>4, <2>2 DEF TchReported, Released, SameBut, Fields, Flags
  <2>4. PeGoesOn(port, port')
    BY <1>4, <2>2 DEF TchReported, PeGoesOn, SameBut, Fields
  <2>5. ToldOf("error", port, port')
    BY <1>4, <2>2 DEF TchReported, ToldOf, SameBut, Fields, AmsEnds
  <2>6. port'.mishaps = s.mishaps
    BY <2>2 DEF TchReported, SameBut, Fields, Flags
  <2> QED BY <1>2, <1>5, <1>6, <1>7, <2>3, <2>4, <2>5, <2>6
<1>8. CASE s.rch = "wait" /\ s.tx_emsg.kind = "chunk"
  <2> DEFINE b == [s EXCEPT !.to_send = 0]
  <2>1. SameBut({"to_send"}, s, b) /\ b.to_send = 0
    BY <1>4 DEF SameBut, Record, Fields
  <2>2. port' = tch_construct_entry(b)
    BY <1>2, <1>8
  <2> HIDE DEF b
  <2>3. ~b.tch_received /\ b.tx_emsg = port.tx_emsg /\ Record(b)
    BY <1>4, <2>1 DEF SameBut, Fields
  <2> DEFINE c == Content("chunk", b.tx_emsg.n, b.to_send)
  <2>4. port' = [b EXCEPT !.tch = "construct", !.tx_xmit = TRUE, !.out = c]
    BY <2>2, <2>3 DEF tch_construct_entry
  <2>5. c = Content("chunk", port.tx_emsg.n, 0)
    BY <2>1, <2>3
  <2> HIDE DEF c
  <2>6. /\ SameBut({"tch", "tx_xmit", "out"}, b, port')
        /\ port'.tch = "construct" /\ port'.tx_xmit = TRUE /\ port'.out = c
    BY <2>3, <2>4 DEF SameBut, Record, Fields
  <2>7. SameBut({"tch", "tch_xmit", "mishaps", "to_send", "tx_xmit", "out"}, port, port')
        /\ port'.to_send = 0 /\ port'.mishaps = s.mishaps /\ port'.tch_xmit = FALSE
    BY <1>3, <1>4, <2>1, <2>6 DEF SameBut, Fields
  <2> QED BY <1>2, <1>5, <1>6, <1>8, <2>5, <2>6, <2>7
<1>9. CASE s.rch = "wait" /\ s.tx_emsg.kind # "chunk"
  <2> DEFINE c == s.tx_emsg
  <2>1. port' = [s EXCEPT !.out = c, !.tx_xmit = TRUE, !.tch = "transmission"]
    BY <1>2, <1>9
  <2>2. c = port.tx_emsg
    BY <1>6
  <2> HIDE DEF c
  <2>3. /\ SameBut({"tch", "tx_xmit", "out"}, s, port')
        /\ port'.tch = "transmission" /\ port'.tx_xmit = TRUE /\ port'.out = c
    BY <1>4, <2>1 DEF SameBut, Record, Fields
  <2>4. SameBut({"tch", "tch_xmit", "mishaps", "tx_xmit", "out"}, port, port')
        /\ port'.mishaps = s.mishaps /\ port'.tch_xmit = FALSE
    BY <1>3, <1>4, <2>3 DEF SameBut, Fields
  <2> QED BY <1>2, <1>5, <1>6, <1>9, <2>2, <2>3, <2>4
<1> QED BY <1>7, <1>8, <1>9

TchTransmissionEffect ==
  /\ TchEffect /\ port.tch = "transmission"
  /\ \/ /\ port.complete /\ port'.complete = FALSE
        /\ SameBut(Flags \union {"result", "pe_ams", "stray", "complete"}, port, port')
        /\ Released(port, port') /\ ToldOf("sent", port, port')
     \/ /\ ~port.complete /\ port.error /\ port'.error = FALSE
        /\ SameBut(Flags \union {"result", "pe_ams", "stray", "pe", "init", "error"}, port, port')
        /\ Released(port, port') /\ ToldOf("error", port, port') /\ PeGoesOn(port, port')
     \/ /\ ~port.complete /\ ~port.error /\ port.tch_received /\ port.status # "success"
        /\ SameBut(Flags, port, port') /\ Released(port, port')
\* tch ends a message that is not chunked.
LEMMA TchTransmissionStep ==
  ASSUME Record(port), ~port.tch_xmit, tch_transmission_run
  PROVE  TchTransmissionEffect
<1> USE DEF TchTransmissionEffect
<1>1. TchEffect /\ port.tch = "transmission"
  BY DEF tch_transmission_run, TchTurn, TchTurns, Turn, TchEffect
<1>2. CASE port.complete /\ TchTurn(tch_sent_entry([port EXCEPT !.complete = FALSE]))
  <2> DEFINE s == [port EXCEPT !.complete = FALSE]
  <2>1. SameBut({"complete"}, port, s) /\ s.complete = FALSE
    BY DEF SameBut, Record, Fields
  <2>2. port' = tch_sent_entry(s)
    BY <1>2 DEF TchTurn, TchTurns
  <2> HIDE DEF s
  <2>3. Record(s) /\ ~s.tch_xmit
    BY <2>1 DEF SameBut, Fields
  <2>4. TchSent(s, port')
    BY <2>2, <2>3, SentFields
  <2>5. SameBut(Flags \union {"result", "pe_ams", "stray", "complete"}, port, port')
        /\ port'.complete = FALSE
    BY <2>1, <2>4 DEF TchSent, SameBut, Fields, Flags
  <2>6. Released(port, port') /\ ToldOf("sent", port, port')
    BY <2>1, <2>4 DEF TchSent, Released, ToldOf, SameBut, Fields, AmsEnds
  <2> QED BY <1>1, <1>2, <2>5, <2>6
<1>3. CASE /\ ~port.complete /\ port.error
           /\ TchTurns(tch_report_entry([port EXCEPT !.error = FALSE], "ERR_TCH_XMIT"))
  <2> DEFINE s == [port EXCEPT !.error = FALSE]
  <2>1. SameBut({"error"}, port, s) /\ s.error = FALSE
    BY DEF SameBut, Record, Fields
  <2>2. port' \in tch_report_entry(s, "ERR_TCH_XMIT")
    BY <1>3 DEF TchTurns
  <2> HIDE DEF s
  <2>3. Record(s) /\ ~s.tch_xmit
    BY <2>1 DEF SameBut, Fields
  <2>4. TchReported(s, port')
    BY <2>2, <2>3, TchReportFields DEF OfMessage
  <2>5. SameBut(Flags \union {"result", "pe_ams", "stray", "pe", "init", "error"}, port, port')
        /\ port'.error = FALSE
    BY <2>1, <2>4 DEF TchReported, SameBut, Fields, Flags
  <2>6. Released(port, port') /\ ToldOf("error", port, port')
    BY <2>1, <2>4 DEF TchReported, Released, ToldOf, SameBut, Fields, AmsEnds
  <2>7. PeGoesOn(port, port')
    BY <2>1, <2>4 DEF TchReported, PeGoesOn, SameBut, Fields
  <2> QED BY <1>1, <1>3, <2>5, <2>6, <2>7
<1>4. CASE /\ ~port.complete /\ ~port.error /\ port.tch_received /\ port.status # "success"
           /\ TchTurn(tch_received_entry(port))
  <2>1. port' = tch_received_entry(port)
    BY <1>4 DEF TchTurn, TchTurns
  <2>2. TchTook(port, port')
    BY <2>1, TchReceivedFields
  <2> QED BY <1>1, <1>4, <2>2 DEF TchTook, Flags, Released
<1> QED BY <1>2, <1>3, <1>4 DEF tch_transmission_run

TchConstructEffect ==
  /\ TchEffect /\ port.tch = "construct"
  /\ SameBut({"tch"}, port, port') /\ port'.tch = "sending"
\* tch waits for its chunk to be sent.
LEMMA TchConstructStep ==
  ASSUME Record(port), tch_construct_run
  PROVE  TchConstructEffect
<1> USE DEF TchConstructEffect
<1>1. TchEffect /\ port.tch = "construct" /\ port' = [port EXCEPT !.tch = "sending"]
  BY DEF tch_construct_run, TchTurn, TchTurns, Turn, TchEffect
<1> QED BY <1>1 DEF SameBut, Record, Fields

TchSendingEffect ==
  /\ TchEffect /\ port.tch = "sending"
  /\ \/ /\ port.error
        /\ SameBut(Flags \union {"result", "pe_ams", "stray", "pe", "init"}, port, port')
        /\ Released(port, port') /\ ToldOf("error", port, port') /\ PeGoesOn(port, port')
     \/ /\ port.complete /\ port.to_send = Chunks - 1 /\ port'.complete = FALSE
        /\ SameBut(Flags \union {"result", "pe_ams", "stray", "complete"}, port, port')
        /\ Released(port, port') /\ ToldOf("sent", port, port')
     \/ /\ port.tch_received /\ SameBut(Flags, port, port') /\ Released(port, port')
     \/ /\ ~port.error /\ port.complete /\ port.to_send # Chunks - 1 /\ ~port.tch_received
        /\ SameBut({"tch", "to_send", "complete"}, port, port')
        /\ port'.tch = "wait_request" /\ port'.complete = FALSE
        /\ port'.to_send = port.to_send + 1
\* tch goes on after a chunk: it ends, or waits for a request.
LEMMA TchSendingStep ==
  ASSUME Record(port), ~port.tch_xmit, tch_sending_run
  PROVE  TchSendingEffect
<1> USE DEF TchSendingEffect
<1> DEFINE s == [port EXCEPT !.complete = FALSE]
<1>1. SameBut({"complete"}, port, s) /\ s.complete = FALSE
  BY DEF SameBut, Record, Fields
<1>2. TchEffect /\ port.tch = "sending"
  BY DEF tch_sending_run, TchTurn, TchTurns, Turn, TchEffect
<1>3. \/ port.error /\ port' \in tch_report_entry(port, "ERR_TCH_XMIT")
      \/ port.complete /\ port.to_send = Chunks - 1 /\ port' = tch_sent_entry(s)
      \/ port.tch_received /\ port' = tch_received_entry(port)
      \/ /\ ~port.error /\ port.complete /\ port.to_send # Chunks - 1 /\ ~port.tch_received
         /\ port' = tch_wait_request_entry(s)
  BY DEF tch_sending_run, TchTurn, TchTurns
<1> HIDE DEF s
<1>4. Record(s) /\ ~s.tch_xmit
  BY <1>1 DEF SameBut, Fields
<1>5. CASE port.error /\ port' \in tch_report_entry(port, "ERR_TCH_XMIT")
  <2>1. TchReported(port, port')
    BY <1>5, TchReportFields DEF OfMessage
  <2> QED BY <1>2, <1>5, <2>1 DEF TchReported, ToldOf
<1>6. CASE port.complete /\ port.to_send = Chunks - 1 /\ port' = tch_sent_entry(s)
  <2>4. TchSent(s, port')
    BY <1>4, <1>6, SentFields
  <2>5. SameBut(Flags \union {"result", "pe_ams", "stray", "complete"}, port, port')
        /\ port'.complete = FALSE
    BY <1>1, <2>4 DEF TchSent, SameBut, Fields, Flags
  <2>6. Released(port, port') /\ ToldOf("sent", port, port')
    BY <1>1, <2>4 DEF TchSent, Released, ToldOf, SameBut, Fields, AmsEnds
  <2> QED BY <1>2, <1>6, <2>5, <2>6
<1>7. CASE port.tch_received /\ port' = tch_received_entry(port)
  <2>2. TchTook(port, port')
    BY <1>7, TchReceivedFields
  <2> QED BY <1>2, <1>7, <2>2 DEF TchTook, Flags, Released
<1>8. CASE /\ ~port.error /\ port.complete /\ port.to_send # Chunks - 1 /\ ~port.tch_received
           /\ port' = tch_wait_request_entry(s)
  <2>1. port' = [s EXCEPT !.tch = "wait_request", !.to_send = @ + 1]
    BY <1>8 DEF tch_wait_request_entry
  <2>2. /\ SameBut({"tch", "to_send"}, s, port')
        /\ port'.tch = "wait_request" /\ port'.to_send = s.to_send + 1
    BY <1>4, <2>1 DEF SameBut, Record, Fields
  <2>3. SameBut({"tch", "to_send", "complete"}, port, port') /\ port'.complete = FALSE
        /\ s.to_send = port.to_send
    BY <1>1, <2>2 DEF SameBut, Fields
  <2> QED BY <1>2, <1>8, <2>2, <2>3
<1> QED BY <1>3, <1>5, <1>6, <1>7, <1>8

TchRequestEffect ==
  /\ TchEffect /\ port.tch = "wait_request" /\ port.tch_received
  /\ \/ SameBut(Flags, port, port') /\ Released(port, port')
     \/ /\ port.emsg.kind = "request"
        /\ SameBut({"tch", "tch_received", "tx_xmit", "out"}, port, port')
        /\ port'.tch_received = FALSE /\ port'.tch = "construct" /\ port'.tx_xmit = TRUE
        /\ port'.out = Content("chunk", port.tx_emsg.n, port.to_send)
        /\ port.emsg.c = port.to_send
     \/ /\ port.emsg.kind = "request" /\ port'.tch_received = FALSE /\ port'.tch = "wait"
        /\ SameBut({"tch", "tch_received", "result", "pe_ams", "stray", "pe", "init"},
                   port, port')
        /\ ToldOf("error", port, port') /\ PeGoesOn(port, port')
\* tch takes a message while it waits for a request.
LEMMA TchRequestStep ==
  ASSUME Record(port), ~port.tch_xmit, tch_wait_request_run
  PROVE  TchRequestEffect
<1> USE DEF TchRequestEffect
<1> DEFINE s == [port EXCEPT !.tch_received = FALSE]
<1>1. SameBut({"tch_received"}, port, s) /\ s.tch_received = FALSE
  BY DEF SameBut, Record, Fields
<1>2. /\ TchEffect /\ port.tch = "wait_request" /\ port.tch_received
      /\ port' \in (CASE s.emsg.kind # "request" -> {tch_received_entry(s)}
                      [] s.emsg.kind = "request" /\ s.emsg.c = s.to_send -> {tch_construct_entry(s)}
                      [] OTHER -> tch_report_entry(s, "ERR_TCH_CHUNKED"))
  BY DEF tch_wait_request_run, TchTurns, Turn, TchEffect
<1> HIDE DEF s
<1>3. /\ Record(s) /\ ~s.tch_xmit /\ ~s.tch_received
      /\ s.emsg = port.emsg /\ s.to_send = port.to_send /\ s.tx_emsg = port.tx_emsg
  BY <1>1 DEF SameBut, Fields
<1>4. CASE s.emsg.kind # "request"
  <2>1. TchTook(s, port')
    BY <1>2, <1>3, <1>4, TchReceivedFields
  <2>2. SameBut(Flags, port, port')
    BY <1>1, <1>3, <2>1 DEF TchTook, SameBut, Fields, Flags
  <2> QED BY <1>2, <2>1, <2>2 DEF TchTook, Released
<1>5. CASE s.emsg.kind = "request" /\ s.emsg.c = s.to_send
  <2>1. port' = tch_construct_entry(s)
    BY <1>2, <1>5
  <2> DEFINE c == Content("chunk", s.tx_emsg.n, s.to_send)
  <2>2. port' = [s EXCEPT !.tch = "construct", !.tx_xmit = TRUE, !.out = c]
    BY <1>3, <2>1 DEF tch_construct_entry
  <2>3. c = Content("chunk", port.tx_emsg.n, port.to_send)
    BY <1>3
  <2> HIDE DEF c
  <2>4. /\ SameBut({"tch", "tx_xmit", "out"}, s, port')
        /\ port'.tch = "construct" /\ port'.tx_xmit = TRUE /\ port'.out = c
    BY <1>3, <2>2 DEF SameBut, Record, Fields
  <2>5. SameBut({"tch", "tch_received", "tx_xmit", "out"}, port, port') /\ port'.tch_received = FALSE
    BY <1>1, <2>4 DEF SameBut, Fields
  <2> QED BY <1>2, <1>3, <1>5, <2>3, <2>4, <2>5
<1>6. CASE s.emsg.kind = "request" /\ s.emsg.c # s.to_send
  <2>1. port' \in tch_report_entry(s, "ERR_TCH_CHUNKED")
    BY <1>2, <1>6
  <2>2. TchReported(s, port')
    BY <1>3, <2>1, TchReportFields DEF OfMessage
  <2>3. /\ SameBut({"tch", "tch_received", "result", "pe_ams", "stray", "pe", "init"}, port, port')
        /\ port'.tch_received = FALSE /\ port'.tch = "wait"
    <3>1. /\ port'.tch = "wait" /\ port'.tch_received = s.tch_received
          /\ port'.rch_received = s.rch_received /\ port'.tch_xmit = s.tch_xmit
      BY <1>3, <2>2 DEF TchReported, Released
    <3>2. SameBut(Flags \union {"result", "pe_ams", "stray", "pe", "init"}, s, port')
      BY <2>2 DEF TchReported
    <3> QED BY <1>1, <3>1, <3>2 DEF SameBut, Fields, Flags
  <2>4. PeGoesOn(port, port')
    BY <1>1, <2>2 DEF TchReported, PeGoesOn, SameBut, Fields
  <2>5. ToldOf("error", port, port')
    BY <1>1, <2>2 DEF TchReported, ToldOf, SameBut, Fields, AmsEnds
  <2> QED BY <1>2, <1>3, <1>6, <2>3, <2>4, <2>5
<1> QED BY <1>4, <1>5, <1>6

TchRequestTimeoutEffect ==
  /\ TchEffect /\ port.tch = "wait_request" /\ ~port.tch_received /\ port'.tch = "wait"
  /\ SameBut({"tch", "result", "pe_ams", "stray"}, port, port')
  /\ ToldOf("sent", port, port')
\* tch ends without a request: the partner needs no more chunks.
LEMMA TchRequestTimeoutStep ==
  ASSUME Record(port), ~port.tch_xmit, tch_wait_request_timeout
  PROVE  TchRequestTimeoutEffect
<1> USE DEF TchRequestTimeoutEffect
<1>1. /\ TchEffect /\ port.tch = "wait_request" /\ ~port.tch_received
      /\ port' = tch_sent_entry(port)
  BY DEF tch_wait_request_timeout, TchTurn, TchTurns, Turn, TchEffect
<1>2. TchSent(port, port')
  BY <1>1, SentFields
<1>3. /\ port'.tch = "wait" /\ port'.tch_received = port.tch_received
      /\ port'.rch_received = port.rch_received /\ port'.tch_xmit = port.tch_xmit
  BY <1>1, <1>2 DEF TchSent, Released
<1>4. SameBut(Flags \union {"result", "pe_ams", "stray"}, port, port')
  BY <1>2 DEF TchSent
<1>5. SameBut({"tch", "result", "pe_ams", "stray"}, port, port')
  BY <1>3, <1>4 DEF SameBut, Fields, Flags
<1> QED BY <1>1, <1>2, <1>3, <1>5 DEF TchSent, ToldOf

TchReceivedRunEffect ==
  /\ TchEffect /\ port.tch = "received"
  /\ SameBut({"tch"}, port, port') /\ port'.tch = "wait"
\* tch goes back to its wait.
LEMMA TchReceivedRunStep ==
  ASSUME Record(port), tch_received_run
  PROVE  TchReceivedRunEffect
<1> USE DEF TchReceivedRunEffect
<1>1. TchEffect /\ port.tch = "received" /\ port' = [port EXCEPT !.tch = "wait"]
  BY DEF tch_received_run, TchTurn, TchTurns, Turn, TchEffect, tch_wait_entry
<1> QED BY <1>1 DEF SameBut, Record, Fields

-----------------------------------------------------------------------------
(***************************************************************************)
(* What the actions change: tx.                                            *)
(***************************************************************************)
TxEffect == /\ port.pe # "hard_reset" /\ pc = "tx" /\ pc' = "tch2"
            /\ rxq' = rxq /\ partner' = partner

\* A message goes to the TCPC, or is not sent.
Constructs(s) ==
  /\ TxEffect /\ ~InFlight
  /\ SameBut({"tx", "status", "complete"}, s, port') /\ port'.tx = "phy" /\ port'.complete = FALSE
  /\ \/ port'.status = "discarded" /\ phy' = phy
     \/ port'.status = "wait" /\ phy' = phy
     \/ /\ port'.status = "wait" /\ rxq = <<>>
        /\ phy' = [id |-> s.counter, content |-> s.out, got |-> FALSE]
\* A message is given to the TCPC, or lost before.
LEMMA ConstructStep == ASSUME NEW s, Record(s), construct_message(s) PROVE Constructs(s)
<1> DEFINE t == [s EXCEPT !.tx = "phy", !.status = "wait", !.complete = FALSE]
           u == [t EXCEPT !.status = "discarded"]
<1>1. /\ SameBut({"tx", "status", "complete"}, s, t)
      /\ t.tx = "phy" /\ t.status = "wait" /\ t.complete = FALSE
  BY DEF SameBut, Record, Fields
<1>2. /\ TxEffect /\ ~InFlight
      /\ \/ port' = u /\ phy' = phy
         \/ port' = t /\ phy' = phy
         \/ rxq = <<>> /\ port' = t /\ phy' = [id |-> s.counter, content |-> s.out, got |-> FALSE]
  BY DEF construct_message, TxKeeps, TxTurn, Turn, TxEffect
<1> HIDE DEF t
<1>3. SameBut({"status"}, t, u) /\ u.status = "discarded"
  BY <1>1 DEF SameBut, Record, Fields
<1> HIDE DEF u
<1>4. /\ SameBut({"tx", "status", "complete"}, s, u)
      /\ u.tx = "phy" /\ u.complete = FALSE
  BY <1>1, <1>3 DEF SameBut, Fields
<1> QED BY <1>1, <1>2, <1>3, <1>4 DEF Constructs

PassFields == {"ams", "tx_xmit", "tx"}
Passes ==
  /\ port'.tx_xmit = FALSE
  /\ \/ /\ TxEffect /\ port.out.kind = "soft" /\ phy' = phy
        /\ SameBut(PassFields \union {"counter", "rx_id", "passed"}, port, port')
        /\ port'.tx = "layer_reset" /\ port'.counter = 0 /\ port'.rx_id = NoId
        /\ port'.passed = <<>>
     \/ /\ TxEffect /\ ~InFlight /\ port.out.kind # "soft"
        /\ SameBut(PassFields \union {"status", "complete"}, port, port')
        /\ port'.tx = "phy" /\ port'.complete = FALSE
        /\ \/ port'.status = "discarded" /\ phy' = phy
           \/ port'.status = "wait" /\ phy' = phy
           \/ /\ port'.status = "wait" /\ rxq = <<>>
              /\ phy' = [id |-> port.counter, content |-> port.out, got |-> FALSE]
\* A requested message goes to the TCPC, Soft_Reset after the ids are reset.
LEMMA PassStep ==
  ASSUME Record(port), NEW s, SameBut({"ams"}, port, s), Pass(s)
  PROVE  Passes /\ port'.ams = s.ams
<1> DEFINE t == [s EXCEPT !.tx_xmit = FALSE]
           v == prl_reset_msg_ids(t)
           u == [v EXCEPT !.tx = "layer_reset"]
<1>1. Record(s) /\ s.out = port.out /\ s.counter = port.counter
  BY DEF SameBut, Fields
<1>2. SameBut({"tx_xmit"}, s, t) /\ t.tx_xmit = FALSE
  BY <1>1 DEF SameBut, Record, Fields
<1>3. \/ s.out.kind = "soft" /\ TxEffect /\ phy' = phy /\ port' = u
      \/ s.out.kind # "soft" /\ construct_message(t)
  BY DEF Pass, TxKeeps, TxTurn, Turn, TxEffect
<1> HIDE DEF t
<1>4. SameBut({"counter", "rx_id", "passed"}, t, v) /\ v.counter = 0 /\ v.rx_id = NoId /\ v.passed = <<>>
  BY <1>2, ResetIdsFields DEF SameBut
<1> HIDE DEF v
<1>5. SameBut({"tx"}, v, u) /\ u.tx = "layer_reset"
  BY <1>4 DEF SameBut, Record, Fields
<1> HIDE DEF u
<1>6. CASE s.out.kind = "soft" /\ TxEffect /\ phy' = phy /\ port' = u
  <2>1. /\ SameBut(PassFields \union {"counter", "rx_id", "passed"}, port, u)
        /\ u.tx = "layer_reset" /\ u.counter = 0 /\ u.rx_id = NoId /\ u.passed = <<>>
        /\ u.tx_xmit = FALSE /\ u.ams = s.ams
    BY <1>2, <1>4, <1>5 DEF SameBut, Fields, PassFields
  <2> QED BY <1>1, <1>6, <2>1 DEF Passes
<1>7. CASE s.out.kind # "soft" /\ construct_message(t)
  <2>1. Constructs(t)
    BY <1>2, <1>7, ConstructStep DEF SameBut
  <2>2. t.counter = port.counter /\ t.out = port.out
    BY <1>1, <1>2 DEF SameBut, Fields
  <2>3. SameBut(PassFields \union {"status", "complete"}, port, port')
        /\ port'.tx_xmit = FALSE /\ port'.ams = s.ams
    BY <1>2, <2>1 DEF Constructs, SameBut, Fields, PassFields
  <2> QED BY <1>1, <1>7, <2>1, <2>2, <2>3 DEF Constructs, Passes
<1> QED BY <1>3, <1>6, <1>7

TxWaitEffect ==
  /\ TxEffect /\ port.tx = "wait" /\ port'.ams \in BOOLEAN
  /\ \/ /\ SameBut({"ams", "tx"}, port, port') /\ port'.tx = "start_ams" /\ phy' = phy
     \/ port.tx_xmit /\ Passes
     \/ SameBut({"ams"}, port, port') /\ phy' = phy
\* tx begins an AMS, passes a message or waits.
LEMMA TxWaitStep ==
  ASSUME Record(port), tx_wait_run
  PROVE  TxWaitEffect
<1> USE DEF TxWaitEffect
<1> DEFINE m == port.ams /\ port.pe_ams
           s == [port EXCEPT !.ams = m]
<1>a. m \in BOOLEAN
  OBVIOUS
<1>1. /\ TxEffect /\ port.tx = "wait"
      /\ \/ port' = [s EXCEPT !.ams = TRUE, !.tx = "start_ams"] /\ phy' = phy
         \/ s.tx_xmit /\ Pass(s)
         \/ port' = s /\ phy' = phy
  BY DEF tx_wait_run, Pass, construct_message, TxKeeps, TxTurn, Turn, TxEffect
<1> HIDE DEF m
<1>2. SameBut({"ams"}, port, s) /\ s.ams = m
  <2>1. Record(s)
    BY DEF Record
  <2>2. \A f \in Fields \ {"ams"} : s[f] = port[f]
    BY DEF Record, Fields
  <2>3. s.ams = m
    BY DEF Record, Fields
  <2> QED BY <2>1, <2>2, <2>3 DEF SameBut
<1> HIDE DEF s
<1>3. CASE port' = [s EXCEPT !.ams = TRUE, !.tx = "start_ams"] /\ phy' = phy
  <2>1. SameBut({"ams", "tx"}, s, port') /\ port'.tx = "start_ams" /\ port'.ams = TRUE
    BY <1>2, <1>3 DEF SameBut, Record, Fields
  <2>2. SameBut({"ams", "tx"}, port, port')
    BY <1>2, <2>1 DEF SameBut, Fields
  <2> QED BY <1>1, <1>3, <2>1, <2>2
<1>4. CASE s.tx_xmit /\ Pass(s)
  <2>1. Passes /\ port'.ams = s.ams
    BY <1>2, <1>4, PassStep
  <2>2. port.tx_xmit
    BY <1>2, <1>4 DEF SameBut, Fields
  <2> QED BY <1>a, <1>1, <1>2, <2>1, <2>2
<1>5. CASE port' = s /\ phy' = phy
  BY <1>a, <1>1, <1>2, <1>5
<1> QED BY <1>1, <1>3, <1>4, <1>5

TxStartAmsEffect ==
  /\ TxEffect /\ port.tx = "start_ams" /\ phy' = phy /\ SameBut({"tx"}, port, port')
  /\ \/ port'.tx = "pending" /\ port.tx_xmit
     \/ port'.tx = "start_ams"
\* tx waits for the first message of an AMS.
LEMMA TxStartAmsStep ==
  ASSUME Record(port), tx_start_ams_run
  PROVE  TxStartAmsEffect
<1> USE DEF TxStartAmsEffect
<1>1. /\ TxEffect /\ port.tx = "start_ams" /\ phy' = phy
      /\ \/ port' = [port EXCEPT !.tx = "pending"] /\ port.tx_xmit
         \/ port' = port
  BY DEF tx_start_ams_run, TxKeeps, TxTurn, Turn, TxEffect
<1>2. CASE port' = [port EXCEPT !.tx = "pending"] /\ port.tx_xmit
  BY <1>1, <1>2 DEF SameBut, Record, Fields
<1>3. CASE port' = port
  BY <1>1, <1>3 DEF SameBut
<1> QED BY <1>1, <1>2, <1>3

TxPendingEffect ==
  TxEffect /\ port.tx = "pending"
  /\ ((Passes /\ port'.ams = port.ams) \/ (port' = port /\ phy' = phy))
\* tx passes the first message of an AMS, or waits.
LEMMA TxPendingStep ==
  ASSUME Record(port), tx_pending_run
  PROVE  TxPendingEffect
<1> USE DEF TxPendingEffect
<1>1. /\ TxEffect /\ port.tx = "pending"
      /\ Pass(port) \/ (port' = port /\ phy' = phy)
  BY DEF tx_pending_run, Pass, construct_message, TxKeeps, TxTurn, Turn, TxEffect
<1>2. SameBut({"ams"}, port, port)
  BY DEF SameBut
<1> QED BY <1>1, <1>2, PassStep

\* tx passes Soft_Reset once the ids are reset.
LEMMA TxLayerResetStep ==
  ASSUME Record(port), tx_layer_reset_run
  PROVE  port.tx = "layer_reset" /\ Constructs(port)
BY ConstructStep DEF tx_layer_reset_run

\* A message is done with the TCPC.
TxDone(s) ==
  /\ TxEffect /\ port.tx = "phy" /\ phy' = phy
  /\ SameBut({"tx", "status", "counter", "mishaps"}, s, port')
  /\ port'.tx = "wait" /\ port'.status = "unset" /\ port'.counter = NextId(port.counter)
  /\ port.mishaps \subseteq port'.mishaps /\ port'.mishaps \subseteq port.mishaps \union Mishaps
  /\ port.pe # "soft_reset" /\ NextId(port.counter) = partner.stored => "wrapped" \in port'.mishaps

\* tx counts on and waits.
LEMMA TxDoneStep ==
  ASSUME Record(port), NEW s, Record(s), s.counter = port.counter, s.mishaps = port.mishaps,
         s.pe = port.pe, TxEffect, port.tx = "phy", phy' = phy,
         port' = tx_wait_entry(increment_msgid_counter(s))
  PROVE  TxDone(s)
<1> DEFINE t == increment_msgid_counter(s)
<1>1. /\ SameBut({"counter", "mishaps"}, s, t) /\ t.counter = NextId(s.counter)
      /\ t.mishaps = s.mishaps \union
           (IF s.pe # "soft_reset" /\ NextId(s.counter) = partner.stored THEN {"wrapped"} ELSE {})
  BY IncrementFields
<1> HIDE DEF t
<1>2. SameBut({"tx", "status"}, t, port') /\ port'.tx = "wait" /\ port'.status = "unset"
  BY <1>1, TxWaitFields DEF SameBut, t
<1>3. SameBut({"tx", "status", "counter", "mishaps"}, s, port')
      /\ port'.counter = t.counter /\ port'.mishaps = t.mishaps
  BY <1>1, <1>2 DEF SameBut, Fields
<1> QED BY <1>1, <1>2, <1>3 DEF TxDone, Mishaps

TxSuccessEffect ==
  /\ port.status = "success" /\ port'.complete = TRUE
  /\ \E s : SameBut({"complete"}, port, s) /\ TxDone(s)
\* The message was sent.
LEMMA TxSuccessStep ==
  ASSUME Record(port), tx_phy_success
  PROVE  TxSuccessEffect
<1> USE DEF TxSuccessEffect
<1> DEFINE s == [port EXCEPT !.complete = TRUE]
<1>1. SameBut({"complete"}, port, s) /\ s.complete = TRUE
  BY DEF SameBut, Record, Fields
<1>2. /\ TxEffect /\ port.tx = "phy" /\ phy' = phy /\ port.status = "success"
      /\ port' = tx_wait_entry(increment_msgid_counter(s))
  BY DEF tx_phy_success, TxKeeps, TxTurn, Turn, TxEffect
<1> HIDE DEF s
<1>3. Record(s) /\ s.counter = port.counter /\ s.mishaps = port.mishaps /\ s.pe = port.pe
  BY <1>1 DEF SameBut, Fields
<1>4. TxDone(s)
  BY <1>2, <1>3, TxDoneStep
<1>5. port'.complete = TRUE
  BY <1>1, <1>4 DEF TxDone, SameBut, Fields
<1> QED BY <1>1, <1>2, <1>4, <1>5

TxErrorEffect ==
  /\ port.status = "failed" \/ (port.status # "success" /\ ~InFlight)
  /\ port'.error = TRUE
  /\ \E s : SameBut({"error"}, port, s) /\ TxDone(s)
\* The message was not sent.
LEMMA TxErrorStep ==
  ASSUME Record(port), tx_phy_error
  PROVE  TxErrorEffect
<1> USE DEF TxErrorEffect
<1> DEFINE s == [port EXCEPT !.error = TRUE]
<1>1. SameBut({"error"}, port, s) /\ s.error = TRUE
  BY DEF SameBut, Record, Fields
<1>2. /\ TxEffect /\ port.tx = "phy" /\ phy' = phy
      /\ port.status = "failed" \/ (port.status # "success" /\ ~InFlight)
      /\ port' = tx_wait_entry(increment_msgid_counter(s))
  BY DEF tx_phy_error, TxKeeps, TxTurn, Turn, TxEffect, InFlight
<1> HIDE DEF s
<1>3. Record(s) /\ s.counter = port.counter /\ s.mishaps = port.mishaps /\ s.pe = port.pe
  BY <1>1 DEF SameBut, Fields
<1>4. TxDone(s)
  BY <1>2, <1>3, TxDoneStep
<1>5. port'.error = TRUE
  BY <1>1, <1>4 DEF TxDone, SameBut, Fields
<1> QED BY <1>1, <1>2, <1>4, <1>5

-----------------------------------------------------------------------------
(***************************************************************************)
(* What the actions change: the TCPC and the partner.                      *)
(***************************************************************************)
PartnerFields ==
  {"counter", "stored", "n", "owes", "chunking", "resets", "awaits_accept", "accepted"}
PartnerRecord(q) == DOMAIN q = PartnerFields /\ q = [f \in DOMAIN q |-> q[f]]
PartnerBut(F, q, r) == PartnerRecord(r) /\ \A f \in PartnerFields \ F : r[f] = q[f]

PartnerTypes(q) ==
  /\ q.counter \in MsgIds /\ q.stored \in MsgIds \union {NoId} /\ q.n \in 0 .. MaxMessages
  /\ q.owes \in {"nothing", "request", "chunk", "accept"} /\ q.chunking \in BOOLEAN
  /\ q.resets \in 0 .. MaxSoftResets /\ q.awaits_accept \in BOOLEAN /\ q.accepted \in SUBSET Nat
\* The types of Partners, one field at a time.
LEMMA PartnersAreTyped ==
  ASSUME NEW q PROVE q \in Partners <=> PartnerRecord(q) /\ PartnerTypes(q)
<1>1. q \in Partners => PartnerRecord(q) /\ PartnerTypes(q)
  BY DEF PartnerRecord, PartnerTypes, Partners, PartnerFields
<1>2. PartnerRecord(q) /\ PartnerTypes(q) => q \in Partners
  BY DEF PartnerRecord, PartnerTypes, Partners, PartnerFields
<1> QED BY <1>1, <1>2

\* The status of a transmission that is over.
StatusSet ==
  /\ SameBut({"status"}, port, port') /\ port'.status \in {"success", "failed", "discarded"}
  /\ port'.status = "success" => phy.got

CompleteEffect ==
  /\ Alive /\ InFlight /\ phy' = NoPhy /\ StatusSet
  /\ pc' = pc /\ rxq' = rxq /\ partner' = partner
\* The TCPC is done with a transmission.
LEMMA CompleteStep ==
  ASSUME Record(port), tcpc_tx_complete
  PROVE  CompleteEffect
<1> USE DEF CompleteEffect
<1>1. /\ Alive /\ InFlight /\ phy' = NoPhy /\ pc' = pc /\ rxq' = rxq /\ partner' = partner
  BY DEF tcpc_tx_complete
<1>2. PICK status \in (IF phy.got THEN {"success", "failed"} ELSE {"failed"}) :
        port' = [port EXCEPT !.status = status]
  BY DEF tcpc_tx_complete
<1>3. SameBut({"status"}, port, port') /\ port'.status = status
  BY <1>2 DEF SameBut, Record, Fields
<1> QED BY <1>1, <1>2, <1>3 DEF StatusSet

\* A message of the partner arrives.
Sends(id, content) ==
  /\ Alive /\ pc' = pc /\ phy' = NoPhy /\ Len(rxq) < CacheDepth
  /\ LET m == [id |-> id, content |-> content] IN
     \/ rxq' = Append(rxq, m)
     \/ Len(rxq) + 1 < CacheDepth /\ rxq' = rxq \o <<m, m>>
  /\ ~InFlight => port' = port
  /\ InFlight => StatusSet

\* A message of the partner is cached, once or twice.
LEMMA SendStep ==
  ASSUME Record(port), NEW q, PartnerRecord(q), NEW content, Send(q, content)
  PROVE  /\ Sends(q.counter, content)
         /\ PartnerBut({"counter"}, q, partner') /\ partner'.counter = NextId(q.counter)
<1>1. PartnerBut({"counter"}, q, partner') /\ partner'.counter = NextId(q.counter)
  BY DEF Send, PartnerBut, PartnerRecord, PartnerFields
<1>2. /\ Alive /\ pc' = pc /\ phy' = NoPhy /\ Len(rxq) < CacheDepth
      /\ LET m == [id |-> q.counter, content |-> content] IN
         \/ rxq' = Append(rxq, m)
         \/ Len(rxq) + 1 < CacheDepth /\ rxq' = rxq \o <<m, m>>
      /\ ~InFlight => port' = port
  BY DEF Send
<1>3. ASSUME InFlight PROVE StatusSet
  <2>1. PICK status \in {"discarded", "failed"} \union (IF phy.got THEN {"success"} ELSE {}) :
          port' = [port EXCEPT !.status = status]
    BY <1>3 DEF Send
  <2>2. SameBut({"status"}, port, port') /\ port'.status = status
    BY <2>1 DEF SameBut, Record, Fields
  <2> QED BY <2>1, <2>2 DEF StatusSet
<1> QED BY <1>1, <1>2, <1>3 DEF Sends

PartnerMessageEffect ==
  /\ partner.n < MaxMessages /\ ~partner.awaits_accept /\ partner.owes # "accept"
  /\ PartnerBut({"counter", "n", "owes", "chunking"}, partner, partner')
  /\ partner'.counter = NextId(partner.counter) /\ partner'.n = partner.n + 1
  /\ partner'.owes = "nothing"
  /\ \/ partner'.chunking = FALSE
        /\ Sends(partner.counter, Content("plain", partner.n + 1, 0))
     \/ partner'.chunking = TRUE
        /\ Sends(partner.counter, Content("chunk", partner.n + 1, 0))
\* The partner begins a message.
LEMMA PartnerMessageStep ==
  ASSUME Record(port), PartnerRecord(partner), partner_message
  PROVE  PartnerMessageEffect
<1> USE DEF PartnerMessageEffect
<1>1. PICK kind \in {"plain", "chunk"} :
        Send([partner EXCEPT !.n = @ + 1, !.owes = "nothing", !.chunking = (kind = "chunk")],
             Content(kind, partner.n + 1, 0))
  BY DEF partner_message
<1> DEFINE b == (kind = "chunk")
           q == [partner EXCEPT !.n = @ + 1, !.owes = "nothing", !.chunking = b]
           c == Content(kind, partner.n + 1, 0)
<1>2. Send(q, c)
  BY <1>1
<1>3. (kind = "plain" /\ b = FALSE) \/ (kind = "chunk" /\ b = TRUE)
  OBVIOUS
<1> HIDE DEF b
<1>4. PartnerRecord(q)
  BY DEF PartnerRecord
<1>5. \A f \in PartnerFields \ {"n", "owes", "chunking"} : q[f] = partner[f]
  BY DEF PartnerRecord, PartnerFields
<1>6. q.n = partner.n + 1 /\ q.owes = "nothing" /\ q.chunking = b
  BY DEF PartnerRecord, PartnerFields
<1> HIDE DEF q, c
<1>7. /\ Sends(q.counter, c)
      /\ PartnerBut({"counter"}, q, partner') /\ partner'.counter = NextId(q.counter)
  BY <1>2, <1>4, SendStep
<1>8. PartnerBut({"counter", "n", "owes", "chunking"}, partner, partner')
      /\ q.counter = partner.counter
      /\ partner'.n = partner.n + 1 /\ partner'.owes = "nothing" /\ partner'.chunking = b
  BY <1>5, <1>6, <1>7 DEF PartnerBut, PartnerFields
<1>9. partner.n < MaxMessages /\ ~partner.awaits_accept /\ partner.owes # "accept"
  BY DEF partner_message
<1> QED BY <1>3, <1>7, <1>8, <1>9 DEF c

PartnerRequestEffect ==
  /\ partner.owes = "request" /\ Sends(partner.counter, Content("request", 0, 1))
  /\ PartnerBut({"counter", "owes"}, partner, partner')
  /\ partner'.counter = NextId(partner.counter) /\ partner'.owes = "nothing"
\* The partner requests a chunk.
LEMMA PartnerRequestStep ==
  ASSUME Record(port), PartnerRecord(partner), partner_request
  PROVE  PartnerRequestEffect
<1> USE DEF PartnerRequestEffect
<1> DEFINE q == [partner EXCEPT !.owes = "nothing"]
<1>1. partner.owes = "request" /\ Send(q, Content("request", 0, 1))
  BY DEF partner_request
<1>2. PartnerBut({"owes"}, partner, q) /\ q.owes = "nothing"
  BY DEF PartnerBut, PartnerRecord, PartnerFields
<1> HIDE DEF q
<1>3. /\ Sends(q.counter, Content("request", 0, 1))
      /\ PartnerBut({"counter"}, q, partner') /\ partner'.counter = NextId(q.counter)
  BY <1>1, <1>2, SendStep DEF PartnerBut
<1>4. /\ PartnerBut({"counter", "owes"}, partner, partner') /\ q.counter = partner.counter
      /\ partner'.owes = "nothing"
  BY <1>2, <1>3 DEF PartnerBut, PartnerFields
<1> QED BY <1>1, <1>3, <1>4

PartnerChunkEffect ==
  /\ partner.owes = "chunk" /\ Sends(partner.counter, Content("chunk", partner.n, 1))
  /\ PartnerBut({"counter", "owes", "chunking"}, partner, partner')
  /\ partner'.counter = NextId(partner.counter) /\ partner'.owes = "nothing"
  /\ partner'.chunking = FALSE
\* The partner sends its second chunk.
LEMMA PartnerChunkStep ==
  ASSUME Record(port), PartnerRecord(partner), partner_chunk
  PROVE  PartnerChunkEffect
<1> USE DEF PartnerChunkEffect
<1> DEFINE q == [partner EXCEPT !.owes = "nothing", !.chunking = FALSE]
<1>1. partner.owes = "chunk" /\ Send(q, Content("chunk", partner.n, 1))
  BY DEF partner_chunk
<1>2. PartnerBut({"owes", "chunking"}, partner, q) /\ q.owes = "nothing" /\ q.chunking = FALSE
  BY DEF PartnerBut, PartnerRecord, PartnerFields
<1> HIDE DEF q
<1>3. /\ Sends(q.counter, Content("chunk", partner.n, 1))
      /\ PartnerBut({"counter"}, q, partner') /\ partner'.counter = NextId(q.counter)
  BY <1>1, <1>2, SendStep DEF PartnerBut
<1>4. /\ PartnerBut({"counter", "owes", "chunking"}, partner, partner')
      /\ q.counter = partner.counter
      /\ partner'.owes = "nothing" /\ partner'.chunking = FALSE
  BY <1>2, <1>3 DEF PartnerBut, PartnerFields
<1> QED BY <1>1, <1>3, <1>4

PartnerAcceptEffect ==
  /\ partner.owes = "accept" /\ partner.n < MaxMessages
  /\ Sends(partner.counter, Content("plain", partner.n + 1, 0))
  /\ PartnerBut({"counter", "n", "owes"}, partner, partner')
  /\ partner'.counter = NextId(partner.counter) /\ partner'.owes = "nothing"
  /\ partner'.n = partner.n + 1
\* The partner answers a Soft_Reset.
LEMMA PartnerAcceptStep ==
  ASSUME Record(port), PartnerRecord(partner), partner_accept
  PROVE  PartnerAcceptEffect
<1> USE DEF PartnerAcceptEffect
<1> DEFINE q == [partner EXCEPT !.n = @ + 1, !.owes = "nothing"]
           c == Content("plain", partner.n + 1, 0)
<1>1. partner.owes = "accept" /\ partner.n < MaxMessages /\ Send(q, c)
  BY DEF partner_accept
<1>2. PartnerBut({"n", "owes"}, partner, q) /\ q.owes = "nothing" /\ q.n = partner.n + 1
  BY DEF PartnerBut, PartnerRecord, PartnerFields
<1> HIDE DEF q, c
<1>3. /\ Sends(q.counter, c)
      /\ PartnerBut({"counter"}, q, partner') /\ partner'.counter = NextId(q.counter)
  BY <1>1, <1>2, SendStep DEF PartnerBut
<1>4. /\ PartnerBut({"counter", "n", "owes"}, partner, partner')
      /\ q.counter = partner.counter
      /\ partner'.owes = "nothing" /\ partner'.n = partner.n + 1
  BY <1>2, <1>3 DEF PartnerBut, PartnerFields
<1> QED BY <1>1, <1>3, <1>4 DEF c

PartnerSoftResetEffect ==
  /\ partner.resets < MaxSoftResets /\ partner.owes # "accept"
  /\ Sends(0, Content("soft", 0, 0))
  /\ PartnerBut({"counter", "stored", "resets", "owes", "chunking", "awaits_accept"},
                partner, partner')
  /\ partner'.counter = NextId(0) /\ partner'.owes = "nothing" /\ partner'.stored = NoId
  /\ partner'.resets = partner.resets + 1 /\ partner'.chunking = FALSE
  /\ partner'.awaits_accept = TRUE
\* The partner resets its layer and sends Soft_Reset.
LEMMA PartnerSoftResetStep ==
  ASSUME Record(port), PartnerRecord(partner), partner_soft_reset
  PROVE  PartnerSoftResetEffect
<1> USE DEF PartnerSoftResetEffect
<1> DEFINE q == [partner EXCEPT !.resets = @ + 1, !.counter = 0, !.stored = NoId,
                                !.owes = "nothing", !.chunking = FALSE, !.awaits_accept = TRUE]
           F == {"counter", "stored", "resets", "owes", "chunking", "awaits_accept"}
<1>1. partner.resets < MaxSoftResets /\ partner.owes # "accept" /\ Send(q, Content("soft", 0, 0))
  BY DEF partner_soft_reset
<1>2. PartnerRecord(q)
  BY DEF PartnerRecord
<1>3. \A f \in PartnerFields \ F : q[f] = partner[f]
  BY DEF PartnerRecord, PartnerFields
<1>4. /\ q.counter = 0 /\ q.owes = "nothing" /\ q.stored = NoId
      /\ q.resets = partner.resets + 1 /\ q.chunking = FALSE /\ q.awaits_accept = TRUE
  BY DEF PartnerRecord, PartnerFields
<1> HIDE DEF q
<1>5. /\ Sends(q.counter, Content("soft", 0, 0))
      /\ PartnerBut({"counter"}, q, partner') /\ partner'.counter = NextId(q.counter)
  BY <1>1, <1>2, SendStep
<1>6. PartnerBut(F, partner, partner')
  BY <1>3, <1>5 DEF PartnerBut, PartnerFields
<1>7. /\ partner'.owes = "nothing" /\ partner'.stored = NoId
      /\ partner'.resets = partner.resets + 1 /\ partner'.chunking = FALSE
      /\ partner'.awaits_accept = TRUE
  BY <1>4, <1>5 DEF PartnerBut, PartnerFields
<1> QED BY <1>1, <1>4, <1>5, <1>6, <1>7

PhyGot == phy' = [phy EXCEPT !.got = TRUE]
PartnerReceivesEffect ==
  /\ Alive /\ InFlight /\ ~phy.got /\ pc' = pc /\ rxq' = rxq /\ port' = port /\ PhyGot
  /\ phy'.id = phy.id /\ phy'.content = phy.content /\ phy'.got = TRUE
  /\ \/ phy.content.kind # "soft" /\ phy.id = partner.stored /\ partner' = partner
     \/ /\ phy.content.kind = "soft" \/ phy.id # partner.stored
        /\ PartnerBut({"counter", "stored", "owes", "chunking", "awaits_accept", "accepted"},
                      partner, partner')
        /\ partner'.stored = phy.id
        /\ partner'.accepted = partner.accepted \union {phy.content.n}
        /\ \/ /\ phy.content.kind = "soft" /\ partner'.counter = 0
              /\ partner'.owes = "accept" /\ partner'.chunking = FALSE
              /\ partner'.awaits_accept = FALSE
           \/ /\ phy.content.kind \in {"plain", "chunk"}
              /\ partner'.counter = partner.counter
              /\ partner'.owes \in {"nothing", "request"} /\ partner'.chunking = FALSE
              /\ partner'.awaits_accept \in {partner.awaits_accept, FALSE}
           \/ /\ phy.content.kind \notin {"soft", "plain", "chunk"}
              /\ partner'.counter = partner.counter
              /\ partner'.owes = (IF partner.chunking THEN "chunk" ELSE "nothing")
              /\ partner'.chunking = partner.chunking
              /\ partner'.awaits_accept = partner.awaits_accept
\* The partner takes what is in flight, or drops a duplicate.
LEMMA PartnerReceivesStep ==
  ASSUME PartnerRecord(partner), DOMAIN phy = {"id", "content", "got"}, partner_receives
  PROVE  PartnerReceivesEffect
<1> USE DEF PartnerReceivesEffect
<1> DEFINE c == phy.content
           a == partner.accepted \union {c.n}
           q == [partner EXCEPT !.stored = phy.id, !.accepted = a]
           F == {"counter", "stored", "owes", "chunking", "awaits_accept", "accepted"}
<1>1. /\ Alive /\ InFlight /\ ~phy.got /\ pc' = pc /\ rxq' = rxq /\ port' = port
      /\ PhyGot
  BY DEF partner_receives, PhyGot
<1>2. phy'.id = phy.id /\ phy'.content = phy.content /\ phy'.got = TRUE
  BY <1>1 DEF PhyGot
<1>3. partner' =
        CASE c.kind = "soft" ->
               [q EXCEPT !.counter = 0, !.owes = "accept", !.chunking = FALSE,
                         !.awaits_accept = FALSE]
          [] c.kind # "soft" /\ phy.id = partner.stored -> partner
          [] c.kind = "plain" /\ phy.id # partner.stored ->
               [q EXCEPT !.owes = "nothing", !.chunking = FALSE, !.awaits_accept = FALSE]
          [] c.kind = "chunk" /\ phy.id # partner.stored ->
               [q EXCEPT !.owes = IF c.c = 0 THEN "request" ELSE "nothing", !.chunking = FALSE]
          [] OTHER ->
               [q EXCEPT !.owes = IF partner.chunking THEN "chunk" ELSE "nothing"]
  BY DEF partner_receives
<1> HIDE DEF a
<1>4. PartnerBut({"stored", "accepted"}, partner, q) /\ q.stored = phy.id /\ q.accepted = a
  BY DEF PartnerBut, PartnerRecord, PartnerFields
<1> HIDE DEF q, c
<1>5. CASE c.kind = "soft"
  <2>1. partner' = [q EXCEPT !.counter = 0, !.owes = "accept", !.chunking = FALSE,
                             !.awaits_accept = FALSE]
    BY <1>3, <1>5
  <2>2. /\ PartnerBut({"counter", "owes", "chunking", "awaits_accept"}, q, partner')
        /\ partner'.counter = 0 /\ partner'.owes = "accept" /\ partner'.chunking = FALSE
        /\ partner'.awaits_accept = FALSE
    BY <1>4, <2>1 DEF PartnerBut, PartnerRecord, PartnerFields
  <2>3. PartnerBut(F, partner, partner') /\ partner'.stored = phy.id /\ partner'.accepted = a
    BY <1>4, <2>2 DEF PartnerBut, PartnerFields
  <2> QED BY <1>1, <1>2, <1>5, <2>2, <2>3 DEF a, c
<1>6. CASE c.kind # "soft" /\ phy.id = partner.stored
  <2>1. partner' = partner
    BY <1>3, <1>6
  <2> QED BY <1>1, <1>2, <1>6, <2>1 DEF c
<1>7. CASE c.kind = "plain" /\ phy.id # partner.stored
  <2>1. partner' = [q EXCEPT !.owes = "nothing", !.chunking = FALSE, !.awaits_accept = FALSE]
    BY <1>3, <1>7
  <2>2. /\ PartnerBut({"owes", "chunking", "awaits_accept"}, q, partner')
        /\ partner'.owes = "nothing" /\ partner'.chunking = FALSE
        /\ partner'.awaits_accept = FALSE
    BY <1>4, <2>1 DEF PartnerBut, PartnerRecord, PartnerFields
  <2>3. PartnerBut(F, partner, partner') /\ partner'.stored = phy.id /\ partner'.accepted = a
        /\ partner'.counter = partner.counter
    BY <1>4, <2>2 DEF PartnerBut, PartnerFields
  <2> QED BY <1>1, <1>2, <1>7, <2>2, <2>3 DEF a, c
<1>8. CASE c.kind = "chunk" /\ phy.id # partner.stored
  <2> DEFINE o == IF c.c = 0 THEN "request" ELSE "nothing"
  <2>1. partner' = [q EXCEPT !.owes = o, !.chunking = FALSE]
    BY <1>3, <1>8
  <2>a. o \in {"nothing", "request"}
    OBVIOUS
  <2> HIDE DEF o
  <2>2. /\ PartnerBut({"owes", "chunking"}, q, partner')
        /\ partner'.owes = o /\ partner'.chunking = FALSE
    BY <1>4, <2>1 DEF PartnerBut, PartnerRecord, PartnerFields
  <2>3. PartnerBut(F, partner, partner') /\ partner'.stored = phy.id /\ partner'.accepted = a
        /\ partner'.counter = partner.counter /\ partner'.awaits_accept = partner.awaits_accept
    BY <1>4, <2>2 DEF PartnerBut, PartnerFields
  <2> QED BY <1>1, <1>2, <1>8, <2>a, <2>2, <2>3 DEF a, c
<1>9. CASE c.kind \notin {"soft", "plain", "chunk"} /\ phy.id # partner.stored
  <2> DEFINE o == IF partner.chunking THEN "chunk" ELSE "nothing"
  <2>1. partner' = [q EXCEPT !.owes = o]
    BY <1>3, <1>9
  <2> HIDE DEF o
  <2>2. PartnerBut({"owes"}, q, partner') /\ partner'.owes = o
    BY <1>4, <2>1 DEF PartnerBut, PartnerRecord, PartnerFields
  <2>3. PartnerBut(F, partner, partner') /\ partner'.stored = phy.id /\ partner'.accepted = a
        /\ partner'.counter = partner.counter /\ partner'.awaits_accept = partner.awaits_accept
        /\ partner'.chunking = partner.chunking
    BY <1>4, <2>2 DEF PartnerBut, PartnerFields
  <2> QED BY <1>1, <1>2, <1>9, <2>2, <2>3 DEF a, c, o
<1> QED BY <1>5, <1>6, <1>7, <1>8, <1>9

-----------------------------------------------------------------------------
(***************************************************************************)
(* How the parts hand messages over: the invariant that the types need.    *)
(***************************************************************************)
Hard == port.pe = "hard_reset"
\* tch sends a message of the PE.
Busy == port.tch \in {"transmission", "construct", "sending", "wait_request"}

\* What was received goes to one of rch and tch, which looks at it in its turn.
Routed ==
  /\ port.rch_received => ~port.tch_received
  /\ port.tch = "received" => ~port.tch_received /\ (pc # "tch" => port.rch_received)
  /\ port.tch = "wait" /\ port.tch_received => pc \in {"rch", "tch"}
  /\ Busy => port.rch = "wait" /\ ~port.rch_received
  /\ pc = "tch" /\ port.rch = "wait" => ~port.rch_received

\* A message of the PE is taken in the same round, by a tch that waits.
Taken ==
  /\ port.tch_xmit => port.tch = "wait" /\ pc \notin {"tx", "tch2", "pe"}
  /\ port.tch_xmit /\ pc \in {"rx", "rch"} =>
       port.rch \in {"wait", "report"} \/ port.pe = "await_accept" \/ port.tch_received
  /\ port.tch_xmit => port.result = "none" \/ Hard \/ (port.tch_received /\ pc \in {"rch", "tch"})
  /\ port.pe = "soft_reset" /\ ~port.init =>
       port.tch = "wait" /\ ~port.tch_xmit /\ ~port.tch_received

\* When the PE is given a message it may send one at once.
Given ==
  /\ port.pe_received => port.rch \in {"wait", "report"} /\ pc \notin {"rx", "rch"}
  /\ port.pe_received /\ pc = "tch" => port.tch \in {"wait", "received"}
  /\ port.pe_received /\ pc \in {"tx", "tch2", "pe"} =>
       /\ ~port.tch_received
       /\ Busy => port.result = "none" \/ Hard
  /\ port.pe_received /\ pc = "pe" => port.tch # "received"

\* Another chunk is sent only after one that is not the last.
NotLast == port.tch \in {"construct", "sending", "wait_request"} => port.to_send <= 1

Flow == Routed /\ Taken /\ Given /\ NotLast

-----------------------------------------------------------------------------
(***************************************************************************)
(* Type correctness.                                                       *)
(***************************************************************************)
PhyTyped == phy \in [id : MsgIds \union {NoId}, content : Contents, got : BOOLEAN]
QueueTyped == rxq \in Seq([id : MsgIds, content : Contents]) /\ Len(rxq) <= CacheDepth
Typed ==
  /\ pc \in {"pe", "rx", "rch", "tch", "tx", "tch2"}
  /\ Record(port) /\ Types(port) /\ PartnerRecord(partner) /\ PartnerTypes(partner)
  /\ PhyTyped /\ QueueTyped
\* The type invariant, field by field.
LEMMA TypeOKIsTyped == TypeOK <=> Typed
BY PortsAreTyped, PartnersAreTyped DEF TypeOK, Typed, PhyTyped, QueueTyped

\* The next id is an id.
LEMMA NextIdType == ASSUME NEW id \in MsgIds PROVE NextId(id) \in MsgIds
BY PrlAssumption DEF NextId, MsgIds

\* The fields of a message, and its type.
LEMMA ContentFields ==
  ASSUME NEW kind, NEW n, NEW c
  PROVE  /\ Content(kind, n, c).kind = kind /\ Content(kind, n, c).n = n /\ Content(kind, n, c).c = c
         /\ kind \in {"plain", "chunk", "request", "soft"} /\ n \in Nat /\ c \in 0 .. 2 =>
              Content(kind, n, c) \in Contents
BY DEF Content, Contents

\* The first state has the types.
LEMMA InitTyped == Init => Typed
<1> SUFFICES ASSUME Init PROVE Typed
  OBVIOUS
<1>1. 0 \in MsgIds
  BY PrlAssumption DEF MsgIds
<1>2. NoContent \in Contents
  BY ContentFields DEF NoContent
<1>3. Record(port)
  BY DEF Init, Record, Fields
<1>4. Types(port)
  <2>1. TxTypes(port)
    BY <1>1, <1>2 DEF Init, TxTypes
  <2>2. RchTypes(port)
    BY <1>1, <1>2 DEF Init, RchTypes, Chunks
  <2>3. TchTypes(port)
    BY <1>1, <1>2 DEF Init, TchTypes, Chunks
  <2>4. PeTypes(port)
    BY <1>1, <1>2 DEF Init, PeTypes, Results
  <2>5. CountTypes(port)
    BY <1>1, <1>2 DEF Init, CountTypes, Chunks
  <2>6. HistoryTypes(port)
    BY <1>1, <1>2 DEF Init, HistoryTypes
  <2> QED BY <2>1, <2>2, <2>3, <2>4, <2>5, <2>6 DEF Types
<1>5. PartnerRecord(partner) /\ PartnerTypes(partner)
  <2>1. PartnerRecord(partner)
    BY DEF Init, PartnerRecord, PartnerFields
  <2>2. PartnerTypes(partner)
    BY <1>1, PrlAssumption DEF Init, PartnerTypes
  <2> QED BY <2>1, <2>2
<1>6. PhyTyped /\ QueueTyped
  BY <1>2, PrlAssumption DEF Init, PhyTyped, QueueTyped
<1> QED BY <1>3, <1>4, <1>5, <1>6 DEF Typed, Init

\* A report of rch keeps the types.
LEMMA RchReportedTypes ==
  ASSUME NEW s, Types(s), NEW e, NEW t, RchReported(s, e, t)
  PROVE  Types(t)
<1>1. TxTypes(t)
  BY DEF RchReported, Types, TxTypes, SameBut, Fields
<1>2. RchTypes(t)
  BY DEF RchReported, Types, RchTypes, SameBut, Fields
<1>3. TchTypes(t)
  BY DEF RchReported, PeGoesOn, Types, TchTypes, SameBut, Fields
<1>4. PeTypes(t)
  BY DEF RchReported, PeGoesOn, AmsEnds, Types, PeTypes, SameBut, Fields, Results
<1>6. CountTypes(t)
  BY DEF RchReported, Types, CountTypes, SameBut, Fields
<1>5. HistoryTypes(t)
  BY DEF RchReported, Types, HistoryTypes, RchTypes, Contents, SameBut, Fields
<1> QED BY <1>1, <1>2, <1>3, <1>4, <1>5, <1>6 DEF Types


\* The steps that change nothing but pc, and those that bring a message.
Stays == rx_nothing \/ rch_idle \/ tch_idle \/ tx_phy_wait
SendsSomething ==
  partner_message \/ partner_request \/ partner_chunk \/ partner_accept \/ partner_soft_reset
\* The steps that only go on to the next part.
LEMMA StaysStep ==
  ASSUME Stays
  PROVE  /\ port.pe # "hard_reset" /\ port' = port /\ rxq' = rxq /\ phy' = phy /\ partner' = partner
         /\ \/ rx_nothing /\ pc = "rx" /\ pc' = "rch"
            \/ rch_idle /\ pc = "rch" /\ pc' = "tch"
            \/ tch_idle /\ pc = "tch" /\ pc' = "tx"
            \/ tch_idle /\ pc = "tch2" /\ pc' = "pe"
            \/ tx_phy_wait /\ pc = "tx" /\ pc' = "tch2"
BY DEF Stays, rx_nothing, RxTurn, rch_idle, tch_idle, Idle, Turn, tx_phy_wait, TxKeeps, TxTurn

\* The steps, action by action.
LEMMA NextCases ==
  Next <=>
    \/ PeWaits \/ pe_send_msg \/ pe_send_soft_reset \/ pe_send_soft_reset_run
    \/ rx_soft_reset \/ rx_duplicate \/ rx_message
    \/ rch_wait_run \/ rch_processing_run \/ rch_requesting_run
    \/ rch_waiting_run \/ rch_waiting_timeout \/ rch_report_run
    \/ tch_wait_received \/ tch_wait_xmit \/ tch_transmission_run \/ tch_construct_run
    \/ tch_sending_run \/ tch_wait_request_run \/ tch_wait_request_timeout \/ tch_received_run
    \/ tx_wait_run \/ tx_start_ams_run \/ tx_pending_run \/ tx_layer_reset_run
    \/ tx_phy_success \/ tx_phy_error
    \/ partner_receives \/ tcpc_tx_complete \/ SendsSomething \/ Stays
BY DEF Next, TaskNext, PeNext, RxNext, RchNext, TchNext, TxNext, ExternalNext, PeWaits,
       SendsSomething, Stays

\* The first element of a sequence and the rest.
LEMMA HeadTyped ==
  ASSUME NEW S, NEW q \in Seq(S), q # <<>>
  PROVE  Head(q) \in S /\ Tail(q) \in Seq(S) /\ Len(Tail(q)) = Len(q) - 1
OBVIOUS

\* Sequences of message numbers.
LEMMA PassedTyped ==
  ASSUME NEW q \in Seq(Nat)
  PROVE  <<>> \in Seq(Nat) /\ \A k \in Nat : Append(q, k) \in Seq(Nat)
OBVIOUS

\* Every step keeps the types of port.
LEMMA PortTyped ==
  ASSUME Typed, Flow, Next
  PROVE  Record(port') /\ Types(port')
<1> USE DEF SameBut, Fields
<1>0. /\ Record(port) /\ PartnerRecord(partner)
      /\ TxTypes(port) /\ RchTypes(port) /\ TchTypes(port) /\ PeTypes(port)
      /\ CountTypes(port) /\ HistoryTypes(port) /\ QueueTyped
  BY DEF Typed, Types
<1>a. port.tch # "wait" => ~port.tch_xmit
  BY DEF Flow, Taken
<1>b. port.tch = "sending" => port.to_send <= 1
  BY DEF Flow, NotLast
<1>1. CASE pe_send_msg
  <2>1. PeSendEffect
    BY <1>0, <1>1, PeSendStep
  <2>2. port'.tx_emsg \in Contents
    BY <1>0, <2>1, ContentFields DEF PeSendEffect, CountTypes
  <2>3. /\ port'.pe_received = FALSE /\ port'.result = "none" /\ port'.pe_ams \in BOOLEAN
        /\ port'.pe = port.pe
    BY <2>1 DEF PeSendEffect
  <2>21. TxTypes(port') /\ RchTypes(port')
    BY <1>0, <2>1 DEF PeSendEffect, TxTypes, RchTypes
  <2>25. HistoryTypes(port')
    BY <1>0, <2>1 DEF PeSendEffect, HistoryTypes, Unclaimed, Mishaps
  <2>22. TchTypes(port')
    BY <1>0, <2>1 DEF PeSendEffect, TchTypes
  <2>23. PeTypes(port')
    BY <2>2, <2>3, <1>0 DEF PeTypes, Results
  <2>24. CountTypes(port')
    BY <1>0, <2>1 DEF PeSendEffect, CountTypes
  <2> QED BY <1>0, <2>1, <2>21, <2>22, <2>23, <2>24, <2>25 DEF PeSendEffect, Types
<1>2. CASE pe_send_soft_reset
  <2>1. PeSendResetEffect
    BY <1>0, <1>2, PeSendResetStep
  <2>21. TxTypes(port')
    BY <1>0, <2>1 DEF PeSendResetEffect, TxTypes, Fresh, FreshFields
  <2>22. RchTypes(port')
    BY <1>0, <2>1 DEF PeSendResetEffect, RchTypes, Fresh, FreshFields
  <2>23. TchTypes(port')
    BY <1>0, <2>1 DEF PeSendResetEffect, TchTypes, Fresh, FreshFields
  <2>24. PeTypes(port')
    BY <1>0, <2>1 DEF PeSendResetEffect, PeTypes, Fresh, FreshFields, FlagRead, Results
  <2>25. CountTypes(port')
    BY <1>0, <2>1, PrlAssumption DEF PeSendResetEffect, CountTypes, Fresh, FreshFields, MsgIds
  <2>26. HistoryTypes(port')
    BY <1>0, <2>1 DEF PeSendResetEffect, HistoryTypes, Fresh, FreshFields
  <2> QED BY <1>0, <2>1, <2>21, <2>22, <2>23, <2>24, <2>25, <2>26 DEF PeSendResetEffect, Types
<1>3. CASE pe_send_soft_reset_run
  <2>1. PeResetRunEffect
    BY <1>0, <1>3, PeResetRunStep
  <2>2. port'.tx_emsg \in Contents
    BY <1>0, <2>1, ContentFields DEF PeResetRunEffect, CountTypes
  <2>3. /\ port'.pe_received = FALSE /\ port'.result = "none" /\ port'.pe = "await_accept"
        /\ port'.pe_ams = port.pe_ams
    BY <2>1 DEF PeResetRunEffect
  <2>21. TxTypes(port') /\ RchTypes(port')
    BY <1>0, <2>1 DEF PeResetRunEffect, TxTypes, RchTypes
  <2>25. HistoryTypes(port')
    BY <1>0, <2>1 DEF PeResetRunEffect, HistoryTypes, Unclaimed, Mishaps
  <2>22. TchTypes(port')
    BY <1>0, <2>1 DEF PeResetRunEffect, TchTypes
  <2>23. PeTypes(port')
    BY <2>2, <2>3, <1>0 DEF PeTypes, Results
  <2>24. CountTypes(port')
    BY <1>0, <2>1 DEF PeResetRunEffect, CountTypes
  <2> QED BY <1>0, <2>1, <2>21, <2>22, <2>23, <2>24, <2>25 DEF PeResetRunEffect, Types
<1>4. CASE PeWaits
  <2>1. PeWaitsEffect
    BY <1>0, <1>4, PeWaitsStep
  <2>21. TxTypes(port')
    BY <1>0, <2>1 DEF PeWaitsEffect, TxTypes, Fresh, FreshFields
  <2>22. RchTypes(port')
    BY <1>0, <2>1 DEF PeWaitsEffect, RchTypes, Fresh, FreshFields
  <2>23. TchTypes(port')
    BY <1>0, <2>1 DEF PeWaitsEffect, TchTypes, Fresh, FreshFields
  <2>24. PeTypes(port')
    BY <1>0, <2>1 DEF PeWaitsEffect, PeTypes, Fresh, FreshFields, FlagRead, Results
  <2>25. CountTypes(port')
    BY <1>0, <2>1, PrlAssumption DEF PeWaitsEffect, CountTypes, Fresh, FreshFields, MsgIds
  <2>26. HistoryTypes(port')
    <3>1. port'.dropped = port.dropped /\ port'.stray = port.stray
      BY <1>0, <2>1 DEF PeWaitsEffect, Fresh, FreshFields
    <3>2. port'.mishaps = port.mishaps
      BY <1>0, <2>1 DEF PeWaitsEffect, Fresh, FreshFields
    <3>3. port'.passed \in {port.passed, <<>>}
      BY <1>0, <2>1 DEF PeWaitsEffect, Fresh, FreshFields
    <3>4. port'.passed \in Seq(Nat)
      BY <1>0, <3>3, PassedTyped DEF HistoryTypes
    <3> QED BY <1>0, <3>1, <3>2, <3>4 DEF HistoryTypes
  <2> QED BY <1>0, <2>1, <2>21, <2>22, <2>23, <2>24, <2>25, <2>26 DEF PeWaitsEffect, Types
<1>5. CASE rx_soft_reset
  <2>1. RxSoftResetEffect
    BY <1>0, <1>5, RxSoftResetStep
  <2>2. Received \in [id : MsgIds, content : Contents]
    <3>1. rxq # <<>>
      BY <2>1 DEF RxSoftResetEffect, RxEffect
    <3> QED BY <3>1, <1>0, HeadTyped DEF Received, QueueTyped
  <2>3. port'.tx_emsg \in Contents
    BY <1>0, <2>1, ContentFields DEF RxSoftResetEffect, CountTypes
  <2>4. port'.pe = "run" /\ port'.result = "none" /\ port'.pe_ams = FALSE
        /\ port'.pe_received = port.pe_received
    BY <2>1 DEF RxSoftResetEffect
  <2>21. TxTypes(port')
    BY <1>0, <2>1 DEF RxSoftResetEffect, TxTypes
  <2>22. RchTypes(port')
    BY <1>0, <2>1, <2>2 DEF RxSoftResetEffect, RchTypes
  <2>23. TchTypes(port')
    BY <1>0, <2>1 DEF RxSoftResetEffect, TchTypes
  <2>24. PeTypes(port')
    BY <2>3, <2>4, <1>0 DEF PeTypes, Results
  <2>25. CountTypes(port')
    BY <1>0, <2>1, PrlAssumption DEF RxSoftResetEffect, CountTypes, MsgIds
  <2>26. HistoryTypes(port')
    <3>1. port'.mishaps \in SUBSET Mishaps
      BY <1>0, <2>1 DEF RxSoftResetEffect, HistoryTypes, Unclaimed, Mishaps
    <3>2. port'.passed \in Seq(Nat)
      BY <2>1, <1>0, PassedTyped DEF RxSoftResetEffect, HistoryTypes
    <3> QED BY <1>0, <2>1, <3>1, <3>2 DEF RxSoftResetEffect, HistoryTypes
  <2> QED BY <1>0, <2>1, <2>21, <2>22, <2>23, <2>24, <2>25, <2>26 DEF RxSoftResetEffect, Types
<1>6. CASE rx_duplicate
  <2>1. RxDuplicateEffect
    BY <1>0, <1>6, RxDuplicateStep
  <2>2. Received \in [id : MsgIds, content : Contents]
    <3>1. rxq # <<>>
      BY <2>1 DEF RxDuplicateEffect, RxEffect
    <3> QED BY <3>1, <1>0, HeadTyped DEF Received, QueueTyped
  <2>21. TxTypes(port') /\ TchTypes(port') /\ PeTypes(port') /\ CountTypes(port')
    BY <1>0, <2>1 DEF RxDuplicateEffect, TxTypes, TchTypes, PeTypes, CountTypes
  <2>22. RchTypes(port')
    BY <1>0, <2>1, <2>2 DEF RxDuplicateEffect, RchTypes
  <2>23. HistoryTypes(port')
    BY <1>0, <2>1 DEF RxDuplicateEffect, HistoryTypes
  <2> QED BY <1>0, <2>1, <2>21, <2>22, <2>23 DEF RxDuplicateEffect, Types
<1>7. CASE rx_message
  <2>1. RxMessageEffect
    BY <1>0, <1>7, RxMessageStep
  <2>2. Received \in [id : MsgIds, content : Contents]
    <3>1. rxq # <<>>
      BY <2>1 DEF RxMessageEffect, RxEffect
    <3> QED BY <3>1, <1>0, HeadTyped DEF Received, QueueTyped
  <2>21. TxTypes(port')
    <3>1. port'.tx \in {port.tx, "wait"}
      BY <1>0, <2>1 DEF RxMessageEffect, Ends, TxTypes
    <3>2. port'.status \in {port.status, "unset"}
      BY <1>0, <2>1 DEF RxMessageEffect, Ends, TxTypes
    <3>3. /\ port'.ams = port.ams /\ port'.complete = port.complete
           /\ port'.error = port.error /\ port'.out = port.out
      BY <1>0, <2>1 DEF RxMessageEffect, Ends, TxTypes
    <3>4. port'.tx_xmit \in {port.tx_xmit, FALSE}
      BY <1>0, <2>1 DEF RxMessageEffect, Ends, TxTypes
    <3> QED BY <1>0, <3>1, <3>2, <3>3, <3>4 DEF TxTypes
  <2>22. RchTypes(port')
    BY <1>0, <2>1, <2>2 DEF RxMessageEffect, RchTypes
  <2>23. TchTypes(port')
    <3>1. port'.tch_received \in {port.tch_received, TRUE}
      BY <1>0, <2>1 DEF RxMessageEffect
    <3>2. /\ port'.tch = port.tch /\ port'.tch_xmit = port.tch_xmit /\ port'.init = port.init
      BY <1>0, <2>1 DEF RxMessageEffect
    <3> QED BY <1>0, <3>1, <3>2 DEF TchTypes
  <2>24. PeTypes(port')
    <3>1. port'.pe_received = port.pe_received /\ port'.tx_emsg = port.tx_emsg
      BY <1>0, <2>1 DEF RxMessageEffect, Ends, TxTypes
    <3>2. port'.pe \in {port.pe, "run"}
      BY <1>0, <2>1 DEF RxMessageEffect, Ends, TxTypes
    <3>3. port'.pe_ams \in {port.pe_ams, FALSE}
      BY <1>0, <2>1 DEF RxMessageEffect, Ends, TxTypes
    <3>4. port'.result \in {port.result, "discarded"}
      BY <1>0, <2>1 DEF RxMessageEffect, Ends, TxTypes
    <3> QED BY <1>0, <3>1, <3>2, <3>3, <3>4 DEF PeTypes, Results
  <2>25. CountTypes(port')
    BY <1>0, <2>1, NextIdType DEF RxMessageEffect, CountTypes, Ends, TxTypes
  <2>26. HistoryTypes(port')
    <3>1. port'.stray \in BOOLEAN
      BY <1>0, <2>1 DEF RxMessageEffect, Ends, TxTypes, HistoryTypes
    <3>2. port'.mishaps \in SUBSET Mishaps
      BY <1>0, <2>1 DEF RxMessageEffect, HistoryTypes
    <3> QED BY <1>0, <2>1, <3>1, <3>2 DEF RxMessageEffect, HistoryTypes
  <2> QED BY <1>0, <2>1, <2>21, <2>22, <2>23, <2>24, <2>25, <2>26 DEF RxMessageEffect, Types
<1>8. CASE rch_wait_run
  <2>1. RchWaitEffect
    BY <1>0, <1>8, RchWaitStep
  <2>21. TxTypes(port') /\ TchTypes(port')
    BY <1>0, <2>1 DEF RchWaitEffect, TxTypes, TchTypes
  <2>22. RchTypes(port')
    BY <1>0, <2>1 DEF RchWaitEffect, RchTypes, PassesUp
  <2>23. PeTypes(port')
    BY <1>0, <2>1 DEF RchWaitEffect, PeTypes, PassesUp
  <2>24. CountTypes(port')
    BY <1>0, <2>1 DEF RchWaitEffect, CountTypes, Chunks
  <2>25. HistoryTypes(port')
    <3>1. port'.dropped = port.dropped /\ port'.stray = port.stray
      BY <1>0, <2>1 DEF RchWaitEffect, PassesUp
    <3>2. port'.mishaps = port.mishaps
      BY <1>0, <2>1 DEF RchWaitEffect, PassesUp
    <3>3. port'.passed \in {port.passed, Append(port.passed, port.emsg.n)}
      BY <1>0, <2>1 DEF RchWaitEffect, PassesUp
    <3>4. port'.passed \in Seq(Nat)
      BY <1>0, <3>3, PassedTyped DEF HistoryTypes, RchTypes, Contents
    <3> QED BY <1>0, <3>1, <3>2, <3>4 DEF HistoryTypes
  <2> QED BY <1>0, <2>1, <2>21, <2>22, <2>23, <2>24, <2>25 DEF RchWaitEffect, Types
<1>9. CASE rch_processing_run
  <2>1. RchProcessingEffect
    BY <1>0, <1>9, RchProcessingStep
  <2> DEFINE Up == /\ AsExpected /\ PassesUp(port, port') /\ port'.expected = port.expected + 1
                   /\ SameBut({"rch", "rch_received", "pe_received", "passed", "expected"}, port, port')
             Requests == /\ AsExpected /\ port'.expected = port.expected + 1
                         /\ SameBut({"rch", "tx_xmit", "out", "expected"}, port, port')
                         /\ port'.rch = "requesting" /\ port'.tx_xmit = TRUE
                         /\ port'.out = Content("request", 0, port.expected + 1)
  <2>2. CASE RchReported(port, "ERR_RCH_CHUNKED", port')
    BY <1>0, <2>2, RchReportedTypes DEF RchReported, Types
  <2>3. CASE Up
    <3>1. CountTypes(port')
      BY <1>0, <2>3 DEF CountTypes, Chunks, AsExpected
    <3>2. RchTypes(port') /\ PeTypes(port')
      BY <1>0, <2>3 DEF RchTypes, PeTypes, PassesUp
    <3>3. TxTypes(port') /\ TchTypes(port')
      BY <1>0, <2>3 DEF TxTypes, TchTypes
    <3>4. HistoryTypes(port')
      BY <1>0, <2>3 DEF HistoryTypes, RchTypes, PassesUp, Contents
    <3> QED BY <2>3, <3>1, <3>2, <3>3, <3>4 DEF Types
  <2>4. CASE Requests
    <3>1. CountTypes(port')
      BY <1>0, <2>4 DEF CountTypes, Chunks, AsExpected
    <3>a. port.expected + 1 \in 0 .. 2 /\ 0 \in Nat
      BY <1>0, <2>4 DEF CountTypes, Chunks, AsExpected
    <3>b. Content("request", 0, port.expected + 1) \in Contents
      BY <3>a, ContentFields
    <3>c. port'.out \in Contents /\ port'.tx_xmit = TRUE
      BY <2>4, <3>b
    <3>d. SameBut({"rch", "tx_xmit", "out", "expected"}, port, port') /\ port'.rch = "requesting"
      BY <2>4
    <3> HIDE DEF Requests
    <3>2. RchTypes(port') /\ PeTypes(port') /\ TchTypes(port') /\ HistoryTypes(port')
      BY <1>0, <3>d DEF RchTypes, PeTypes, TchTypes, HistoryTypes
    <3>3. TxTypes(port')
      BY <1>0, <3>c, <3>d DEF TxTypes
    <3> QED BY <3>d, <3>1, <3>2, <3>3 DEF Types
  <2> QED BY <2>1, <2>2, <2>3, <2>4 DEF RchProcessingEffect
<1>10. CASE rch_requesting_run
  <2>1. RchRequestingEffect
    BY <1>0, <1>10, RchRequestingStep
  <2>2. CASE RchReported(port, "ERR_RCH_CHUNKED", port')
    BY <1>0, <2>2, RchReportedTypes DEF RchReported, Types
  <2>3. CASE /\ SameBut({"rch", "complete"}, port, port')
             /\ port'.rch = "waiting" /\ port'.complete = FALSE
    <3>1. TxTypes(port') /\ RchTypes(port')
      BY <1>0, <2>3 DEF TxTypes, RchTypes
    <3>2. TchTypes(port') /\ PeTypes(port') /\ CountTypes(port') /\ HistoryTypes(port')
      BY <1>0, <2>3 DEF TchTypes, PeTypes, CountTypes, HistoryTypes
    <3> QED BY <2>3, <3>1, <3>2 DEF Types
  <2> QED BY <2>1, <2>2, <2>3 DEF RchRequestingEffect
<1>11. CASE rch_waiting_run
  <2>1. RchWaitingEffect
    BY <1>0, <1>11, RchWaitingStep
  <2>2. CASE \E s : /\ SameBut({"complete"}, port, s) /\ s.complete = FALSE
                    /\ RchReported(s, "ERR_RCH_CHUNKED", port')
    <3>1. PICK s : /\ SameBut({"complete"}, port, s) /\ s.complete = FALSE
                   /\ RchReported(s, "ERR_RCH_CHUNKED", port')
      BY <2>2
    <3>2. TxTypes(s)
      BY <1>0, <3>1 DEF TxTypes
    <3>3. RchTypes(s) /\ TchTypes(s) /\ PeTypes(s) /\ CountTypes(s) /\ HistoryTypes(s)
      BY <1>0, <3>1 DEF RchTypes, TchTypes, PeTypes, CountTypes, HistoryTypes
    <3> QED BY <3>1, <3>2, <3>3, RchReportedTypes DEF RchReported, Types
  <2>3. CASE /\ SameBut({"rch", "rch_received", "complete"}, port, port')
             /\ port'.rch = "processing" /\ port'.rch_received = FALSE /\ port'.complete = FALSE
    <3>1. TxTypes(port') /\ RchTypes(port')
      BY <1>0, <2>3 DEF TxTypes, RchTypes
    <3>2. TchTypes(port') /\ PeTypes(port') /\ CountTypes(port') /\ HistoryTypes(port')
      BY <1>0, <2>3 DEF TchTypes, PeTypes, CountTypes, HistoryTypes
    <3> QED BY <2>3, <3>1, <3>2 DEF Types
  <2>4. CASE SameBut({"complete"}, port, port') /\ port'.complete = FALSE
    <3>1. TxTypes(port') /\ RchTypes(port')
      BY <1>0, <2>4 DEF TxTypes, RchTypes
    <3>2. TchTypes(port') /\ PeTypes(port') /\ CountTypes(port') /\ HistoryTypes(port')
      BY <1>0, <2>4 DEF TchTypes, PeTypes, CountTypes, HistoryTypes
    <3> QED BY <2>4, <3>1, <3>2 DEF Types
  <2> QED BY <2>1, <2>2, <2>3, <2>4 DEF RchWaitingEffect
<1>12. CASE rch_waiting_timeout
  <2>1. RchTimeoutEffect
    BY <1>0, <1>12, RchTimeoutStep
  <2> QED BY <1>0, <2>1, RchReportedTypes DEF RchTimeoutEffect, RchReported, Types
<1>13. CASE rch_report_run
  <2>1. RchReportEffect
    BY <1>0, <1>13, RchReportStep
  <2>21. TxTypes(port') /\ TchTypes(port') /\ PeTypes(port') /\ CountTypes(port') /\ HistoryTypes(port')
    BY <1>0, <2>1 DEF RchReportEffect, TxTypes, TchTypes, PeTypes, CountTypes, HistoryTypes
  <2>22. RchTypes(port')
    BY <1>0, <2>1 DEF RchReportEffect, RchTypes
  <2> QED BY <1>0, <2>1, <2>21, <2>22 DEF RchReportEffect, Types
<1>14. CASE tch_wait_received
  <2>1. TchWaitReceivedEffect
    BY <1>0, <1>14, TchWaitReceivedStep
  <2>21. TxTypes(port') /\ CountTypes(port')
    BY <1>0, <2>1 DEF TchWaitReceivedEffect, TchTook, TxTypes, CountTypes
  <2>22. RchTypes(port')
    BY <1>0, <2>1 DEF TchWaitReceivedEffect, TchTook, RchTypes
  <2>23. TchTypes(port')
    BY <1>0, <2>1 DEF TchWaitReceivedEffect, TchTook, TchTypes
  <2>24. PeTypes(port')
    BY <1>0, <2>1 DEF TchWaitReceivedEffect, TchTook, PeTypes, Results
  <2>25. HistoryTypes(port')
    BY <1>0, <2>1 DEF TchWaitReceivedEffect, TchTook, HistoryTypes, Mishaps
  <2> QED BY <1>0, <2>1, <2>21, <2>22, <2>23, <2>24, <2>25 DEF TchWaitReceivedEffect, TchTook,
         Types
<1>15. CASE tch_wait_xmit
  <2>1. TchWaitXmitEffect
    BY <1>0, <1>15, TchWaitXmitStep
  <2>2. Content("chunk", port.tx_emsg.n, 0) \in Contents
    <3>1. port.tx_emsg.n \in Nat
      BY <1>0 DEF PeTypes, Contents
    <3> QED BY <3>1, ContentFields
  <2>21. RchTypes(port')
    BY <1>0, <2>1 DEF TchWaitXmitEffect, RchTypes
  <2>22. TxTypes(port')
    <3>1. /\ port'.tx = port.tx /\ port'.ams = port.ams /\ port'.status = port.status
           /\ port'.complete = port.complete /\ port'.error = port.error
      BY <1>0, <2>1 DEF TchWaitXmitEffect
    <3>2. port'.tx_xmit \in {port.tx_xmit, TRUE}
      BY <1>0, <2>1 DEF TchWaitXmitEffect
    <3>3. port'.out \in {port.out, port.tx_emsg, Content("chunk", port.tx_emsg.n, 0)}
      BY <1>0, <2>1 DEF TchWaitXmitEffect
    <3> QED BY <1>0, <2>2, <3>1, <3>2, <3>3 DEF TxTypes, PeTypes
  <2>23. TchTypes(port')
    BY <1>0, <2>1 DEF TchWaitXmitEffect, TchTypes, PeGoesOn
  <2>24. PeTypes(port')
    <3>1. port'.pe_received = port.pe_received /\ port'.tx_emsg = port.tx_emsg
      BY <1>0, <2>1 DEF TchWaitXmitEffect, PeGoesOn, ToldOf, AmsEnds
    <3>2. port'.pe \in {port.pe, "soft_reset", "hard_reset"}
      BY <1>0, <2>1 DEF TchWaitXmitEffect, PeGoesOn, ToldOf, AmsEnds
    <3>3. port'.pe_ams \in {port.pe_ams, FALSE}
      BY <1>0, <2>1 DEF TchWaitXmitEffect, PeGoesOn, ToldOf, AmsEnds
    <3>4. port'.result \in {port.result, "sent", "error"}
      BY <1>0, <2>1 DEF TchWaitXmitEffect, PeGoesOn, ToldOf, AmsEnds
    <3> QED BY <1>0, <3>1, <3>2, <3>3, <3>4 DEF PeTypes, Results
  <2>25. CountTypes(port')
    BY <1>0, <2>1 DEF TchWaitXmitEffect, CountTypes, Chunks
  <2>26. HistoryTypes(port')
    BY <1>0, <2>1 DEF TchWaitXmitEffect, HistoryTypes, ToldOf
  <2> QED BY <1>0, <2>1, <2>21, <2>22, <2>23, <2>24, <2>25, <2>26 DEF TchWaitXmitEffect, Types
<1>16. CASE tch_transmission_run
  <2>0. ~port.tch_xmit
    BY <1>a, <1>16 DEF tch_transmission_run
  <2>1. TchTransmissionEffect
    BY <1>0, <2>0, <1>16, TchTransmissionStep
  <2>21. CountTypes(port')
    BY <1>0, <2>1 DEF TchTransmissionEffect, Flags, CountTypes
  <2>22. TxTypes(port')
    BY <1>0, <2>1 DEF TchTransmissionEffect, Flags, TxTypes
  <2>23. RchTypes(port')
    BY <1>0, <2>1 DEF TchTransmissionEffect, Flags, RchTypes, Released
  <2>24. TchTypes(port')
    BY <1>0, <2>1 DEF TchTransmissionEffect, Flags, TchTypes, Released, PeGoesOn
  <2>25. PeTypes(port')
    <3>1. port'.pe_received = port.pe_received /\ port'.tx_emsg = port.tx_emsg
      BY <1>0, <2>1 DEF TchTransmissionEffect, Flags, PeGoesOn, ToldOf, AmsEnds
    <3>2. port'.pe \in {port.pe, "soft_reset", "hard_reset"}
      BY <1>0, <2>1 DEF TchTransmissionEffect, Flags, PeGoesOn, ToldOf, AmsEnds
    <3>3. port'.pe_ams \in {port.pe_ams, FALSE}
      BY <1>0, <2>1 DEF TchTransmissionEffect, Flags, PeGoesOn, ToldOf, AmsEnds
    <3>4. port'.result \in {port.result, "sent", "error"}
      BY <1>0, <2>1 DEF TchTransmissionEffect, Flags, PeGoesOn, ToldOf, AmsEnds
    <3> QED BY <1>0, <3>1, <3>2, <3>3, <3>4 DEF PeTypes, Results
  <2>26. HistoryTypes(port')
    BY <1>0, <2>1 DEF TchTransmissionEffect, Flags, HistoryTypes, ToldOf
  <2> QED BY <1>0, <2>1, <2>21, <2>22, <2>23, <2>24, <2>25, <2>26 DEF TchTransmissionEffect,
         Flags, Types
<1>17. CASE tch_construct_run
  <2>1. TchConstructEffect
    BY <1>0, <1>17, TchConstructStep
  <2>21. TxTypes(port') /\ RchTypes(port') /\ PeTypes(port') /\ CountTypes(port') /\ HistoryTypes(port')
    BY <1>0, <2>1 DEF TchConstructEffect, TxTypes, RchTypes, PeTypes, CountTypes, HistoryTypes
  <2>22. TchTypes(port')
    BY <1>0, <2>1 DEF TchConstructEffect, TchTypes
  <2> QED BY <1>0, <2>1, <2>21, <2>22 DEF TchConstructEffect, Types
<1>18. CASE tch_sending_run
  <2>0. ~port.tch_xmit
    BY <1>a, <1>18 DEF tch_sending_run
  <2>1. TchSendingEffect
    BY <1>0, <2>0, <1>18, TchSendingStep
  <2>21. TxTypes(port')
    BY <1>0, <2>1 DEF TchSendingEffect, Flags, TxTypes
  <2>22. RchTypes(port')
    BY <1>0, <2>1 DEF TchSendingEffect, Flags, RchTypes, Released
  <2>23. TchTypes(port')
    BY <1>0, <2>1 DEF TchSendingEffect, Flags, TchTypes, Released, PeGoesOn
  <2>24. PeTypes(port')
    <3>1. port'.pe_received = port.pe_received /\ port'.tx_emsg = port.tx_emsg
      BY <1>0, <2>1 DEF TchSendingEffect, Flags, PeGoesOn, ToldOf, AmsEnds
    <3>2. port'.pe \in {port.pe, "soft_reset", "hard_reset"}
      BY <1>0, <2>1 DEF TchSendingEffect, Flags, PeGoesOn, ToldOf, AmsEnds
    <3>3. port'.pe_ams \in {port.pe_ams, FALSE}
      BY <1>0, <2>1 DEF TchSendingEffect, Flags, PeGoesOn, ToldOf, AmsEnds
    <3>4. port'.result \in {port.result, "sent", "error"}
      BY <1>0, <2>1 DEF TchSendingEffect, Flags, PeGoesOn, ToldOf, AmsEnds
    <3> QED BY <1>0, <3>1, <3>2, <3>3, <3>4 DEF PeTypes, Results
  <2>25. CountTypes(port')
    BY <1>0, <2>1, <1>b DEF TchSendingEffect, Flags, CountTypes, Chunks
  <2>26. HistoryTypes(port')
    BY <1>0, <2>1 DEF TchSendingEffect, Flags, HistoryTypes, ToldOf
  <2> QED BY <1>0, <2>1, <2>21, <2>22, <2>23, <2>24, <2>25, <2>26 DEF TchSendingEffect, Flags,
         Types
<1>19. CASE tch_wait_request_run
  <2>0. ~port.tch_xmit
    BY <1>a, <1>19 DEF tch_wait_request_run
  <2>1. TchRequestEffect
    BY <1>0, <2>0, <1>19, TchRequestStep
  <2>2. Content("chunk", port.tx_emsg.n, port.to_send) \in Contents
    <3>1. port.tx_emsg.n \in Nat /\ port.to_send \in 0 .. 2
      BY <1>0 DEF PeTypes, CountTypes, Contents, Chunks
    <3> QED BY <3>1, ContentFields
  <2>21. TxTypes(port')
    BY <1>0, <2>1, <2>2 DEF TchRequestEffect, Flags, TxTypes
  <2>22. RchTypes(port')
    BY <1>0, <2>1 DEF TchRequestEffect, Flags, RchTypes, Released
  <2>23. TchTypes(port')
    BY <1>0, <2>1 DEF TchRequestEffect, Flags, TchTypes, Released, PeGoesOn
  <2>24. PeTypes(port')
    <3>1. port'.pe_received = port.pe_received /\ port'.tx_emsg = port.tx_emsg
      BY <1>0, <2>1 DEF TchRequestEffect, Flags, PeGoesOn, ToldOf, AmsEnds
    <3>2. port'.pe \in {port.pe, "soft_reset", "hard_reset"}
      BY <1>0, <2>1 DEF TchRequestEffect, Flags, PeGoesOn, ToldOf, AmsEnds
    <3>3. port'.pe_ams \in {port.pe_ams, FALSE}
      BY <1>0, <2>1 DEF TchRequestEffect, Flags, PeGoesOn, ToldOf, AmsEnds
    <3>4. port'.result \in {port.result, "sent", "error"}
      BY <1>0, <2>1 DEF TchRequestEffect, Flags, PeGoesOn, ToldOf, AmsEnds
    <3> QED BY <1>0, <3>1, <3>2, <3>3, <3>4 DEF PeTypes, Results
  <2>25. CountTypes(port')
    BY <1>0, <2>1 DEF TchRequestEffect, Flags, CountTypes
  <2>26. HistoryTypes(port')
    BY <1>0, <2>1 DEF TchRequestEffect, Flags, HistoryTypes, ToldOf
  <2> QED BY <1>0, <2>1, <2>21, <2>22, <2>23, <2>24, <2>25, <2>26 DEF TchRequestEffect, Flags,
         Types
<1>20. CASE tch_wait_request_timeout
  <2>0. ~port.tch_xmit
    BY <1>a, <1>20 DEF tch_wait_request_timeout
  <2>1. TchRequestTimeoutEffect
    BY <1>0, <2>0, <1>20, TchRequestTimeoutStep
  <2>21. TxTypes(port') /\ RchTypes(port') /\ CountTypes(port')
    BY <1>0, <2>1 DEF TchRequestTimeoutEffect, TxTypes, RchTypes, CountTypes
  <2>22. TchTypes(port')
    BY <1>0, <2>1 DEF TchRequestTimeoutEffect, TchTypes
  <2>23. PeTypes(port')
    BY <1>0, <2>1 DEF TchRequestTimeoutEffect, PeTypes, ToldOf, AmsEnds, Results
  <2>24. HistoryTypes(port')
    BY <1>0, <2>1 DEF TchRequestTimeoutEffect, HistoryTypes, ToldOf
  <2> QED BY <1>0, <2>1, <2>21, <2>22, <2>23, <2>24 DEF TchRequestTimeoutEffect, Types
<1>21. CASE tch_received_run
  <2>1. TchReceivedRunEffect
    BY <1>0, <1>21, TchReceivedRunStep
  <2>21. TxTypes(port') /\ RchTypes(port') /\ PeTypes(port') /\ CountTypes(port') /\ HistoryTypes(port')
    BY <1>0, <2>1 DEF TchReceivedRunEffect, TxTypes, RchTypes, PeTypes, CountTypes, HistoryTypes
  <2>22. TchTypes(port')
    BY <1>0, <2>1 DEF TchReceivedRunEffect, TchTypes
  <2> QED BY <1>0, <2>1, <2>21, <2>22 DEF TchReceivedRunEffect, Types
<1>22. CASE tx_wait_run
  <2>1. TxWaitEffect
    BY <1>0, <1>22, TxWaitStep
  <2>21. TchTypes(port') /\ PeTypes(port')
    BY <1>0, <2>1 DEF TxWaitEffect, Passes, PassFields, TchTypes, PeTypes
  <2>22. TxTypes(port')
    BY <1>0, <2>1 DEF TxWaitEffect, Passes, PassFields, TxTypes
  <2>23. RchTypes(port')
    BY <1>0, <2>1 DEF TxWaitEffect, Passes, PassFields, RchTypes
  <2>24. CountTypes(port')
    BY <1>0, <2>1, PrlAssumption DEF TxWaitEffect, Passes, PassFields, CountTypes, MsgIds
  <2>25. HistoryTypes(port')
    <3>1. port'.dropped = port.dropped /\ port'.stray = port.stray
      BY <1>0, <2>1 DEF TxWaitEffect, Passes, PassFields
    <3>2. port'.mishaps = port.mishaps
      BY <1>0, <2>1 DEF TxWaitEffect, Passes, PassFields
    <3>3. port'.passed \in {port.passed, <<>>}
      BY <1>0, <2>1 DEF TxWaitEffect, Passes, PassFields
    <3>4. port'.passed \in Seq(Nat)
      BY <1>0, <3>3, PassedTyped DEF HistoryTypes
    <3> QED BY <1>0, <3>1, <3>2, <3>4 DEF HistoryTypes
  <2> QED BY <1>0, <2>1, <2>21, <2>22, <2>23, <2>24, <2>25 DEF TxWaitEffect, Passes,
         PassFields, Types
<1>23. CASE tx_start_ams_run
  <2>1. TxStartAmsEffect
    BY <1>0, <1>23, TxStartAmsStep
  <2>21. RchTypes(port') /\ TchTypes(port') /\ PeTypes(port') /\ CountTypes(port') /\ HistoryTypes(port')
    BY <1>0, <2>1 DEF TxStartAmsEffect, RchTypes, TchTypes, PeTypes, CountTypes, HistoryTypes
  <2>22. TxTypes(port')
    BY <1>0, <2>1 DEF TxStartAmsEffect, TxTypes
  <2> QED BY <1>0, <2>1, <2>21, <2>22 DEF TxStartAmsEffect, Types
<1>24. CASE tx_pending_run
  <2>1. TxPendingEffect
    BY <1>0, <1>24, TxPendingStep
  <2>21. TchTypes(port') /\ PeTypes(port')
    BY <1>0, <2>1 DEF TxPendingEffect, Passes, PassFields, TchTypes, PeTypes
  <2>22. TxTypes(port')
    BY <1>0, <2>1 DEF TxPendingEffect, Passes, PassFields, TxTypes
  <2>23. RchTypes(port')
    BY <1>0, <2>1 DEF TxPendingEffect, Passes, PassFields, RchTypes
  <2>24. CountTypes(port')
    BY <1>0, <2>1, PrlAssumption DEF TxPendingEffect, Passes, PassFields, CountTypes, MsgIds
  <2>25. HistoryTypes(port')
    <3>1. port'.dropped = port.dropped /\ port'.stray = port.stray
      BY <1>0, <2>1 DEF TxPendingEffect, Passes, PassFields
    <3>2. port'.mishaps = port.mishaps
      BY <1>0, <2>1 DEF TxPendingEffect, Passes, PassFields
    <3>3. port'.passed \in {port.passed, <<>>}
      BY <1>0, <2>1 DEF TxPendingEffect, Passes, PassFields
    <3>4. port'.passed \in Seq(Nat)
      BY <1>0, <3>3, PassedTyped DEF HistoryTypes
    <3> QED BY <1>0, <3>1, <3>2, <3>4 DEF HistoryTypes
  <2> QED BY <1>0, <2>1, <2>21, <2>22, <2>23, <2>24, <2>25 DEF TxPendingEffect, Passes,
         PassFields, Types
<1>25. CASE tx_layer_reset_run
  <2>1. Constructs(port)
    BY <1>0, <1>25, TxLayerResetStep
  <2>2. TxTypes(port')
    BY <1>0, <2>1 DEF Constructs, TxTypes
  <2>3. RchTypes(port') /\ TchTypes(port') /\ PeTypes(port') /\ CountTypes(port') /\ HistoryTypes(port')
    BY <1>0, <2>1 DEF Constructs, RchTypes, TchTypes, PeTypes, CountTypes, HistoryTypes
  <2> QED BY <2>1, <2>2, <2>3 DEF Constructs, Types
<1>26. CASE tx_phy_success
  <2>1. TxSuccessEffect
    BY <1>0, <1>26, TxSuccessStep
  <2>2. PICK s : SameBut({"complete"}, port, s) /\ TxDone(s)
    BY <2>1 DEF TxSuccessEffect
  <2>3. SameBut({"complete", "tx", "status", "counter", "mishaps"}, port, port')
    BY <2>2 DEF TxDone
  <2>4. TxTypes(port')
    BY <1>0, <2>1, <2>2, <2>3 DEF TxSuccessEffect, TxDone, TxTypes
  <2>5. CountTypes(port')
    BY <1>0, <2>2, <2>3, NextIdType DEF TxDone, CountTypes
  <2>6. HistoryTypes(port')
    BY <1>0, <2>2, <2>3 DEF TxDone, HistoryTypes
  <2>7. RchTypes(port') /\ TchTypes(port') /\ PeTypes(port')
    BY <1>0, <2>3 DEF RchTypes, TchTypes, PeTypes
  <2> QED BY <2>3, <2>4, <2>5, <2>6, <2>7 DEF Types
<1>27. CASE tx_phy_error
  <2>1. TxErrorEffect
    BY <1>0, <1>27, TxErrorStep
  <2>2. PICK s : SameBut({"error"}, port, s) /\ TxDone(s)
    BY <2>1 DEF TxErrorEffect
  <2>3. SameBut({"error", "tx", "status", "counter", "mishaps"}, port, port')
    BY <2>2 DEF TxDone
  <2>4. TxTypes(port')
    BY <1>0, <2>1, <2>2, <2>3 DEF TxErrorEffect, TxDone, TxTypes
  <2>5. CountTypes(port')
    BY <1>0, <2>2, <2>3, NextIdType DEF TxDone, CountTypes
  <2>6. HistoryTypes(port')
    BY <1>0, <2>2, <2>3 DEF TxDone, HistoryTypes
  <2>7. RchTypes(port') /\ TchTypes(port') /\ PeTypes(port')
    BY <1>0, <2>3 DEF RchTypes, TchTypes, PeTypes
  <2> QED BY <2>3, <2>4, <2>5, <2>6, <2>7 DEF Types
<1>28. CASE tcpc_tx_complete
  <2>1. CompleteEffect
    BY <1>0, <1>28, CompleteStep
  <2>21. RchTypes(port') /\ TchTypes(port') /\ PeTypes(port') /\ CountTypes(port') /\ HistoryTypes(port')
    BY <1>0, <2>1 DEF CompleteEffect, StatusSet, RchTypes, TchTypes, PeTypes, CountTypes,
       HistoryTypes
  <2>22. TxTypes(port')
    BY <1>0, <2>1 DEF CompleteEffect, StatusSet, TxTypes
  <2> QED BY <1>0, <2>1, <2>21, <2>22 DEF CompleteEffect, StatusSet, Types
<1>29. CASE SendsSomething
  <2>1. PICK id, content : Sends(id, content)
    BY <1>0, <1>29, PartnerMessageStep, PartnerRequestStep, PartnerChunkStep, PartnerAcceptStep,
       PartnerSoftResetStep
       DEF SendsSomething, PartnerMessageEffect, PartnerRequestEffect, PartnerChunkEffect,
           PartnerAcceptEffect, PartnerSoftResetEffect
  <2>2. port' = port \/ StatusSet
    BY <2>1 DEF Sends
  <2>3. CASE port' = port
    BY <1>0, <2>3 DEF Types
  <2>4. CASE StatusSet
    <3>1. TxTypes(port')
      BY <1>0, <2>4 DEF StatusSet, TxTypes
    <3>2. RchTypes(port') /\ TchTypes(port') /\ PeTypes(port') /\ CountTypes(port') /\ HistoryTypes(port')
      BY <1>0, <2>4 DEF StatusSet, RchTypes, TchTypes, PeTypes, CountTypes, HistoryTypes
    <3> QED BY <2>4, <3>1, <3>2 DEF StatusSet, Types
  <2> QED BY <2>2, <2>3, <2>4
<1>30. CASE Stays \/ partner_receives
  <2>1. port' = port
    BY <1>30, StaysStep DEF partner_receives
  <2> QED BY <1>0, <2>1 DEF Types
<1> QED BY <1>1, <1>2, <1>3, <1>4, <1>5, <1>6, <1>7, <1>8, <1>9, <1>10, <1>11, <1>12, <1>13,
       <1>14, <1>15, <1>16, <1>17, <1>18, <1>19, <1>20, <1>21, <1>22, <1>23, <1>24, <1>25,
              <1>26, <1>27, <1>28, <1>29, <1>30, NextCases

TxLayerResetEffect == port.tx = "layer_reset" /\ Constructs(port)
StaysEffect ==
  /\ port' = port /\ rxq' = rxq /\ phy' = phy /\ partner' = partner
  /\ \/ rx_nothing /\ pc = "rx" /\ pc' = "rch"
     \/ rch_idle /\ pc = "rch" /\ pc' = "tch"
     \/ tch_idle /\ pc = "tch" /\ pc' = "tx"
     \/ tch_idle /\ pc = "tch2" /\ pc' = "pe"
     \/ tx_phy_wait /\ pc = "tx" /\ pc' = "tch2"

\* Every step has one of these effects.
TaskEffect ==
  \/ PeWaitsEffect \/ PeSendEffect \/ PeSendResetEffect \/ PeResetRunEffect
  \/ RxSoftResetEffect \/ RxDuplicateEffect \/ RxMessageEffect
  \/ RchWaitEffect \/ RchProcessingEffect \/ RchRequestingEffect
  \/ RchWaitingEffect \/ RchTimeoutEffect \/ RchReportEffect
  \/ TchWaitReceivedEffect \/ TchWaitXmitEffect \/ TchTransmissionEffect \/ TchConstructEffect
  \/ TchSendingEffect \/ TchRequestEffect \/ TchRequestTimeoutEffect \/ TchReceivedRunEffect
  \/ TxWaitEffect \/ TxStartAmsEffect \/ TxPendingEffect \/ TxLayerResetEffect
  \/ TxSuccessEffect \/ TxErrorEffect \/ StaysEffect
SendsEffect ==
  \/ PartnerMessageEffect \/ PartnerRequestEffect \/ PartnerChunkEffect
  \/ PartnerAcceptEffect \/ PartnerSoftResetEffect
Effect == TaskEffect \/ CompleteEffect \/ PartnerReceivesEffect \/ SendsEffect

\* Every step of Next has one of the effects.
LEMMA EveryStep == ASSUME Typed, Flow, Next PROVE Effect
<1>0. Record(port) /\ PartnerRecord(partner) /\ DOMAIN phy = {"id", "content", "got"}
  BY DEF Typed, PhyTyped
<1>a. port.tch # "wait" => ~port.tch_xmit
  BY DEF Flow, Taken
<1>1. CASE PeWaits \/ pe_send_msg \/ pe_send_soft_reset \/ pe_send_soft_reset_run
  BY <1>0, <1>1, PeWaitsStep, PeSendStep, PeSendResetStep, PeResetRunStep DEF Effect, TaskEffect
<1>2. CASE rx_soft_reset \/ rx_duplicate \/ rx_message
  BY <1>0, <1>2, RxSoftResetStep, RxDuplicateStep, RxMessageStep DEF Effect, TaskEffect
<1>3. CASE rch_wait_run \/ rch_processing_run \/ rch_requesting_run
  BY <1>0, <1>3, RchWaitStep, RchProcessingStep, RchRequestingStep DEF Effect, TaskEffect
<1>4. CASE rch_waiting_run \/ rch_waiting_timeout \/ rch_report_run
  BY <1>0, <1>4, RchWaitingStep, RchTimeoutStep, RchReportStep DEF Effect, TaskEffect
<1>5. CASE tch_wait_received \/ tch_wait_xmit \/ tch_construct_run \/ tch_received_run
  BY <1>0, <1>5, TchWaitReceivedStep, TchWaitXmitStep, TchConstructStep, TchReceivedRunStep
     DEF Effect, TaskEffect
<1>6. CASE tch_transmission_run \/ tch_sending_run
  <2>1. ~port.tch_xmit
    BY <1>a, <1>6 DEF tch_transmission_run, tch_sending_run
  <2> QED BY <1>0, <1>6, <2>1, TchTransmissionStep, TchSendingStep DEF Effect, TaskEffect
<1>7. CASE tch_wait_request_run \/ tch_wait_request_timeout
  <2>1. ~port.tch_xmit
    BY <1>a, <1>7 DEF tch_wait_request_run, tch_wait_request_timeout
  <2> QED BY <1>0, <1>7, <2>1, TchRequestStep, TchRequestTimeoutStep DEF Effect, TaskEffect
<1>8. CASE tx_wait_run \/ tx_start_ams_run \/ tx_pending_run \/ tx_layer_reset_run
  BY <1>0, <1>8, TxWaitStep, TxStartAmsStep, TxPendingStep, TxLayerResetStep
     DEF Effect, TaskEffect, TxLayerResetEffect
<1>9. CASE tx_phy_success \/ tx_phy_error
  BY <1>0, <1>9, TxSuccessStep, TxErrorStep DEF Effect, TaskEffect
<1>10. CASE partner_receives \/ tcpc_tx_complete
  BY <1>0, <1>10, PartnerReceivesStep, CompleteStep DEF Effect
<1>11. CASE SendsSomething
  BY <1>0, <1>11, PartnerMessageStep, PartnerRequestStep, PartnerChunkStep, PartnerAcceptStep,
     PartnerSoftResetStep DEF SendsSomething, Effect, SendsEffect
<1>12. CASE Stays
  BY <1>12, StaysStep DEF Effect, TaskEffect, StaysEffect
<1> QED BY <1>1, <1>2, <1>3, <1>4, <1>5, <1>6, <1>7, <1>8, <1>9, <1>10, <1>11, <1>12, NextCases

-----------------------------------------------------------------------------
(***************************************************************************)
(* Type correctness of the other variables.                                *)
(***************************************************************************)
\* What a step of the task leaves alone.
LEMMA TaskKeeps ==
  ASSUME TaskEffect
  PROVE  /\ partner' = partner /\ (rxq' = rxq \/ (rxq # <<>> /\ rxq' = Tail(rxq)))
         /\ pc' \in {"pe", "rx", "rch", "tch", "tx", "tch2"}
         /\ \/ phy' = phy
            \/ /\ TxWaitEffect \/ TxPendingEffect \/ TxLayerResetEffect
               /\ phy' = [id |-> port.counter, content |-> port.out, got |-> FALSE]
<1>1. CASE PeWaitsEffect \/ PeSendEffect \/ PeSendResetEffect \/ PeResetRunEffect
  BY <1>1 DEF PeWaitsEffect, PeSendEffect, PeSendResetEffect, PeResetRunEffect, PeTurn
<1>2. CASE RxSoftResetEffect \/ RxDuplicateEffect \/ RxMessageEffect
  BY <1>2 DEF RxSoftResetEffect, RxDuplicateEffect, RxMessageEffect, RxEffect
<1>3. CASE RchWaitEffect \/ RchProcessingEffect \/ RchRequestingEffect
           \/ RchWaitingEffect \/ RchTimeoutEffect \/ RchReportEffect
  BY <1>3 DEF RchWaitEffect, RchProcessingEffect, RchRequestingEffect,
     RchWaitingEffect, RchTimeoutEffect, RchReportEffect, RchEffect
<1>4. CASE TchWaitReceivedEffect \/ TchWaitXmitEffect \/ TchTransmissionEffect \/ TchConstructEffect
           \/ TchSendingEffect \/ TchRequestEffect \/ TchRequestTimeoutEffect \/ TchReceivedRunEffect
  BY <1>4 DEF TchWaitReceivedEffect, TchWaitXmitEffect, TchTransmissionEffect,
     TchConstructEffect,
     TchSendingEffect, TchRequestEffect, TchRequestTimeoutEffect, TchReceivedRunEffect,
     TchEffect
<1>5. CASE TxWaitEffect
  BY <1>5 DEF TxWaitEffect, TxEffect, Passes
<1>6. CASE TxPendingEffect
  BY <1>6 DEF TxPendingEffect, TxEffect, Passes
<1>7. CASE TxStartAmsEffect
  BY <1>7 DEF TxStartAmsEffect, TxEffect
<1>8. CASE TxLayerResetEffect
  BY <1>8 DEF TxLayerResetEffect, TxEffect, Constructs
<1>9. CASE TxSuccessEffect \/ TxErrorEffect
  BY <1>9 DEF TxSuccessEffect, TxErrorEffect, TxDone, TxEffect
<1>10. CASE StaysEffect
  BY <1>10 DEF StaysEffect
<1> QED BY <1>1, <1>2, <1>3, <1>4, <1>5, <1>6, <1>7, <1>8, <1>9, <1>10 DEF TaskEffect

\* What the partner sends keeps the type of the cache.
LEMMA SentTyped ==
  ASSUME QueueTyped, NEW id \in MsgIds, NEW content \in Contents, Sends(id, content)
  PROVE  QueueTyped' /\ phy' = NoPhy
<1> DEFINE M == [id : MsgIds, content : Contents]
           m == [id |-> id, content |-> content]
<1>1. m \in M
  OBVIOUS
<1>2. /\ Len(rxq) < CacheDepth
      /\ \/ rxq' = Append(rxq, m)
         \/ Len(rxq) + 1 < CacheDepth /\ rxq' = rxq \o <<m, m>>
      /\ phy' = NoPhy
  BY DEF Sends
<1>3. rxq \in Seq(M) /\ CacheDepth \in Nat
  BY PrlAssumption DEF QueueTyped
<1> HIDE DEF M, m
<1>4. CASE rxq' = Append(rxq, m)
  <2>1. rxq' \in Seq(M) /\ Len(rxq') = Len(rxq) + 1
    BY <1>1, <1>3, <1>4
  <2> QED BY <1>2, <1>3, <2>1 DEF QueueTyped, M
<1>5. CASE Len(rxq) + 1 < CacheDepth /\ rxq' = rxq \o <<m, m>>
  <2>0. <<m, m>> \in Seq(M) /\ Len(<<m, m>>) = 2
    BY <1>1
  <2>1. rxq' \in Seq(M) /\ Len(rxq') = Len(rxq) + 2
    BY <1>3, <1>5, <2>0
  <2> QED BY <1>2, <1>3, <1>5, <2>1 DEF QueueTyped, M
<1> QED BY <1>2, <1>4, <1>5

\* Every step keeps the types.
LEMMA TypeStep == ASSUME Typed, Flow, Next PROVE Typed'
<1>0. /\ PartnerRecord(partner) /\ PartnerTypes(partner) /\ PhyTyped /\ QueueTyped
      /\ pc \in {"pe", "rx", "rch", "tch", "tx", "tch2"}
  BY DEF Typed
<1>1. Record(port') /\ Types(port')
  BY PortTyped
<1>2. Effect
  BY EveryStep
<1>3. CASE TaskEffect
  <2>1. PartnerRecord(partner') /\ PartnerTypes(partner')
    BY <1>0, <1>3, TaskKeeps
  <2>2. pc' \in {"pe", "rx", "rch", "tch", "tx", "tch2"}
    BY <1>3, TaskKeeps
  <2>3. PhyTyped'
    <3>1. port.counter \in MsgIds /\ port.out \in Contents
      BY DEF Typed, Types, TxTypes, CountTypes
    <3>2. CASE phy' = phy
      BY <1>0, <3>2 DEF PhyTyped
    <3>3. CASE phy' = [id |-> port.counter, content |-> port.out, got |-> FALSE]
      BY <3>1, <3>3 DEF PhyTyped
    <3> QED BY <1>3, <3>2, <3>3, TaskKeeps
  <2>4. QueueTyped'
    <3>1. CASE rxq' = rxq
      BY <1>0, <3>1 DEF QueueTyped
    <3>2. CASE rxq # <<>> /\ rxq' = Tail(rxq)
      <4>1. rxq \in Seq([id : MsgIds, content : Contents]) /\ Len(rxq) <= CacheDepth /\ CacheDepth \in Nat
        BY <1>0, PrlAssumption DEF QueueTyped
      <4>2. /\ rxq' \in Seq([id : MsgIds, content : Contents])
            /\ Len(rxq') = Len(rxq) - 1 /\ Len(rxq) \in Nat
        BY <3>2, <4>1, HeadTyped
      <4> QED BY <4>1, <4>2 DEF QueueTyped
    <3> QED BY <1>3, <3>1, <3>2, TaskKeeps
  <2> QED BY <1>1, <2>1, <2>2, <2>3, <2>4 DEF Typed
<1>4. CASE CompleteEffect
  <2>1. PhyTyped'
    BY <1>4, ContentFields DEF CompleteEffect, NoPhy, PhyTyped, NoContent
  <2> QED BY <1>0, <1>1, <1>4, <2>1 DEF CompleteEffect, Typed, QueueTyped
<1>5. CASE PartnerReceivesEffect
  <2>0. /\ partner.counter \in MsgIds /\ partner.stored \in MsgIds \union {NoId}
        /\ partner.n \in 0 .. MaxMessages /\ partner.resets \in 0 .. MaxSoftResets
        /\ partner.owes \in {"nothing", "request", "chunk", "accept"}
        /\ partner.chunking \in BOOLEAN /\ partner.awaits_accept \in BOOLEAN
        /\ partner.accepted \in SUBSET Nat
    BY <1>0 DEF PartnerTypes
  <2>1. phy.id \in MsgIds /\ phy.content.n \in Nat /\ 0 \in MsgIds
    BY <1>0, <1>5, PrlAssumption DEF PartnerReceivesEffect, InFlight, PhyTyped, Contents, MsgIds
  <2>2. PhyTyped'
    BY <1>0, <1>5 DEF PartnerReceivesEffect, PhyGot, PhyTyped
  <2>3. PartnerRecord(partner')
    BY <1>0, <1>5 DEF PartnerReceivesEffect, PartnerBut
  <2>4. /\ partner'.n = partner.n /\ partner'.resets = partner.resets
        /\ partner'.counter \in {partner.counter, 0}
        /\ partner'.stored \in {partner.stored, phy.id}
        /\ partner'.accepted \in {partner.accepted, partner.accepted \union {phy.content.n}}
    BY <1>5 DEF PartnerReceivesEffect, PartnerBut, PartnerFields
  <2>5. partner'.owes \in {partner.owes, "nothing", "request", "chunk", "accept"}
    BY <1>5 DEF PartnerReceivesEffect, PartnerBut, PartnerFields
  <2>6. /\ partner'.chunking \in {partner.chunking, FALSE}
        /\ partner'.awaits_accept \in {partner.awaits_accept, FALSE}
    BY <1>5 DEF PartnerReceivesEffect, PartnerBut, PartnerFields
  <2>7. PartnerTypes(partner')
    BY <2>0, <2>1, <2>4, <2>5, <2>6 DEF PartnerTypes
  <2> QED BY <1>0, <1>1, <1>5, <2>2, <2>3, <2>7 DEF PartnerReceivesEffect, Typed, QueueTyped
<1>6. CASE SendsEffect
  <2>0. /\ partner.counter \in MsgIds /\ partner.stored \in MsgIds \union {NoId}
        /\ partner.n \in 0 .. MaxMessages /\ partner.resets \in 0 .. MaxSoftResets
        /\ partner.owes \in {"nothing", "request", "chunk", "accept"}
        /\ partner.chunking \in BOOLEAN /\ partner.awaits_accept \in BOOLEAN
        /\ partner.accepted \in SUBSET Nat
        /\ 0 \in MsgIds /\ NextId(0) \in MsgIds /\ NextId(partner.counter) \in MsgIds
    <3>1. 0 \in MsgIds /\ partner.counter \in MsgIds
      BY <1>0, PrlAssumption DEF PartnerTypes, MsgIds
    <3> QED BY <1>0, <3>1, NextIdType DEF PartnerTypes
  <2>1. PICK id \in MsgIds, content \in Contents : Sends(id, content)
    <3>1. /\ partner.n \in Nat /\ partner.n + 1 \in Nat /\ 0 \in 0 .. 2 /\ 1 \in 0 .. 2
          /\ 0 \in Nat
      BY <2>0, PrlAssumption
    <3>2. /\ Content("plain", partner.n + 1, 0) \in Contents
          /\ Content("chunk", partner.n + 1, 0) \in Contents
          /\ Content("chunk", partner.n, 1) \in Contents
          /\ Content("request", 0, 1) \in Contents /\ Content("soft", 0, 0) \in Contents
      BY <3>1, ContentFields
    <3> QED BY <1>6, <2>0, <3>2 DEF SendsEffect, PartnerMessageEffect, PartnerRequestEffect,
               PartnerChunkEffect, PartnerAcceptEffect, PartnerSoftResetEffect
  <2>2. QueueTyped' /\ phy' = NoPhy
    BY <1>0, <2>1, SentTyped
  <2>3. PhyTyped'
    BY <2>2, ContentFields DEF NoPhy, PhyTyped, NoContent
  <2>4. PartnerRecord(partner') /\ PartnerTypes(partner')
    <3>1. CASE PartnerMessageEffect \/ PartnerAcceptEffect
      <4>1. /\ PartnerBut({"counter", "n", "owes", "chunking"}, partner, partner')
            /\ partner'.counter = NextId(partner.counter) /\ partner'.owes = "nothing"
            /\ partner'.chunking \in {TRUE, FALSE, partner.chunking}
        BY <3>1 DEF PartnerMessageEffect, PartnerAcceptEffect, PartnerBut, PartnerFields
      <4>2. partner'.n \in 0 .. MaxMessages
        BY <2>0, <3>1, PrlAssumption DEF PartnerMessageEffect, PartnerAcceptEffect
      <4> QED BY <2>0, <4>1, <4>2 DEF PartnerTypes, PartnerBut, PartnerFields
    <3>2. CASE PartnerRequestEffect \/ PartnerChunkEffect
      <4>1. /\ PartnerBut({"counter", "owes", "chunking"}, partner, partner')
            /\ partner'.counter = NextId(partner.counter) /\ partner'.owes = "nothing"
            /\ partner'.chunking \in {FALSE, partner.chunking}
        BY <3>2 DEF PartnerRequestEffect, PartnerChunkEffect, PartnerBut, PartnerFields
      <4> QED BY <2>0, <4>1 DEF PartnerTypes, PartnerBut, PartnerFields
    <3>3. CASE PartnerSoftResetEffect
      <4>1. /\ PartnerBut({"counter", "stored", "resets", "owes", "chunking", "awaits_accept"},
                          partner, partner')
            /\ partner'.counter = NextId(0) /\ partner'.owes = "nothing"
            /\ partner'.stored = NoId /\ partner'.chunking = FALSE
            /\ partner'.awaits_accept = TRUE
        BY <3>3 DEF PartnerSoftResetEffect
      <4>2. partner'.resets \in 0 .. MaxSoftResets
        BY <2>0, <3>3, PrlAssumption DEF PartnerSoftResetEffect
      <4> QED BY <2>0, <4>1, <4>2 DEF PartnerTypes, PartnerBut, PartnerFields
    <3> QED BY <1>6, <3>1, <3>2, <3>3 DEF SendsEffect
  <2>5. pc' = pc
    BY <2>1 DEF Sends
  <2> QED BY <1>0, <1>1, <2>2, <2>3, <2>4, <2>5 DEF Typed
<1> QED BY <1>2, <1>3, <1>4, <1>5, <1>6 DEF Effect

-----------------------------------------------------------------------------
(***************************************************************************)
(* Flow is inductive.                                                      *)
(***************************************************************************)
FlowFields ==
  {"rch", "rch_received", "tch", "tch_xmit", "tch_received", "pe", "init", "result",
   "pe_received", "to_send"}

\* Steps that leave these fields keep Flow.
LEMMA FlowKept ==
  ASSUME Flow, Record(port'), \A f \in FlowFields : port'[f] = port[f],
         pc' = pc \/ (pc = "rx" /\ pc' = "rch") \/ (pc = "tx" /\ pc' = "tch2")
  PROVE  Flow'
<1>1. /\ port'.rch = port.rch /\ port'.rch_received = port.rch_received
      /\ port'.tch = port.tch /\ port'.tch_xmit = port.tch_xmit
      /\ port'.tch_received = port.tch_received /\ port'.pe = port.pe
      /\ port'.init = port.init /\ port'.result = port.result
      /\ port'.pe_received = port.pe_received /\ port'.to_send = port.to_send
  BY DEF FlowFields
<1>2. Routed'
  BY <1>1 DEF Flow, Routed, Busy
<1>3. Taken'
  BY <1>1 DEF Flow, Taken, Hard
<1>4. Given'
  BY <1>1 DEF Flow, Given, Busy, Hard
<1>5. NotLast'
  BY <1>1 DEF Flow, NotLast
<1> QED BY <1>2, <1>3, <1>4, <1>5 DEF Flow

\* The first state hands nothing over.
LEMMA InitFlow == Init => Flow
BY DEF Init, Flow, Routed, Taken, Given, NotLast, Busy, Hard
\* Every step keeps how messages are handed over.
LEMMA FlowStep == ASSUME Typed, Flow, Next PROVE Flow'
<1> USE DEF SameBut, Fields
<1>0. /\ Record(port) /\ TxTypes(port) /\ RchTypes(port) /\ TchTypes(port) /\ PeTypes(port)
      /\ CountTypes(port)
  BY DEF Typed, Types
<1>r. Routed
  BY DEF Flow
<1>t. Taken
  BY DEF Flow
<1>g. Given
  BY DEF Flow
<1>n. NotLast
  BY DEF Flow
<1>e. Effect
  BY EveryStep
<1>1. CASE PeWaitsEffect
  <2>1. Routed'
    BY <1>0, <1>r, <1>1 DEF PeWaitsEffect, PeTurn, Fresh, FreshFields, Routed, Busy
  <2>2. Taken'
    BY <1>0, <1>t, <1>r, <1>1 DEF PeWaitsEffect, PeTurn, Fresh, FreshFields, Taken, Routed,
       Hard, Busy
  <2>3. Given'
    BY <1>0, <1>g, <1>r, <1>t, <1>1 DEF PeWaitsEffect, PeTurn, Fresh, FreshFields, Given,
       Routed, Taken, Busy, Hard
  <2>4. NotLast'
    BY <1>0, <1>n, <1>1 DEF PeWaitsEffect, PeTurn, Fresh, FreshFields, NotLast
  <2> QED BY <2>1, <2>2, <2>3, <2>4 DEF Flow
<1>2. CASE PeSendEffect
  <2>1. Routed'
    BY <1>0, <1>r, <1>2 DEF PeSendEffect, PeTurn, Routed, Busy
  <2>2. Taken'
    BY <1>0, <1>t, <1>r, <1>2, <1>g DEF PeSendEffect, PeTurn, Taken, Routed, Hard, Busy, Given,
       TchTypes
  <2>3. Given'
    BY <1>0, <1>g, <1>r, <1>t, <1>2 DEF PeSendEffect, PeTurn, Given, Routed, Taken, Busy, Hard
  <2>4. NotLast'
    BY <1>0, <1>n, <1>2 DEF PeSendEffect, PeTurn, NotLast
  <2> QED BY <2>1, <2>2, <2>3, <2>4 DEF Flow
<1>3. CASE PeSendResetEffect
  <2>1. Routed'
    BY <1>0, <1>r, <1>3 DEF PeSendResetEffect, PeTurn, Fresh, FreshFields, Routed, Busy
  <2>2. Taken'
    BY <1>0, <1>t, <1>r, <1>3 DEF PeSendResetEffect, PeTurn, Fresh, FreshFields, Taken, Routed,
       Hard, Busy
  <2>3. Given'
    BY <1>0, <1>g, <1>r, <1>t, <1>3 DEF PeSendResetEffect, PeTurn, Fresh, FreshFields, Given,
       Routed, Taken, Busy, Hard
  <2>4. NotLast'
    BY <1>0, <1>n, <1>3 DEF PeSendResetEffect, PeTurn, Fresh, FreshFields, NotLast
  <2> QED BY <2>1, <2>2, <2>3, <2>4 DEF Flow
<1>4. CASE PeResetRunEffect
  <2>1. Routed'
    BY <1>0, <1>r, <1>4 DEF PeResetRunEffect, PeTurn, Routed, Busy
  <2>2. Taken'
    BY <1>0, <1>t, <1>r, <1>4 DEF PeResetRunEffect, PeTurn, Taken, Routed, Hard, Busy
  <2>3. Given'
    BY <1>0, <1>g, <1>r, <1>t, <1>4 DEF PeResetRunEffect, PeTurn, Given, Routed, Taken, Busy,
       Hard
  <2>4. NotLast'
    BY <1>0, <1>n, <1>4 DEF PeResetRunEffect, PeTurn, NotLast
  <2> QED BY <2>1, <2>2, <2>3, <2>4 DEF Flow
<1>5. CASE RxSoftResetEffect
  <2>1. Routed'
    BY <1>0, <1>r, <1>5 DEF RxSoftResetEffect, RxEffect, Routed, Busy
  <2>2. Taken'
    BY <1>0, <1>t, <1>r, <1>5 DEF RxSoftResetEffect, RxEffect, Taken, Routed, Hard, Busy
  <2>3. Given'
    BY <1>0, <1>g, <1>r, <1>t, <1>5 DEF RxSoftResetEffect, RxEffect, Given, Routed, Taken,
       Busy, Hard
  <2>4. NotLast'
    BY <1>0, <1>n, <1>5 DEF RxSoftResetEffect, RxEffect, NotLast
  <2> QED BY <2>1, <2>2, <2>3, <2>4 DEF Flow
<1>6. CASE RxDuplicateEffect
  <2>1. Routed'
    BY <1>0, <1>r, <1>6 DEF RxDuplicateEffect, RxEffect, Routed, Busy
  <2>2. Taken'
    BY <1>0, <1>t, <1>r, <1>6 DEF RxDuplicateEffect, RxEffect, Taken, Routed, Hard, Busy
  <2>3. Given'
    BY <1>0, <1>g, <1>r, <1>t, <1>6 DEF RxDuplicateEffect, RxEffect, Given, Routed, Taken,
       Busy, Hard
  <2>4. NotLast'
    BY <1>0, <1>n, <1>6 DEF RxDuplicateEffect, RxEffect, NotLast
  <2> QED BY <2>1, <2>2, <2>3, <2>4 DEF Flow
<1>7. CASE RxMessageEffect
  <2>1. Routed'
    BY <1>0, <1>r, <1>7 DEF RxMessageEffect, RxEffect, ForTch, Ends, TxTypes, Routed, Busy
  <2>2. Taken'
    BY <1>0, <1>t, <1>r, <1>7 DEF RxMessageEffect, RxEffect, ForTch, Ends, TxTypes, Taken,
       Routed, Hard, Busy
  <2>3. Given'
    BY <1>0, <1>g, <1>r, <1>t, <1>7 DEF RxMessageEffect, RxEffect, ForTch, Ends, TxTypes,
       Given, Routed, Taken, Busy, Hard
  <2>4. NotLast'
    BY <1>0, <1>n, <1>7 DEF RxMessageEffect, RxEffect, ForTch, Ends, TxTypes, NotLast
  <2> QED BY <2>1, <2>2, <2>3, <2>4 DEF Flow
<1>8. CASE RchWaitEffect
  <2>1. Routed'
    BY <1>0, <1>r, <1>8 DEF RchWaitEffect, RchEffect, PassesUp, Routed, Busy
  <2>2. Taken'
    BY <1>0, <1>t, <1>r, <1>8 DEF RchWaitEffect, RchEffect, PassesUp, Taken, Routed, Hard, Busy
  <2>3. Given'
    BY <1>0, <1>g, <1>r, <1>t, <1>8 DEF RchWaitEffect, RchEffect, PassesUp, Given, Routed,
       Taken, Busy, Hard, TchTypes
  <2>4. NotLast'
    BY <1>0, <1>n, <1>8 DEF RchWaitEffect, RchEffect, PassesUp, NotLast
  <2> QED BY <2>1, <2>2, <2>3, <2>4 DEF Flow
<1>9. CASE RchProcessingEffect
  <2>1. Routed'
    BY <1>0, <1>r, <1>9 DEF RchProcessingEffect, RchEffect, PassesUp, RchReported, PeGoesOn,
       Routed, Busy
  <2>2. Taken'
    BY <1>0, <1>t, <1>r, <1>9 DEF RchProcessingEffect, RchEffect, PassesUp, RchReported,
       PeGoesOn, Taken, Routed, Hard, Busy
  <2>3. Given'
    BY <1>0, <1>g, <1>r, <1>t, <1>9 DEF RchProcessingEffect, RchEffect, PassesUp, RchReported,
       PeGoesOn, Given, Routed, Taken, Busy, Hard, TchTypes
  <2>4. NotLast'
    BY <1>0, <1>n, <1>9 DEF RchProcessingEffect, RchEffect, PassesUp, RchReported, PeGoesOn,
       NotLast
  <2> QED BY <2>1, <2>2, <2>3, <2>4 DEF Flow
<1>10. CASE RchRequestingEffect
  <2>1. Routed'
    BY <1>0, <1>r, <1>10 DEF RchRequestingEffect, RchEffect, RchReported, PeGoesOn, Routed, Busy
  <2>2. Taken'
    BY <1>0, <1>t, <1>r, <1>10 DEF RchRequestingEffect, RchEffect, RchReported, PeGoesOn,
       Taken, Routed, Hard, Busy
  <2>3. Given'
    BY <1>0, <1>g, <1>r, <1>t, <1>10 DEF RchRequestingEffect, RchEffect, RchReported, PeGoesOn,
       Given, Routed, Taken, Busy, Hard, TchTypes
  <2>4. NotLast'
    BY <1>0, <1>n, <1>10 DEF RchRequestingEffect, RchEffect, RchReported, PeGoesOn, NotLast
  <2> QED BY <2>1, <2>2, <2>3, <2>4 DEF Flow
<1>11. CASE RchWaitingEffect
  <2>1. Routed'
    BY <1>0, <1>r, <1>11 DEF RchWaitingEffect, RchEffect, RchReported, PeGoesOn, Routed, Busy
  <2>2. Taken'
    BY <1>0, <1>t, <1>r, <1>11 DEF RchWaitingEffect, RchEffect, RchReported, PeGoesOn, Taken,
       Routed, Hard, Busy
  <2>3. Given'
    BY <1>0, <1>g, <1>r, <1>t, <1>11 DEF RchWaitingEffect, RchEffect, RchReported, PeGoesOn,
       Given, Routed, Taken, Busy, Hard, TchTypes
  <2>4. NotLast'
    BY <1>0, <1>n, <1>11 DEF RchWaitingEffect, RchEffect, RchReported, PeGoesOn, NotLast
  <2> QED BY <2>1, <2>2, <2>3, <2>4 DEF Flow
<1>12. CASE RchTimeoutEffect
  <2>1. Routed'
    BY <1>0, <1>r, <1>12 DEF RchTimeoutEffect, RchEffect, RchReported, PeGoesOn, Routed, Busy
  <2>2. Taken'
    BY <1>0, <1>t, <1>r, <1>12 DEF RchTimeoutEffect, RchEffect, RchReported, PeGoesOn, Taken,
       Routed, Hard, Busy
  <2>3. Given'
    BY <1>0, <1>g, <1>r, <1>t, <1>12 DEF RchTimeoutEffect, RchEffect, RchReported, PeGoesOn,
       Given, Routed, Taken, Busy, Hard
  <2>4. NotLast'
    BY <1>0, <1>n, <1>12 DEF RchTimeoutEffect, RchEffect, RchReported, PeGoesOn, NotLast
  <2> QED BY <2>1, <2>2, <2>3, <2>4 DEF Flow
<1>13. CASE RchReportEffect
  <2>1. Routed'
    BY <1>0, <1>r, <1>13 DEF RchReportEffect, RchEffect, Routed, Busy
  <2>2. Taken'
    BY <1>0, <1>t, <1>r, <1>13 DEF RchReportEffect, RchEffect, Taken, Routed, Hard, Busy
  <2>3. Given'
    BY <1>0, <1>g, <1>r, <1>t, <1>13 DEF RchReportEffect, RchEffect, Given, Routed, Taken,
       Busy, Hard
  <2>4. NotLast'
    BY <1>0, <1>n, <1>13 DEF RchReportEffect, RchEffect, NotLast
  <2> QED BY <2>1, <2>2, <2>3, <2>4 DEF Flow
<1>14. CASE TchWaitReceivedEffect
  <2>1. Routed'
    BY <1>0, <1>r, <1>14 DEF TchWaitReceivedEffect, TchEffect, TchTook, Routed, Busy
  <2>2. Taken'
    BY <1>0, <1>t, <1>r, <1>14 DEF TchWaitReceivedEffect, TchEffect, TchTook, Taken, Routed,
       Hard, Busy
  <2>3. Given'
    BY <1>0, <1>g, <1>r, <1>t, <1>14 DEF TchWaitReceivedEffect, TchEffect, TchTook, Given,
       Routed, Taken, Busy, Hard
  <2>4. NotLast'
    BY <1>0, <1>n, <1>14 DEF TchWaitReceivedEffect, TchEffect, TchTook, NotLast
  <2> QED BY <2>1, <2>2, <2>3, <2>4 DEF Flow
<1>15. CASE TchWaitXmitEffect
  <2>1. Routed'
    BY <1>0, <1>r, <1>15, <1>t DEF TchWaitXmitEffect, TchEffect, PeGoesOn, ToldOf, Routed,
       Busy, Taken
  <2>2. Taken'
    BY <1>0, <1>t, <1>r, <1>15 DEF TchWaitXmitEffect, TchEffect, PeGoesOn, ToldOf, Taken,
       Routed, Hard, Busy
  <2>3. Given'
    BY <1>0, <1>g, <1>r, <1>t, <1>15 DEF TchWaitXmitEffect, TchEffect, PeGoesOn, ToldOf, Given,
       Routed, Taken, Busy, Hard
  <2>4. NotLast'
    BY <1>0, <1>n, <1>15 DEF TchWaitXmitEffect, TchEffect, PeGoesOn, ToldOf, NotLast
  <2> QED BY <2>1, <2>2, <2>3, <2>4 DEF Flow
<1>16. CASE TchTransmissionEffect
  <2>1. Routed'
    BY <1>0, <1>r, <1>16 DEF TchTransmissionEffect, TchEffect, Flags, Released, PeGoesOn,
       ToldOf, Routed, Busy
  <2>2. Taken'
    BY <1>0, <1>t, <1>r, <1>16 DEF TchTransmissionEffect, TchEffect, Flags, Released, PeGoesOn,
       ToldOf, Taken, Routed, Hard, Busy
  <2>3. Given'
    BY <1>0, <1>g, <1>r, <1>t, <1>16 DEF TchTransmissionEffect, TchEffect, Flags, Released,
       PeGoesOn, ToldOf, Given, Routed, Taken, Busy, Hard
  <2>4. NotLast'
    BY <1>0, <1>n, <1>16 DEF TchTransmissionEffect, TchEffect, Flags, Released, PeGoesOn,
       ToldOf, NotLast
  <2> QED BY <2>1, <2>2, <2>3, <2>4 DEF Flow
<1>17. CASE TchConstructEffect
  <2>1. Routed'
    BY <1>0, <1>r, <1>17 DEF TchConstructEffect, TchEffect, Routed, Busy
  <2>2. Taken'
    BY <1>0, <1>t, <1>r, <1>17 DEF TchConstructEffect, TchEffect, Taken, Routed, Hard, Busy
  <2>3. Given'
    BY <1>0, <1>g, <1>r, <1>t, <1>17 DEF TchConstructEffect, TchEffect, Given, Routed, Taken,
       Busy, Hard
  <2>4. NotLast'
    BY <1>0, <1>n, <1>17 DEF TchConstructEffect, TchEffect, NotLast
  <2> QED BY <2>1, <2>2, <2>3, <2>4 DEF Flow
<1>18. CASE TchSendingEffect
  <2>1. Routed'
    BY <1>0, <1>r, <1>18 DEF TchSendingEffect, TchEffect, Flags, Released, PeGoesOn, ToldOf,
       CountTypes, Chunks, Routed, Busy
  <2>2. Taken'
    BY <1>0, <1>t, <1>r, <1>18 DEF TchSendingEffect, TchEffect, Flags, Released, PeGoesOn,
       ToldOf, CountTypes, Chunks, Taken, Routed, Hard, Busy
  <2>3. Given'
    BY <1>0, <1>g, <1>r, <1>t, <1>18 DEF TchSendingEffect, TchEffect, Flags, Released,
       PeGoesOn, ToldOf, CountTypes, Chunks, Given, Routed, Taken, Busy, Hard
  <2>4. NotLast'
    BY <1>0, <1>n, <1>18 DEF TchSendingEffect, TchEffect, Flags, Released, PeGoesOn, ToldOf,
       CountTypes, Chunks, NotLast
  <2> QED BY <2>1, <2>2, <2>3, <2>4 DEF Flow
<1>19. CASE TchRequestEffect
  <2>1. Routed'
    BY <1>0, <1>r, <1>19 DEF TchRequestEffect, TchEffect, Flags, Released, PeGoesOn, ToldOf,
       Routed, Busy
  <2>2. Taken'
    BY <1>0, <1>t, <1>r, <1>19 DEF TchRequestEffect, TchEffect, Flags, Released, PeGoesOn,
       ToldOf, Taken, Routed, Hard, Busy
  <2>3. Given'
    BY <1>0, <1>g, <1>r, <1>t, <1>19 DEF TchRequestEffect, TchEffect, Flags, Released,
       PeGoesOn, ToldOf, Given, Routed, Taken, Busy, Hard
  <2>4. NotLast'
    BY <1>0, <1>n, <1>19 DEF TchRequestEffect, TchEffect, Flags, Released, PeGoesOn, ToldOf,
       NotLast
  <2> QED BY <2>1, <2>2, <2>3, <2>4 DEF Flow
<1>20. CASE TchRequestTimeoutEffect
  <2>1. Routed'
    BY <1>0, <1>r, <1>20 DEF TchRequestTimeoutEffect, TchEffect, ToldOf, Routed, Busy
  <2>2. Taken'
    BY <1>0, <1>t, <1>r, <1>20 DEF TchRequestTimeoutEffect, TchEffect, ToldOf, Taken, Routed,
       Hard, Busy
  <2>3. Given'
    BY <1>0, <1>g, <1>r, <1>t, <1>20 DEF TchRequestTimeoutEffect, TchEffect, ToldOf, Given,
       Routed, Taken, Busy, Hard
  <2>4. NotLast'
    BY <1>0, <1>n, <1>20 DEF TchRequestTimeoutEffect, TchEffect, ToldOf, NotLast
  <2> QED BY <2>1, <2>2, <2>3, <2>4 DEF Flow
<1>21. CASE TchReceivedRunEffect
  <2>1. Routed'
    BY <1>0, <1>r, <1>21 DEF TchReceivedRunEffect, TchEffect, Routed, Busy
  <2>2. Taken'
    BY <1>0, <1>t, <1>r, <1>21 DEF TchReceivedRunEffect, TchEffect, Taken, Routed, Hard, Busy
  <2>3. Given'
    BY <1>0, <1>g, <1>r, <1>t, <1>21 DEF TchReceivedRunEffect, TchEffect, Given, Routed, Taken,
       Busy, Hard
  <2>4. NotLast'
    BY <1>0, <1>n, <1>21 DEF TchReceivedRunEffect, TchEffect, NotLast
  <2> QED BY <2>1, <2>2, <2>3, <2>4 DEF Flow
<1>22. CASE TxWaitEffect \/ TxStartAmsEffect \/ TxPendingEffect
  <2>1. /\ Record(port') /\ \A f \in FlowFields : port'[f] = port[f]
    BY <1>0, <1>22 DEF TxWaitEffect, TxStartAmsEffect, TxPendingEffect, Passes, PassFields,
       FlowFields
  <2>2. pc = "tx" /\ pc' = "tch2"
    BY <1>22 DEF TxWaitEffect, TxStartAmsEffect, TxPendingEffect, TxEffect
  <2> QED BY <2>1, <2>2, FlowKept
<1>23. CASE TxLayerResetEffect
  <2>1. /\ Record(port') /\ \A f \in FlowFields : port'[f] = port[f]
    BY <1>23 DEF TxLayerResetEffect, Constructs, FlowFields
  <2>2. pc = "tx" /\ pc' = "tch2"
    BY <1>23 DEF TxLayerResetEffect, Constructs, TxEffect
  <2> QED BY <2>1, <2>2, FlowKept
<1>24. CASE TxSuccessEffect \/ TxErrorEffect
  <2>1. /\ Record(port') /\ \A f \in FlowFields : port'[f] = port[f]
    BY <1>24 DEF TxSuccessEffect, TxErrorEffect, TxDone, FlowFields
  <2>2. pc = "tx" /\ pc' = "tch2"
    BY <1>24 DEF TxSuccessEffect, TxErrorEffect, TxDone, TxEffect
  <2> QED BY <2>1, <2>2, FlowKept
<1>25. CASE CompleteEffect \/ PartnerReceivesEffect
  <2>1. /\ Record(port') /\ \A f \in FlowFields : port'[f] = port[f]
    BY <1>0, <1>25 DEF CompleteEffect, StatusSet, PartnerReceivesEffect, FlowFields
  <2>2. pc' = pc
    BY <1>25 DEF CompleteEffect, PartnerReceivesEffect
  <2> QED BY <2>1, <2>2, FlowKept
<1>26. CASE SendsEffect
  <2>1. PICK id, content : Sends(id, content)
    BY <1>26 DEF SendsEffect, PartnerMessageEffect, PartnerRequestEffect,
       PartnerChunkEffect, PartnerAcceptEffect, PartnerSoftResetEffect
  <2>2. /\ Record(port') /\ \A f \in FlowFields : port'[f] = port[f]
    BY <1>0, <2>1 DEF Sends, StatusSet, FlowFields
  <2>3. pc' = pc
    BY <2>1 DEF Sends
  <2> QED BY <2>2, <2>3, FlowKept
<1>27. CASE StaysEffect
  <2>1. port' = port
    BY <1>27 DEF StaysEffect
  <2>2. CASE (pc = "rx" /\ pc' = "rch") \/ (pc = "tx" /\ pc' = "tch2")
    BY <1>0, <2>1, <2>2, FlowKept DEF FlowFields
  <2>3. CASE rch_idle /\ pc = "rch" /\ pc' = "tch"
    <3>1. port.rch = "wait" => ~port.rch_received
      BY <2>3 DEF rch_idle
    <3>2. Routed'
      BY <2>1, <2>3, <3>1, <1>r DEF Routed, Busy
    <3>3. Taken'
      BY <2>1, <2>3, <1>t DEF Taken, Hard
    <3>4. Given'
      BY <2>1, <2>3, <1>g DEF Given, Busy, Hard
    <3> QED BY <2>1, <3>2, <3>3, <3>4, <1>n DEF Flow, NotLast
  <2>4. CASE \/ tch_idle /\ pc = "tch" /\ pc' = "tx"
             \/ tch_idle /\ pc = "tch2" /\ pc' = "pe"
    <3>1. \/ port.tch = "wait" /\ ~port.tch_received /\ ~port.tch_xmit
          \/ Busy
      BY <2>4 DEF tch_idle, Busy
    <3>2. Routed'
      BY <2>1, <2>4, <3>1, <1>r DEF Routed, Busy
    <3>3. Taken'
      BY <2>1, <2>4, <3>1, <1>t DEF Taken, Hard, Busy
    <3>4. Given'
      BY <2>1, <2>4, <3>1, <1>g DEF Given, Busy, Hard
    <3> QED BY <2>1, <3>2, <3>3, <3>4, <1>n DEF Flow, NotLast
  <2> QED BY <1>27, <2>2, <2>3, <2>4 DEF StaysEffect
<1> QED BY <1>e, <1>1, <1>2, <1>3, <1>4, <1>5, <1>6, <1>7, <1>8, <1>9, <1>10, <1>11, <1>12,
       <1>13, <1>14, <1>15, <1>16, <1>17, <1>18, <1>19, <1>20, <1>21, <1>22, <1>23, <1>24,
              <1>25, <1>26, <1>27 DEF Effect, TaskEffect

\* What the other invariants are proved on top of.
Core == Typed /\ Flow

\* Types and flags are inductive together.
LEMMA CoreStep == ASSUME Core, [Next]_vars PROVE Core'
<1>1. CASE Next
  BY <1>1, TypeStep, FlowStep DEF Core
<1>2. CASE UNCHANGED vars
  <2>1. Typed'
    BY <1>2 DEF vars, Core, Typed, PhyTyped, QueueTyped
  <2>2. Flow'
    BY <1>2 DEF vars, Core, Flow, Routed, Taken, Given, NotLast, Busy, Hard
  <2> QED BY <2>1, <2>2 DEF Core
<1> QED BY <1>1, <1>2

\* Types and flags hold in every reachable state.
LEMMA CoreHolds == Spec => []Core
<1>1. Init => Core
  BY InitTyped, InitFlow DEF Core
<1>2. Core /\ [Next]_vars => Core'
  BY CoreStep
<1> QED BY <1>1, <1>2, PTL DEF Spec

\* Message ids stay in their three bits and chunk numbers within a message, in
\* increment_msgid_counter and tch_wait_for_chunk_request_entry.
THEOREM TypeCorrect == Spec => []TypeOK
<1>1. Core => TypeOK
  BY TypeOKIsTyped DEF Core
<1> QED BY <1>1, CoreHolds, PTL

\* The mishaps are never forgotten.
LEMMA MishapsGrow == ASSUME Core, Next PROVE port.mishaps \subseteq port'.mishaps
<1> USE DEF SameBut, Fields
<1>e. Effect
  BY EveryStep DEF Core
<1>1. CASE PeWaitsEffect \/ PeSendEffect \/ PeSendResetEffect \/ PeResetRunEffect
  BY <1>1 DEF PeWaitsEffect, PeSendEffect, PeSendResetEffect, PeResetRunEffect, FreshFields
<1>2. CASE RxSoftResetEffect \/ RxDuplicateEffect \/ RxMessageEffect
  BY <1>2 DEF RxSoftResetEffect, RxDuplicateEffect, RxMessageEffect
<1>3. CASE RchWaitEffect \/ RchProcessingEffect \/ RchRequestingEffect
           \/ RchWaitingEffect \/ RchTimeoutEffect \/ RchReportEffect
  <2>1. port'.mishaps = port.mishaps
    BY <1>3 DEF RchWaitEffect, RchProcessingEffect, RchRequestingEffect,
       RchWaitingEffect, RchTimeoutEffect, RchReportEffect, RchReported
  <2> QED BY <2>1
<1>4. CASE TchWaitReceivedEffect \/ TchWaitXmitEffect \/ TchTransmissionEffect \/ TchConstructEffect
           \/ TchSendingEffect \/ TchRequestEffect \/ TchRequestTimeoutEffect \/ TchReceivedRunEffect
  BY <1>4 DEF TchWaitReceivedEffect, TchWaitXmitEffect, TchTransmissionEffect,
     TchConstructEffect,
     TchSendingEffect, TchRequestEffect, TchRequestTimeoutEffect, TchReceivedRunEffect,
     TchTook, Flags
<1>5. CASE TxWaitEffect \/ TxStartAmsEffect \/ TxPendingEffect \/ TxLayerResetEffect
  BY <1>5 DEF TxWaitEffect, TxStartAmsEffect, TxPendingEffect, TxLayerResetEffect, Passes,
     PassFields,
     Constructs
<1>6. CASE TxSuccessEffect \/ TxErrorEffect
  BY <1>6 DEF TxSuccessEffect, TxErrorEffect, TxDone
<1>7. CASE CompleteEffect \/ PartnerReceivesEffect \/ StaysEffect
  BY <1>7 DEF CompleteEffect, StatusSet, PartnerReceivesEffect, StaysEffect
<1>8. CASE SendsEffect
  <2>1. PICK id, content : Sends(id, content)
    BY <1>8 DEF SendsEffect, PartnerMessageEffect, PartnerRequestEffect,
       PartnerChunkEffect, PartnerAcceptEffect, PartnerSoftResetEffect
  <2> QED BY <2>1 DEF Sends, StatusSet
<1> QED BY <1>e, <1>1, <1>2, <1>3, <1>4, <1>5, <1>6, <1>7, <1>8 DEF Effect, TaskEffect

-----------------------------------------------------------------------------
(***************************************************************************)
(* The cache of received messages.                                         *)
(***************************************************************************)
Messages == [id : MsgIds, content : Contents]
\* A message that arrived once or twice.
Extends(q, m, r) == r = Append(q, m) \/ r = Append(Append(q, m), m)

\* What the partner sends is added to the cache.
LEMMA SentExtends ==
  ASSUME QueueTyped, NEW id \in MsgIds, NEW content \in Contents, Sends(id, content)
  PROVE  /\ rxq \in Seq(Messages) /\ [id |-> id, content |-> content] \in Messages
         /\ Extends(rxq, [id |-> id, content |-> content], rxq')
<1> DEFINE m == [id |-> id, content |-> content]
<1>1. m \in Messages /\ rxq \in Seq(Messages)
  BY DEF QueueTyped, Messages
<1>2. rxq' = Append(rxq, m) \/ rxq' = rxq \o <<m, m>>
  BY DEF Sends
<1> HIDE DEF m
<1>3. rxq \o <<m, m>> = Append(Append(rxq, m), m)
  BY <1>1
<1> QED BY <1>1, <1>2, <1>3 DEF Extends, m

-----------------------------------------------------------------------------
(***************************************************************************)
(* What is ignored as a duplicate.                                         *)
(***************************************************************************)
\* Messages next to each other have different ids, but for repetitions and
\* soft resets.
Differ(q) ==
  \A i \in 1 .. Len(q) - 1 :
    q[i + 1].content.kind = "soft" \/ q[i + 1] = q[i] \/ q[i + 1].id # q[i].id
\* The counter of the partner has gone on since the last message.
GoneOn(q, counter) == q # <<>> => q[Len(q)].id # counter

\* The rest of such a cache, and its first two messages.
LEMMA TailDiffers ==
  ASSUME NEW q \in Seq(Messages), q # <<>>, NEW counter, Differ(q), GoneOn(q, counter)
  PROVE  /\ Differ(Tail(q)) /\ GoneOn(Tail(q), counter)
         /\ Head(q) = q[1] /\ q[1] \in Messages
         /\ Tail(q) = <<>> => q[1].id # counter
         /\ Tail(q) # <<>> => Tail(q)[1] = q[2]
              /\ (q[2].content.kind = "soft" \/ q[2] = q[1] \/ q[2].id # q[1].id)
<1>1. /\ Len(q) \in Nat \ {0} /\ Len(Tail(q)) = Len(q) - 1
      /\ \A i \in 1 .. Len(q) - 1 : Tail(q)[i] = q[i + 1]
      /\ Head(q) = q[1] /\ q[1] \in Messages /\ Tail(q) \in Seq(Messages)
  OBVIOUS
<1>2. Differ(Tail(q))
  <2> SUFFICES ASSUME NEW i \in 1 .. Len(Tail(q)) - 1
               PROVE  \/ Tail(q)[i + 1].content.kind = "soft"
                      \/ Tail(q)[i + 1] = Tail(q)[i] \/ Tail(q)[i + 1].id # Tail(q)[i].id
    BY DEF Differ
  <2>1. i + 1 \in 1 .. Len(q) - 1 /\ i \in 1 .. Len(q) - 1
    BY <1>1
  <2>2. Tail(q)[i] = q[i + 1] /\ Tail(q)[i + 1] = q[(i + 1) + 1]
    BY <1>1, <2>1
  <2> QED BY <2>1, <2>2 DEF Differ
<1>3. Tail(q) = <<>> <=> Len(q) = 1
  BY <1>1
<1>4. GoneOn(Tail(q), counter) /\ (Tail(q) = <<>> => q[1].id # counter)
  <2>1. CASE Len(q) = 1
    BY <1>3, <2>1 DEF GoneOn
  <2>2. CASE Len(q) # 1
    <3>1. Len(Tail(q)) \in 1 .. Len(q) - 1 /\ Len(Tail(q)) + 1 = Len(q)
      BY <1>1, <2>2
    <3>2. Tail(q)[Len(Tail(q))] = q[Len(q)]
      BY <1>1, <3>1
    <3> QED BY <1>3, <2>2, <3>2 DEF GoneOn
  <2> QED BY <2>1, <2>2
<1>5. Tail(q) # <<>> => Tail(q)[1] = q[2]
        /\ (q[2].content.kind = "soft" \/ q[2] = q[1] \/ q[2].id # q[1].id)
  <2> SUFFICES ASSUME Tail(q) # <<>> PROVE Tail(q)[1] = q[2]
        /\ (q[2].content.kind = "soft" \/ q[2] = q[1] \/ q[2].id # q[1].id)
    OBVIOUS
  <2>1. 1 \in 1 .. Len(q) - 1 /\ 1 + 1 = 2
    BY <1>1, <1>3
  <2> QED BY <1>1, <2>1 DEF Differ
<1> QED BY <1>1, <1>2, <1>4, <1>5

\* One more message, which has a new id or is the last one again.
LEMMA AppendDiffers ==
  ASSUME NEW q \in Seq(Messages), NEW m \in Messages, Differ(q),
         q # <<>> => m.content.kind = "soft" \/ m = q[Len(q)] \/ m.id # q[Len(q)].id
  PROVE  /\ Append(q, m) \in Seq(Messages) /\ Append(q, m) # <<>> /\ Differ(Append(q, m))
         /\ Append(q, m)[Len(Append(q, m))] = m
         /\ Append(q, m)[1] = IF q = <<>> THEN m ELSE q[1]
<1> DEFINE r == Append(q, m)
<1>a. /\ Len(q) \in Nat /\ Len(r) = Len(q) + 1 /\ r \in Seq(Messages)
      /\ \A i \in 1 .. Len(q) : r[i] = q[i]
  OBVIOUS
<1>b. r[Len(q) + 1] = m /\ (q = <<>> <=> Len(q) = 0)
  OBVIOUS
<1> HIDE DEF r
<1>1. /\ Len(q) \in Nat /\ Len(r) = Len(q) + 1 /\ r \in Seq(Messages) /\ r # <<>>
      /\ \A i \in 1 .. Len(q) : r[i] = q[i]
      /\ r[Len(q) + 1] = m /\ (q = <<>> <=> Len(q) = 0)
  BY <1>a, <1>b
<1>2. Differ(r)
  <2> SUFFICES ASSUME NEW i \in 1 .. Len(r) - 1
               PROVE  r[i + 1].content.kind = "soft" \/ r[i + 1] = r[i] \/ r[i + 1].id # r[i].id
    BY DEF Differ
  <2>1. CASE i = Len(q)
    BY <1>1, <2>1
  <2>2. CASE i # Len(q)
    <3>1. i \in 1 .. Len(q) - 1 /\ i \in 1 .. Len(q) /\ i + 1 \in 1 .. Len(q)
      BY <1>1, <2>2
    <3> QED BY <1>1, <3>1 DEF Differ
  <2> QED BY <2>1, <2>2
<1>3. r[1] = IF q = <<>> THEN m ELSE q[1]
  BY <1>1
<1> QED BY <1>1, <1>2, <1>3 DEF r

\* A message with a new id, once or twice.
LEMMA ExtendedDiffers ==
  ASSUME NEW q \in Seq(Messages), NEW m \in Messages, NEW r, Extends(q, m, r), Differ(q),
         q # <<>> => m.content.kind = "soft" \/ m.id # q[Len(q)].id
  PROVE  /\ Differ(r) /\ r # <<>> /\ r[Len(r)] = m /\ r[1] = IF q = <<>> THEN m ELSE q[1]
<1> DEFINE a == Append(q, m)
<1>1. /\ a \in Seq(Messages) /\ a # <<>> /\ Differ(a) /\ a[Len(a)] = m
      /\ a[1] = IF q = <<>> THEN m ELSE q[1]
  BY AppendDiffers
<1> HIDE DEF a
<1>2. r = a \/ r = Append(a, m)
  BY DEF Extends, a
<1>3. /\ Append(a, m) # <<>> /\ Differ(Append(a, m))
      /\ Append(a, m)[Len(Append(a, m))] = m /\ Append(a, m)[1] = a[1]
  BY <1>1, AppendDiffers
<1> QED BY <1>1, <1>2, <1>3


\* Nothing is sent while received messages are cached.
Quiet == rxq # <<>> => ~InFlight /\ partner.owes = "nothing"
\* The first message has the stored id only if it was the last one.
HeadIsKnown ==
  rxq # <<>> /\ rxq[1].content.kind # "soft" /\ rxq[1].id = port.rx_id =>
    rxq[1].content = port.emsg
\* The ids are reset for a Soft_Reset that the partner has not received.
Resetting == port.tx = "layer_reset" \/ (InFlight /\ ~phy.got /\ phy.content.kind = "soft")
Known ==
  /\ ~port.dropped
  /\ rxq = <<>> => partner.counter # port.rx_id
  /\ HeadIsKnown
  /\ Resetting => port.rx_id = NoId
Fresher ==
  /\ Quiet /\ Differ(rxq) /\ GoneOn(rxq, partner.counter)
  /\ "late" \notin port.mishaps => Known

\* What most steps of the task leave alone.
Unread ==
  /\ port'.dropped = port.dropped /\ port'.emsg = port.emsg
  /\ port'.rx_id \in {port.rx_id, NoId}
  /\ port'.tx = "layer_reset" => port.tx = "layer_reset" \/ port'.rx_id = NoId
  /\ rxq' = rxq /\ partner' = partner
  /\ \/ phy' = phy
     \/ /\ rxq = <<>>
        /\ phy'.content.kind = "soft" => port.tx = "layer_reset" /\ port'.rx_id = port.rx_id

\* Such steps keep Fresher.
LEMMA UnreadKeeps ==
  ASSUME Core, Fresher, Unread, port.mishaps \subseteq port'.mishaps
  PROVE  Fresher'
<1>1. /\ "late" \notin port'.mishaps => "late" \notin port.mishaps
      /\ \A i \in DOMAIN rxq : rxq[i].id # NoId
      /\ partner.counter # NoId
  <2>1. /\ rxq \in Seq(Messages) /\ partner.counter \in MsgIds
        /\ \A id \in MsgIds : id # NoId
    BY PrlAssumption DEF Core, Typed, QueueTyped, PartnerTypes, MsgIds, NoId, Messages
  <2>2. \A i \in DOMAIN rxq : rxq[i].id \in MsgIds
    <3> SUFFICES ASSUME NEW i \in DOMAIN rxq PROVE rxq[i].id \in MsgIds
      OBVIOUS
    <3>1. rxq[i] \in Messages
      BY <2>1
    <3> QED BY <3>1 DEF Messages
  <2> QED BY <2>1, <2>2
<1>2. Quiet' /\ Differ(rxq') /\ GoneOn(rxq', partner'.counter)
  <2>1. Quiet'
    BY DEF Fresher, Unread, Quiet, InFlight
  <2> QED BY <2>1 DEF Fresher, Unread
<1>3. Known => Known'
  <2> SUFFICES ASSUME Known PROVE Known'
    OBVIOUS
  <2>1. ~port'.dropped /\ (rxq' = <<>> => partner'.counter # port'.rx_id)
    BY <1>1 DEF Known, Unread
  <2>2. HeadIsKnown'
    <3>1. rxq # <<>> => 1 \in DOMAIN rxq
      BY DEF Core, Typed, QueueTyped
    <3> QED BY <1>1, <3>1 DEF Known, Unread, HeadIsKnown
  <2>3. (Resetting => port.rx_id = NoId)'
    BY DEF Known, Unread, Resetting, InFlight
  <2> QED BY <2>1, <2>2, <2>3 DEF Known
<1> QED BY <1>1, <1>2, <1>3 DEF Fresher

\* The steps of the task but those of rx are such.
LEMMA TaskIsUnread ==
  ASSUME Core, TaskEffect, ~RxSoftResetEffect, ~RxDuplicateEffect, ~RxMessageEffect
  PROVE  Unread
<1> USE DEF SameBut, Fields
<1>0. Record(port)
  BY DEF Core, Typed
<1>1. CASE PeWaitsEffect \/ PeSendEffect \/ PeSendResetEffect \/ PeResetRunEffect
  BY <1>1 DEF PeWaitsEffect, PeSendEffect, PeSendResetEffect, PeResetRunEffect, PeTurn, Fresh,
     FreshFields, Unread
<1>2. CASE RchWaitEffect \/ RchProcessingEffect \/ RchRequestingEffect
           \/ RchWaitingEffect \/ RchTimeoutEffect \/ RchReportEffect
  <2>1. /\ port'.dropped = port.dropped /\ port'.emsg = port.emsg
        /\ port'.rx_id = port.rx_id /\ port'.tx = port.tx
    BY <1>2 DEF RchWaitEffect, RchProcessingEffect, RchRequestingEffect,
       RchWaitingEffect, RchTimeoutEffect, RchReportEffect, RchReported
  <2>2. RchEffect
    BY <1>2 DEF RchWaitEffect, RchProcessingEffect, RchRequestingEffect,
       RchWaitingEffect, RchTimeoutEffect, RchReportEffect
  <2> QED BY <2>1, <2>2 DEF RchEffect, Unread
<1>3. CASE TchWaitReceivedEffect \/ TchWaitXmitEffect \/ TchTransmissionEffect \/ TchConstructEffect
           \/ TchSendingEffect \/ TchRequestEffect \/ TchRequestTimeoutEffect \/ TchReceivedRunEffect
  <2>1. /\ port'.dropped = port.dropped /\ port'.emsg = port.emsg
        /\ port'.rx_id = port.rx_id /\ port'.tx = port.tx
    BY <1>3 DEF TchWaitReceivedEffect, TchWaitXmitEffect, TchTransmissionEffect,
       TchConstructEffect,
       TchSendingEffect, TchRequestEffect, TchRequestTimeoutEffect, TchReceivedRunEffect,
       TchTook, Flags
  <2>2. TchEffect
    BY <1>3 DEF TchWaitReceivedEffect, TchWaitXmitEffect, TchTransmissionEffect,
       TchConstructEffect,
       TchSendingEffect, TchRequestEffect, TchRequestTimeoutEffect, TchReceivedRunEffect
  <2> QED BY <2>1, <2>2 DEF TchEffect, Unread
<1>4. CASE TxWaitEffect \/ TxPendingEffect
  <2>1. CASE Passes
    BY <2>1 DEF Passes, PassFields, TxEffect, Unread
  <2>2. CASE ~Passes
    BY <1>0, <1>4, <2>2 DEF TxWaitEffect, TxPendingEffect, TxEffect, Unread
  <2> QED BY <2>1, <2>2
<1>5. CASE TxStartAmsEffect
  BY <1>5 DEF TxStartAmsEffect, TxEffect, Unread
<1>6. CASE TxLayerResetEffect
  BY <1>6 DEF TxLayerResetEffect, Constructs, TxEffect, Unread
<1>7. CASE TxSuccessEffect \/ TxErrorEffect
  BY <1>7 DEF TxSuccessEffect, TxErrorEffect, TxDone, TxEffect, Unread
<1>8. CASE StaysEffect
  BY <1>8 DEF StaysEffect, Unread
<1> QED BY <1>1, <1>2, <1>3, <1>4, <1>5, <1>6, <1>7, <1>8 DEF TaskEffect

\* Every step keeps Fresher.
LEMMA FresherStep == ASSUME Core, Fresher, Next PROVE Fresher'
<1> USE DEF SameBut, Fields
<1>0. /\ rxq \in Seq(Messages) /\ partner.counter \in MsgIds /\ QueueTyped
      /\ \A id \in MsgIds : id # NoId
  BY PrlAssumption DEF Core, Typed, QueueTyped, PartnerTypes, MsgIds, NoId, Messages
<1>m. port.mishaps \subseteq port'.mishaps
  BY MishapsGrow
<1>l. "late" \notin port'.mishaps => Known
  BY <1>m DEF Fresher
<1>e. Effect
  BY EveryStep DEF Core
<1>1. CASE RxSoftResetEffect \/ RxDuplicateEffect \/ RxMessageEffect
  <2>1. /\ phy' = phy /\ partner' = partner /\ rxq # <<>> /\ rxq' = Tail(rxq)
    BY <1>1 DEF RxSoftResetEffect, RxDuplicateEffect, RxMessageEffect, RxEffect
  <2>2. /\ Differ(rxq') /\ GoneOn(rxq', partner'.counter)
        /\ Received = rxq[1] /\ rxq[1] \in Messages
        /\ rxq' = <<>> => rxq[1].id # partner.counter
        /\ rxq' # <<>> => rxq'[1] = rxq[2]
             /\ (rxq[2].content.kind = "soft" \/ rxq[2] = rxq[1] \/ rxq[2].id # rxq[1].id)
        /\ rxq' # <<>> => rxq'[1] \in Messages
    <3>1. Tail(rxq) \in Seq(Messages)
      BY <1>0, <2>1
    <3>2. rxq' # <<>> => rxq'[1] \in Messages
      BY <2>1, <3>1
    <3> QED BY <1>0, <2>1, <3>2, TailDiffers DEF Fresher, Received
  <2>3. Quiet' /\ ~InFlight
    BY <2>1 DEF Fresher, Quiet, InFlight
  <2>4. CASE RxSoftResetEffect
    <3>1. port'.dropped = port.dropped /\ port'.rx_id = NoId /\ port'.tx = "wait"
      BY <2>4 DEF RxSoftResetEffect
    <3>2. Known => Known'
      <4>1. rxq' # <<>> => rxq'[1].id # NoId
        BY <1>0, <2>2 DEF Messages
      <4>2. HeadIsKnown'
        BY <3>1, <4>1 DEF HeadIsKnown
      <4> QED BY <1>0, <2>1, <2>3, <3>1, <4>2 DEF Known, Resetting, InFlight
    <3> QED BY <1>l, <2>2, <2>3, <3>2 DEF Fresher
  <2>5. CASE RxDuplicateEffect
    <3>1. /\ rxq[1].content.kind # "soft" /\ port.rx_id = rxq[1].id
          /\ port'.rx_id = port.rx_id /\ port'.tx = port.tx /\ port'.emsg = rxq[1].content
          /\ port.dropped \in BOOLEAN
          /\ rxq[1].content = port.emsg /\ ~port.dropped => ~port'.dropped
      BY <2>2, <2>5 DEF RxDuplicateEffect, Core, Typed, Types, HistoryTypes
    <3>2. Known => Known'
      <4>1. Known => ~port'.dropped
        BY <2>1, <3>1 DEF Known, HeadIsKnown
      <4>2. HeadIsKnown'
        BY <2>2, <3>1 DEF HeadIsKnown
      <4>3. (rxq = <<>> => partner.counter # port.rx_id)'
        BY <2>1, <2>2, <3>1
      <4>4. Known => (Resetting => port.rx_id = NoId)'
        BY <2>1, <2>3, <3>1 DEF Known, Resetting, InFlight
      <4> QED BY <4>1, <4>2, <4>3, <4>4 DEF Known
    <3> QED BY <1>l, <2>2, <2>3, <3>2 DEF Fresher
  <2>6. CASE RxMessageEffect
    <3>1. /\ port'.rx_id = rxq[1].id /\ port'.emsg = rxq[1].content
          /\ port'.dropped = port.dropped
          /\ port'.tx = "layer_reset" => "late" \in port'.mishaps
      BY <2>2, <2>6 DEF RxMessageEffect
    <3>2. HeadIsKnown'
      BY <2>2, <3>1 DEF HeadIsKnown
    <3>3. (rxq = <<>> => partner.counter # port.rx_id)'
      BY <2>1, <2>2, <3>1
    <3>4. "late" \notin port'.mishaps => ~Resetting'
      BY <2>1, <2>3, <3>1 DEF Resetting, InFlight
    <3> QED BY <1>l, <2>2, <2>3, <3>1, <3>2, <3>3, <3>4 DEF Fresher, Known
  <2> QED BY <1>1, <2>4, <2>5, <2>6
<1>2. CASE TaskEffect /\ ~(RxSoftResetEffect \/ RxDuplicateEffect \/ RxMessageEffect)
  BY <1>2, <1>m, TaskIsUnread, UnreadKeeps
<1>3. CASE CompleteEffect
  <2>1. /\ port'.dropped = port.dropped /\ port'.emsg = port.emsg
        /\ port'.rx_id = port.rx_id /\ port'.tx = port.tx
        /\ rxq' = rxq /\ partner' = partner /\ InFlight /\ phy'.id = NoId
    BY <1>3 DEF CompleteEffect, StatusSet, NoPhy
  <2>2. Known => Known'
    BY <2>1 DEF Known, HeadIsKnown, Resetting, InFlight
  <2> QED BY <1>l, <2>1, <2>2 DEF Fresher, Quiet, InFlight
<1>4. CASE PartnerReceivesEffect
  <2>1. /\ port' = port /\ rxq' = rxq /\ InFlight /\ ~phy.got
        /\ phy'.id = phy.id /\ phy'.content = phy.content /\ phy'.got = TRUE
        /\ phy.content.kind = "soft" \/ partner'.counter = partner.counter
        /\ phy.content.kind = "soft" => partner'.counter = 0
    BY <1>4 DEF PartnerReceivesEffect
  <2>2. rxq = <<>>
    BY <2>1 DEF Fresher, Quiet
  <2>3. Quiet' /\ Differ(rxq') /\ GoneOn(rxq', partner'.counter)
    BY <2>1, <2>2 DEF Fresher, Quiet, GoneOn
  <2>4. Known => Known'
    <3>1. Known /\ phy.content.kind = "soft" => port.rx_id = NoId
      BY <2>1 DEF Known, Resetting
    <3>2. 0 # NoId
      BY DEF NoId
    <3>3. Known => (rxq = <<>> => partner.counter # port.rx_id)'
      BY <2>1, <2>2, <3>1, <3>2 DEF Known
    <3> QED BY <2>1, <2>2, <3>3 DEF Known, HeadIsKnown, Resetting
  <2> QED BY <1>l, <2>3, <2>4 DEF Fresher
<1>5. CASE SendsEffect
  <2>1. PICK id \in MsgIds, content \in Contents :
          /\ Sends(id, content) /\ partner'.owes = "nothing" /\ partner'.counter = NextId(id)
          /\ content.kind = "soft" \/ id = partner.counter
    <3>1. /\ 0 \in MsgIds /\ partner.n \in Nat /\ partner.n + 1 \in Nat
          /\ 0 \in 0 .. 2 /\ 1 \in 0 .. 2 /\ 0 \in Nat
      BY PrlAssumption DEF Core, Typed, PartnerTypes, MsgIds
    <3>2. /\ Content("plain", partner.n + 1, 0) \in Contents
          /\ Content("chunk", partner.n + 1, 0) \in Contents
          /\ Content("chunk", partner.n, 1) \in Contents
          /\ Content("request", 0, 1) \in Contents /\ Content("soft", 0, 0) \in Contents
          /\ Content("soft", 0, 0).kind = "soft"
      BY <3>1, ContentFields
    <3> QED BY <1>0, <1>5, <3>1, <3>2 DEF SendsEffect, PartnerMessageEffect,
           PartnerRequestEffect,
               PartnerChunkEffect, PartnerAcceptEffect, PartnerSoftResetEffect
  <2> DEFINE m == [id |-> id, content |-> content]
  <2>2. m \in Messages /\ m.id = id /\ m.content = content /\ Extends(rxq, m, rxq')
    BY <1>0, <2>1, SentExtends
  <2> HIDE DEF m
  <2>3. /\ Differ(rxq') /\ rxq' # <<>> /\ rxq'[Len(rxq')] = m
        /\ rxq'[1] = IF rxq = <<>> THEN m ELSE rxq[1]
    <3>1. rxq # <<>> => m.content.kind = "soft" \/ m.id # rxq[Len(rxq)].id
      BY <2>1, <2>2 DEF Fresher, GoneOn
    <3> QED BY <1>0, <2>2, <3>1, ExtendedDiffers DEF Fresher
  <2>4. NextId(id) # id
    BY PrlAssumption DEF NextId, MsgIds
  <2>5. GoneOn(rxq', partner'.counter)
    BY <2>1, <2>2, <2>3, <2>4 DEF GoneOn
  <2>6. /\ port'.dropped = port.dropped /\ port'.emsg = port.emsg
        /\ port'.rx_id = port.rx_id /\ port'.tx = port.tx /\ phy'.id = NoId
    BY <2>1 DEF Sends, StatusSet, NoPhy
  <2>7. Quiet'
    BY <2>1, <2>6 DEF Quiet, InFlight
  <2>8. Known => Known'
    <3>1. Known => HeadIsKnown'
      BY <2>1, <2>2, <2>3, <2>6 DEF Known, HeadIsKnown
    <3> QED BY <2>3, <2>6, <3>1 DEF Known, Resetting, InFlight
  <2> QED BY <1>l, <2>3, <2>5, <2>7, <2>8 DEF Fresher
<1> QED BY <1>e, <1>1, <1>2, <1>3, <1>4, <1>5 DEF Effect

\* No message in the cache is dropped by mistake, in every reachable state.
LEMMA FresherHolds == Spec => []Fresher
<1>1. Init => Fresher
  BY PrlAssumption DEF Init, Fresher, Quiet, Differ, GoneOn, Known, HeadIsKnown, Resetting,
     InFlight, NoId
<1>2. Core /\ Fresher /\ [Next]_vars => Fresher'
  <2>1. Core /\ Fresher /\ Next => Fresher'
    BY FresherStep
  <2>2. Fresher /\ UNCHANGED vars => Fresher'
    BY DEF vars, Fresher, Quiet, Known, HeadIsKnown, Resetting, InFlight
  <2> QED BY <2>1, <2>2
<1> QED BY <1>1, <1>2, CoreHolds, PTL DEF Spec

\* What prl_rx_wait_for_phy_message ignores is a duplicate, unless a message was
\* taken while the layer was reset for a Soft_Reset.
THEOREM FreshIsNotDropped == Spec => []FreshNotDropped
<1>1. Fresher => FreshNotDropped
  BY DEF Fresher, Known, FreshNotDropped
<1> QED BY <1>1, FresherHolds, PTL

-----------------------------------------------------------------------------
(***************************************************************************)
(* The order in which messages are given to the PE.                        *)
(***************************************************************************)
IsMessage(c) == c.kind \in {"plain", "chunk"}
\* rch or tch has not looked at the last message yet.
Pending(s) == s.rch_received \/ s.tch_received \/ s.rch = "processing"
\* What the PE will have been given after that.
Due(s) == IF Pending(s) /\ IsMessage(s.emsg) THEN Append(s.passed, s.emsg.n) ELSE s.passed

Ordered(q) == \A i, j \in DOMAIN q : i < j => q[i] < q[j]
AtMost(q, n) == \A i \in DOMAIN q : q[i] <= n
Below(q, n) == \A i \in DOMAIN q : q[i] < n

\* The messages of the cache: numbered up to n, and later ones have greater
\* numbers.
InRange(q, n) ==
  \A i \in DOMAIN q : /\ q[i].content.kind = "request" => q[i].content.c = 1
                      /\ IsMessage(q[i].content) => q[i].content.n <= n
Rising(q) ==
  \A i, j \in DOMAIN q : i < j /\ IsMessage(q[i].content) /\ IsMessage(q[j].content) =>
    (\A k \in i .. j : q[k] = q[i]) \/ q[i].content.n < q[j].content.n
\* A message of the cache is m again, or later than those of due.
Later(q, m, due) ==
  \A i \in DOMAIN q : IsMessage(q[i].content) =>
    (\A k \in 1 .. i : q[k] = m) \/ Below(due, q[i].content.n)

\* When nothing is given.
LEMMA NoneGiven ==
  /\ Ordered(<<>>) /\ \A n \in Nat : AtMost(<<>>, n) /\ Below(<<>>, n)
  /\ \A q, m : Later(q, m, <<>>)
BY DEF Ordered, AtMost, Below, Later

\* One more message is given.
LEMMA AppendOrdered ==
  ASSUME NEW q \in Seq(Nat), NEW n \in Nat
  PROVE  /\ Append(q, n) \in Seq(Nat)
         /\ Ordered(Append(q, n)) <=> Ordered(q) /\ Below(q, n)
         /\ \A b \in Nat : AtMost(Append(q, n), b) <=> AtMost(q, b) /\ n <= b
         /\ \A b \in Nat : Below(Append(q, n), b) <=> Below(q, b) /\ n < b
<1> DEFINE r == Append(q, n)
<1>1. /\ r \in Seq(Nat) /\ Len(q) \in Nat /\ Len(r) = Len(q) + 1
      /\ DOMAIN r = 1 .. Len(q) + 1 /\ DOMAIN q = 1 .. Len(q)
      /\ \A i \in 1 .. Len(q) : r[i] = q[i] /\ q[i] \in Nat
  OBVIOUS
<1>2. r[Len(q) + 1] = n
  OBVIOUS
<1> HIDE DEF r
<1>3. /\ DOMAIN r = DOMAIN q \union {Len(q) + 1} /\ Len(q) + 1 \in DOMAIN r
      /\ \A i \in DOMAIN q : i \in DOMAIN r /\ i < Len(q) + 1 /\ r[i] = q[i] /\ q[i] \in Nat
      /\ \A i \in DOMAIN q : ~(Len(q) + 1 < i) /\ ~(Len(q) + 1 < Len(q) + 1)
  BY <1>1
<1>4. \A b \in Nat : AtMost(r, b) <=> AtMost(q, b) /\ n <= b
  BY <1>2, <1>3 DEF AtMost
<1>5. \A b \in Nat : Below(r, b) <=> Below(q, b) /\ n < b
  BY <1>2, <1>3 DEF Below
<1>6. Ordered(r) => Ordered(q) /\ Below(q, n)
  BY <1>2, <1>3 DEF Ordered, Below
<1>7. Ordered(q) /\ Below(q, n) => Ordered(r)
  <2> SUFFICES ASSUME Ordered(q), Below(q, n), NEW i \in DOMAIN r, NEW j \in DOMAIN r, i < j
               PROVE  r[i] < r[j]
    BY DEF Ordered
  <2>1. CASE j = Len(q) + 1
    <3>1. i \in DOMAIN q
      BY <1>1, <1>3, <2>1
    <3> QED BY <1>2, <1>3, <2>1, <3>1 DEF Below
  <2>2. CASE j # Len(q) + 1
    <3>1. i \in DOMAIN q /\ j \in DOMAIN q
      BY <1>1, <1>3, <2>2
    <3> QED BY <1>3, <3>1 DEF Ordered
  <2> QED BY <2>1, <2>2
<1> QED BY <1>1, <1>4, <1>5, <1>6, <1>7 DEF r

\* The rest of such a cache.
LEMMA TailRises ==
  ASSUME NEW q \in Seq(Messages), q # <<>>, NEW n, InRange(q, n), Rising(q)
  PROVE  /\ Head(q) = q[1] /\ q[1] \in Messages /\ 1 \in DOMAIN q
         /\ InRange(Tail(q), n) /\ Rising(Tail(q))
<1>1. /\ Len(q) \in Nat \ {0} /\ DOMAIN q = 1 .. Len(q) /\ DOMAIN Tail(q) = 1 .. Len(q) - 1
      /\ \A i \in 1 .. Len(q) - 1 : Tail(q)[i] = q[i + 1]
      /\ Head(q) = q[1] /\ q[1] \in Messages
  OBVIOUS
<1>2. \A i \in DOMAIN Tail(q) : i + 1 \in DOMAIN q /\ Tail(q)[i] = q[i + 1]
  BY <1>1
<1>3. InRange(Tail(q), n)
  BY <1>2 DEF InRange
<1>4. Rising(Tail(q))
  <2> SUFFICES ASSUME NEW i \in DOMAIN Tail(q), NEW j \in DOMAIN Tail(q), i < j,
                      IsMessage(Tail(q)[i].content), IsMessage(Tail(q)[j].content)
               PROVE  \/ \A k \in i .. j : Tail(q)[k] = Tail(q)[i]
                      \/ Tail(q)[i].content.n < Tail(q)[j].content.n
    BY DEF Rising
  <2>1. /\ i + 1 \in DOMAIN q /\ j + 1 \in DOMAIN q /\ i + 1 < j + 1
        /\ Tail(q)[i] = q[i + 1] /\ Tail(q)[j] = q[j + 1]
    BY <1>1, <1>2
  <2>2. CASE \A k \in i + 1 .. j + 1 : q[k] = q[i + 1]
    <3> SUFFICES ASSUME NEW k \in i .. j PROVE Tail(q)[k] = Tail(q)[i]
      OBVIOUS
    <3>1. k \in DOMAIN Tail(q) /\ k + 1 \in i + 1 .. j + 1
      BY <1>1
    <3> QED BY <1>2, <2>1, <2>2, <3>1
  <2> QED BY <2>1, <2>2 DEF Rising
<1> QED BY <1>1, <1>3, <1>4

\* The tail after its first message m, of which more may follow.
LEMMA TailLater ==
  ASSUME NEW q \in Seq(Messages), q # <<>>, NEW m, NEW due, Later(q, m, due)
  PROVE  /\ q[1] = m => Later(Tail(q), m, due)
         /\ q[1] # m => /\ IsMessage(q[1].content) => Below(due, q[1].content.n)
                        /\ \A i \in DOMAIN Tail(q) : IsMessage(Tail(q)[i].content) =>
                             Below(due, Tail(q)[i].content.n)
<1>1. /\ Len(q) \in Nat \ {0} /\ DOMAIN q = 1 .. Len(q) /\ DOMAIN Tail(q) = 1 .. Len(q) - 1
      /\ \A i \in 1 .. Len(q) - 1 : Tail(q)[i] = q[i + 1]
  OBVIOUS
<1>2. 1 \in DOMAIN q /\ \A i \in DOMAIN q : 1 \in 1 .. i
  BY <1>1
<1>3. \A i \in DOMAIN Tail(q) : i + 1 \in DOMAIN q /\ Tail(q)[i] = q[i + 1]
  BY <1>1
<1>4. q[1] # m => /\ IsMessage(q[1].content) => Below(due, q[1].content.n)
                  /\ \A i \in DOMAIN Tail(q) : IsMessage(Tail(q)[i].content) =>
                       Below(due, Tail(q)[i].content.n)
  BY <1>2, <1>3 DEF Later
<1>5. Later(Tail(q), m, due)
  <2> SUFFICES ASSUME NEW i \in DOMAIN Tail(q), IsMessage(Tail(q)[i].content)
               PROVE  (\A k \in 1 .. i : Tail(q)[k] = m) \/ Below(due, Tail(q)[i].content.n)
    BY DEF Later
  <2>1. CASE \A k \in 1 .. i + 1 : q[k] = m
    <3> SUFFICES ASSUME NEW k \in 1 .. i PROVE Tail(q)[k] = m
      OBVIOUS
    <3>1. k \in DOMAIN Tail(q) /\ k + 1 \in 1 .. i + 1
      BY <1>1
    <3> QED BY <1>3, <2>1, <3>1
  <2> QED BY <1>3, <2>1 DEF Later
<1> QED BY <1>4, <1>5

\* The same when the first message becomes the last one given: a message that
\* follows it is it again or later.
LEMMA TailAfterHead ==
  ASSUME NEW q \in Seq(Messages), q # <<>>, Rising(q), IsMessage(q[1].content)
  PROVE  \A i \in DOMAIN Tail(q) : IsMessage(Tail(q)[i].content) =>
           (\A k \in 1 .. i : Tail(q)[k] = q[1]) \/ q[1].content.n < Tail(q)[i].content.n
<1>1. /\ Len(q) \in Nat \ {0} /\ DOMAIN q = 1 .. Len(q) /\ DOMAIN Tail(q) = 1 .. Len(q) - 1
      /\ \A i \in 1 .. Len(q) - 1 : Tail(q)[i] = q[i + 1]
  OBVIOUS
<1> SUFFICES ASSUME NEW i \in DOMAIN Tail(q), IsMessage(Tail(q)[i].content)
             PROVE  (\A k \in 1 .. i : Tail(q)[k] = q[1]) \/ q[1].content.n < Tail(q)[i].content.n
  OBVIOUS
<1>2. 1 \in DOMAIN q /\ i + 1 \in DOMAIN q /\ 1 < i + 1 /\ Tail(q)[i] = q[i + 1]
  BY <1>1
<1>3. CASE \A k \in 1 .. i + 1 : q[k] = q[1]
  <2> SUFFICES ASSUME NEW k \in 1 .. i PROVE Tail(q)[k] = q[1]
    OBVIOUS
  <2>1. k \in 1 .. Len(q) - 1 /\ k + 1 \in 1 .. i + 1
    BY <1>1
  <2> QED BY <1>1, <1>3, <2>1
<1> QED BY <1>2, <1>3 DEF Rising

\* One more message, which is later than the others or the last one again.
LEMMA AppendRises ==
  ASSUME NEW q \in Seq(Messages), NEW m \in Messages, NEW n \in Nat, InRange(q, n), Rising(q),
         m.content.kind = "request" => m.content.c = 1,
         IsMessage(m.content) =>
           /\ m.content.n <= n
           /\ \A i \in DOMAIN q : IsMessage(q[i].content) =>
                (\A k \in i .. Len(q) : q[k] = m) \/ q[i].content.n < m.content.n
  PROVE  InRange(Append(q, m), n) /\ Rising(Append(q, m))
<1> DEFINE r == Append(q, m)
<1>1. /\ r \in Seq(Messages) /\ Len(q) \in Nat /\ Len(r) = Len(q) + 1
      /\ DOMAIN r = 1 .. Len(q) + 1 /\ DOMAIN q = 1 .. Len(q)
      /\ \A i \in 1 .. Len(q) : r[i] = q[i]
  OBVIOUS
<1>2. r[Len(q) + 1] = m
  OBVIOUS
<1> HIDE DEF r
<1>3. \A i \in DOMAIN r : (i \in DOMAIN q /\ r[i] = q[i]) \/ (i = Len(q) + 1 /\ r[i] = m)
  BY <1>1, <1>2
<1>4. InRange(r, n)
  BY <1>3 DEF InRange
<1>5. Rising(r)
  <2> SUFFICES ASSUME NEW i \in DOMAIN r, NEW j \in DOMAIN r, i < j,
                      IsMessage(r[i].content), IsMessage(r[j].content)
               PROVE  (\A k \in i .. j : r[k] = r[i]) \/ r[i].content.n < r[j].content.n
    BY DEF Rising
  <2>1. CASE j \in DOMAIN q
    <3>1. i \in DOMAIN q /\ \A k \in i .. j : k \in DOMAIN q
      BY <1>1, <2>1
    <3> QED BY <1>1, <2>1, <3>1 DEF Rising
  <2>2. CASE j \notin DOMAIN q
    <3>1. j = Len(q) + 1 /\ r[j] = m
      BY <1>3, <2>2
    <3>2. i \in DOMAIN q /\ r[i] = q[i]
      BY <1>1, <1>3, <3>1
    <3>3. CASE \A k \in i .. Len(q) : q[k] = m
      <4>1. r[i] = m
        BY <1>1, <3>2, <3>3
      <4> SUFFICES ASSUME NEW k \in i .. j PROVE r[k] = m
        BY <4>1
      <4>2. k = Len(q) + 1 \/ (k \in 1 .. Len(q) /\ k \in i .. Len(q))
        BY <1>1, <3>1
      <4> QED BY <1>1, <1>2, <3>3, <4>2
    <3>4. CASE ~(\A k \in i .. Len(q) : q[k] = m)
      BY <3>1, <3>2, <3>4
    <3> QED BY <3>3, <3>4
  <2> QED BY <2>1, <2>2
<1> QED BY <1>4, <1>5 DEF r

\* A message that is later than all others, once or twice.
LEMMA ExtendedRises ==
  ASSUME NEW q \in Seq(Messages), NEW m \in Messages, NEW r, Extends(q, m, r), NEW n \in Nat,
         InRange(q, n), Rising(q), m.content.kind = "request" => m.content.c = 1,
         IsMessage(m.content) =>
           m.content.n <= n /\ \A i \in DOMAIN q : IsMessage(q[i].content) => q[i].content.n < m.content.n
  PROVE  InRange(r, n) /\ Rising(r)
<1> DEFINE a == Append(q, m)
<1>1. /\ a \in Seq(Messages) /\ Len(a) = Len(q) + 1 /\ Len(q) \in Nat
      /\ DOMAIN q = 1 .. Len(q) /\ DOMAIN a = 1 .. Len(q) + 1
      /\ \A i \in 1 .. Len(q) : a[i] = q[i]
  OBVIOUS
<1>2. a[Len(q) + 1] = m
  OBVIOUS
<1>3. InRange(a, n) /\ Rising(a)
  BY AppendRises
<1>r. r = a \/ r = Append(a, m)
  BY DEF Extends
<1> HIDE DEF a
<1>4. IsMessage(m.content) => \A i \in DOMAIN a : IsMessage(a[i].content) =>
        (\A k \in i .. Len(a) : a[k] = m) \/ a[i].content.n < m.content.n
  <2> SUFFICES ASSUME IsMessage(m.content), NEW i \in DOMAIN a, IsMessage(a[i].content)
               PROVE  (\A k \in i .. Len(a) : a[k] = m) \/ a[i].content.n < m.content.n
    OBVIOUS
  <2>1. CASE i = Len(q) + 1
    <3>1. \A k \in i .. Len(a) : k = Len(q) + 1
      BY <1>1, <2>1
    <3> QED BY <1>2, <3>1
  <2>2. CASE i # Len(q) + 1
    BY <1>1, <2>2
  <2> QED BY <2>1, <2>2
<1>5. InRange(Append(a, m), n) /\ Rising(Append(a, m))
  BY <1>1, <1>3, <1>4, AppendRises
<1> QED BY <1>3, <1>5, <1>r

\* A message that is later than what is due, once or twice.
LEMMA ExtendedLater ==
  ASSUME NEW q \in Seq(Messages), NEW m \in Messages, NEW r, Extends(q, m, r), NEW s, NEW due,
         Later(q, s, due), IsMessage(m.content) => Below(due, m.content.n)
  PROVE  Later(r, s, due)
<1> SUFFICES ASSUME NEW p \in Seq(Messages), Later(p, s, due)
             PROVE  Append(p, m) \in Seq(Messages) /\ Later(Append(p, m), s, due)
  BY DEF Extends
<1>1. /\ Append(p, m) \in Seq(Messages) /\ Len(p) \in Nat /\ DOMAIN p = 1 .. Len(p)
      /\ DOMAIN Append(p, m) = 1 .. Len(p) + 1
      /\ \A i \in 1 .. Len(p) : Append(p, m)[i] = p[i]
  OBVIOUS
<1>2. Append(p, m)[Len(p) + 1] = m
  OBVIOUS
<1> SUFFICES ASSUME NEW i \in DOMAIN Append(p, m), IsMessage(Append(p, m)[i].content)
             PROVE  \/ \A k \in 1 .. i : Append(p, m)[k] = s
                    \/ Below(due, Append(p, m)[i].content.n)
  BY <1>1 DEF Later
<1>3. CASE i = Len(p) + 1
  BY <1>2, <1>3
<1>4. CASE i # Len(p) + 1
  <2>1. i \in DOMAIN p /\ \A k \in 1 .. i : k \in 1 .. Len(p)
    BY <1>1, <1>4
  <2> QED BY <1>1, <2>1 DEF Later
<1> QED BY <1>3, <1>4

-----------------------------------------------------------------------------
\* A chunk of the partner is on its way, requested or to be requested.
Underway ==
  \/ partner.owes = "chunk"
  \/ InFlight /\ ~phy.got /\ phy.content.kind = "request"
  \/ port.tx_xmit /\ port.out.kind = "request"
\* No request is in the way of a message of the PE.
TxSound(s) ==
  /\ s.tx = "pending" => s.tx_xmit
  /\ s.tx = "layer_reset" /\ ~s.tx_xmit => s.out.kind # "request"
  /\ s.tx_emsg.kind # "request"
RxSound(s) ==
  /\ s.emsg.kind = "request" => s.emsg.c = 1
  /\ s.emsg.kind = "soft" => s.rx_id = NoId /\ s.rch # "processing"
Plain ==
  /\ InRange(rxq, partner.n) /\ Rising(rxq)
  /\ TxSound(port) /\ RxSound(port)
  /\ partner.owes = "chunk" => partner.chunking

Stored == [id |-> port.rx_id, content |-> port.emsg]
\* Without a chunk that was overwritten.
Exact ==
  /\ Ordered(Due(port)) /\ AtMost(Due(port), partner.n) /\ Later(rxq, Stored, Due(port))
  /\ port.rch = "processing" => ~port.rch_received /\ ~port.tch_received
  /\ Pending(port) /\ port.emsg.kind # "soft" => ~Underway /\ ~port.tx_xmit
  /\ Underway /\ partner.chunking => Below(Due(port), partner.n)
InOrder == Plain /\ ("overwritten" \notin port.mishaps => Exact)

\* The types of the cache and of what the partner sends.
LEMMA ContentTyped ==
  ASSUME Core
  PROVE  /\ rxq \in Seq(Messages) /\ QueueTyped /\ partner.counter \in MsgIds /\ partner.n \in Nat
         /\ 0 \in MsgIds /\ partner.n + 1 \in Nat
         /\ Content("plain", partner.n + 1, 0) \in Contents
         /\ Content("chunk", partner.n + 1, 0) \in Contents
         /\ Content("chunk", partner.n, 1) \in Contents
         /\ Content("request", 0, 1) \in Contents /\ Content("soft", 0, 0) \in Contents
<1>1. /\ 0 \in MsgIds /\ partner.n \in Nat /\ partner.n + 1 \in Nat
      /\ 0 \in 0 .. 2 /\ 1 \in 0 .. 2 /\ 0 \in Nat
  BY PrlAssumption DEF Core, Typed, PartnerTypes, MsgIds
<1>2. rxq \in Seq(Messages) /\ QueueTyped /\ partner.counter \in MsgIds
  BY DEF Core, Typed, QueueTyped, PartnerTypes, Messages
<1> QED BY <1>1, <1>2, ContentFields

\* What the partner sends.
Sent(content) ==
  /\ partner'.owes = "nothing"
  /\ content.kind = "request" => content.c = 1
  /\ \/ /\ content.kind \in {"request", "soft"} /\ partner'.n = partner.n
        /\ partner'.chunking \in {partner.chunking, FALSE}
     \/ /\ IsMessage(content) /\ content.n = partner.n + 1 /\ partner'.n = partner.n + 1
     \/ /\ IsMessage(content) /\ content.n = partner.n /\ partner'.n = partner.n
        /\ partner.owes = "chunk" /\ partner'.chunking = FALSE

\* Every message of the partner is of that form.
LEMMA PartnerSends ==
  ASSUME Core, SendsEffect
  PROVE  \E id \in MsgIds, content \in Contents : Sends(id, content) /\ Sent(content)
<1>0. /\ partner.counter \in MsgIds /\ 0 \in MsgIds
      /\ Content("plain", partner.n + 1, 0) \in Contents
      /\ Content("chunk", partner.n + 1, 0) \in Contents
      /\ Content("chunk", partner.n, 1) \in Contents
      /\ Content("request", 0, 1) \in Contents /\ Content("soft", 0, 0) \in Contents
  BY ContentTyped
<1>f. /\ Content("plain", partner.n + 1, 0).kind = "plain"
      /\ Content("plain", partner.n + 1, 0).n = partner.n + 1
      /\ Content("chunk", partner.n + 1, 0).kind = "chunk"
      /\ Content("chunk", partner.n + 1, 0).n = partner.n + 1
      /\ Content("chunk", partner.n, 1).kind = "chunk" /\ Content("chunk", partner.n, 1).n = partner.n
      /\ Content("soft", 0, 0).kind = "soft"
      /\ Content("request", 0, 1).kind = "request" /\ Content("request", 0, 1).c = 1
  BY DEF Content
<1>1. CASE PartnerMessageEffect
  <2>1. /\ partner'.owes = "nothing" /\ partner'.n = partner.n + 1
        /\ Sends(partner.counter, Content("plain", partner.n + 1, 0))
             \/ Sends(partner.counter, Content("chunk", partner.n + 1, 0))
    BY <1>1 DEF PartnerMessageEffect
  <2>2. Sent(Content("plain", partner.n + 1, 0)) /\ Sent(Content("chunk", partner.n + 1, 0))
    BY <2>1, <1>f DEF Sent, IsMessage
  <2> QED BY <1>0, <2>1, <2>2
<1>2. CASE PartnerAcceptEffect
  <2>1. /\ partner'.owes = "nothing" /\ partner'.n = partner.n + 1
        /\ Sends(partner.counter, Content("plain", partner.n + 1, 0))
    BY <1>2 DEF PartnerAcceptEffect
  <2>2. Sent(Content("plain", partner.n + 1, 0))
    BY <2>1, <1>f DEF Sent, IsMessage
  <2> QED BY <1>0, <2>1, <2>2
<1>3. CASE PartnerRequestEffect
  <2>1. /\ partner'.owes = "nothing" /\ partner'.n = partner.n
        /\ partner'.chunking = partner.chunking
        /\ Sends(partner.counter, Content("request", 0, 1))
    BY <1>3 DEF PartnerRequestEffect, PartnerBut, PartnerFields
  <2>2. Sent(Content("request", 0, 1))
    BY <2>1, <1>f DEF Sent
  <2> QED BY <1>0, <2>1, <2>2
<1>4. CASE PartnerChunkEffect
  <2>1. /\ partner'.owes = "nothing" /\ partner'.n = partner.n /\ partner.owes = "chunk"
        /\ partner'.chunking = FALSE
        /\ Sends(partner.counter, Content("chunk", partner.n, 1))
    BY <1>4 DEF PartnerChunkEffect, PartnerBut, PartnerFields
  <2>2. Sent(Content("chunk", partner.n, 1))
    BY <2>1, <1>f DEF Sent, IsMessage
  <2> QED BY <1>0, <2>1, <2>2
<1>5. CASE PartnerSoftResetEffect
  <2>1. /\ partner'.owes = "nothing" /\ partner'.n = partner.n
        /\ partner'.chunking = FALSE /\ Sends(0, Content("soft", 0, 0))
    BY <1>5 DEF PartnerSoftResetEffect, PartnerBut, PartnerFields
  <2>2. Sent(Content("soft", 0, 0))
    BY <2>1, <1>f DEF Sent
  <2> QED BY <1>0, <2>1, <2>2
<1> QED BY <1>1, <1>2, <1>3, <1>4, <1>5 DEF SendsEffect

\* The fields of which Plain speaks, in the steps of the task but those of rx.
LEMMA PlainKept ==
  ASSUME Plain, rxq' = rxq, partner'.n = partner.n, TxSound(port'), RxSound(port'),
         partner'.owes = "chunk" => partner'.chunking
  PROVE  Plain'
BY DEF Plain

\* Steps that leave what was received keep RxSound.
LEMMA RxSoundKept ==
  ASSUME RxSound(port), port'.emsg = port.emsg, port'.rx_id \in {port.rx_id, NoId},
         port'.rch = "processing" => port.rch = "processing" \/ port.emsg.kind # "soft"
  PROVE  RxSound(port')
BY DEF RxSound

\* Every step keeps Plain.
LEMMA PlainStep == ASSUME Core, Fresher, Plain, Next PROVE Plain'
<1> USE DEF SameBut, Fields
<1>0. /\ Record(port) /\ TxSound(port) /\ RxSound(port)
      /\ partner.owes = "chunk" => partner.chunking
  BY DEF Core, Typed, Plain
<1>k. \A kind, n, c : Content(kind, n, c).kind = kind
  BY DEF Content
<1>e. Effect
  BY EveryStep DEF Core
<1>1. CASE PeWaitsEffect \/ PeSendEffect \/ PeSendResetEffect \/ PeResetRunEffect
  <2>1. rxq' = rxq /\ partner' = partner
    BY <1>1 DEF PeWaitsEffect, PeSendEffect, PeSendResetEffect, PeResetRunEffect, PeTurn
  <2>2. TxSound(port')
    BY <1>0, <1>1, <1>k DEF PeWaitsEffect, PeSendEffect, PeSendResetEffect, PeResetRunEffect,
       Fresh, FreshFields, TxSound
  <2>3. RxSound(port')
    BY <1>0, <1>1, RxSoundKept DEF PeWaitsEffect, PeSendEffect, PeSendResetEffect,
       PeResetRunEffect,
       Fresh, FreshFields
  <2> QED BY <1>0, <2>1, <2>2, <2>3, PlainKept
<1>2. CASE RxSoftResetEffect \/ RxDuplicateEffect \/ RxMessageEffect
  <2>1. /\ partner' = partner /\ rxq # <<>> /\ rxq' = Tail(rxq)
    BY <1>2 DEF RxSoftResetEffect, RxDuplicateEffect, RxMessageEffect, RxEffect
  <2>2. /\ Received = rxq[1]
        /\ rxq[1].content.kind = "request" => rxq[1].content.c = 1
        /\ InRange(rxq', partner.n) /\ Rising(rxq')
    BY <2>1, ContentTyped, TailRises DEF Plain, Received, InRange
  <2>3. TxSound(port')
    <3>1. CASE RxSoftResetEffect
      BY <1>0, <1>k, <3>1 DEF RxSoftResetEffect, TxSound
    <3>2. CASE RxDuplicateEffect
      BY <1>0, <3>2 DEF RxDuplicateEffect, TxSound
    <3>3. CASE RxMessageEffect
      <4>1. CASE port.status = "success" /\ ~port.tx_xmit
        BY <1>0, <3>3, <4>1 DEF RxMessageEffect, TxSound
      <4>2. CASE port.status # "success" \/ port.tx_xmit
        BY <1>0, <3>3, <4>2 DEF RxMessageEffect, TxSound
      <4> QED BY <4>1, <4>2
    <3> QED BY <1>2, <3>1, <3>2, <3>3
  <2>4. RxSound(port')
    <3>1. port'.emsg.kind = "request" => port'.emsg.c = 1
      BY <1>2, <2>2 DEF RxSoftResetEffect, RxDuplicateEffect, RxMessageEffect
    <3>2. port'.emsg.kind = "soft" => port'.rx_id = NoId /\ port'.rch # "processing"
      BY <1>2 DEF RxSoftResetEffect, RxDuplicateEffect, RxMessageEffect
    <3> QED BY <3>1, <3>2 DEF RxSound
  <2> QED BY <1>0, <2>1, <2>2, <2>3, <2>4 DEF Plain
<1>3. CASE RchWaitEffect \/ RchProcessingEffect \/ RchRequestingEffect
           \/ RchWaitingEffect \/ RchTimeoutEffect \/ RchReportEffect
  <2>1. rxq' = rxq /\ partner' = partner
    BY <1>3 DEF RchWaitEffect, RchProcessingEffect, RchRequestingEffect,
       RchWaitingEffect, RchTimeoutEffect, RchReportEffect, RchEffect
  <2>2. /\ port'.tx = port.tx /\ port'.tx_emsg = port.tx_emsg
        /\ (port'.tx_xmit = port.tx_xmit /\ port'.out = port.out) \/ port'.tx_xmit = TRUE
    BY <1>3 DEF RchWaitEffect, RchProcessingEffect, RchRequestingEffect,
       RchWaitingEffect, RchTimeoutEffect, RchReportEffect, RchReported
  <2>3. TxSound(port')
    BY <1>0, <2>2 DEF TxSound
  <2>4. /\ port'.emsg = port.emsg /\ port'.rx_id = port.rx_id
        /\ port'.rch = "processing" => port.rch = "processing" \/ port.emsg.kind # "soft"
    BY <1>3 DEF RchWaitEffect, RchProcessingEffect, RchRequestingEffect, PassesUp,
       RchWaitingEffect, RchTimeoutEffect, RchReportEffect, RchReported
  <2> QED BY <1>0, <2>1, <2>3, <2>4, PlainKept, RxSoundKept
<1>4. CASE TchWaitReceivedEffect \/ TchWaitXmitEffect \/ TchTransmissionEffect \/ TchConstructEffect
           \/ TchSendingEffect \/ TchRequestEffect \/ TchRequestTimeoutEffect \/ TchReceivedRunEffect
  <2>1. rxq' = rxq /\ partner' = partner
    BY <1>4 DEF TchWaitReceivedEffect, TchWaitXmitEffect, TchTransmissionEffect,
       TchConstructEffect,
     TchSendingEffect, TchRequestEffect, TchRequestTimeoutEffect, TchReceivedRunEffect,
     TchEffect
  <2>2. /\ port'.tx = port.tx /\ port'.tx_emsg = port.tx_emsg
        /\ (port'.tx_xmit = port.tx_xmit /\ port'.out = port.out) \/ port'.tx_xmit = TRUE
    BY <1>4 DEF TchWaitReceivedEffect, TchWaitXmitEffect, TchTransmissionEffect,
       TchConstructEffect,
     TchSendingEffect, TchRequestEffect, TchRequestTimeoutEffect, TchReceivedRunEffect,
     TchTook, Flags
  <2>3. TxSound(port')
    BY <1>0, <2>2 DEF TxSound
  <2>4. port'.emsg = port.emsg /\ port'.rx_id = port.rx_id /\ port'.rch = port.rch
    BY <1>4 DEF TchWaitReceivedEffect, TchWaitXmitEffect, TchTransmissionEffect,
       TchConstructEffect,
     TchSendingEffect, TchRequestEffect, TchRequestTimeoutEffect, TchReceivedRunEffect,
     TchTook, Flags
  <2> QED BY <1>0, <2>1, <2>3, <2>4, PlainKept, RxSoundKept
<1>5. CASE TxWaitEffect \/ TxStartAmsEffect \/ TxPendingEffect \/ TxLayerResetEffect
           \/ TxSuccessEffect \/ TxErrorEffect
  <2>1. rxq' = rxq /\ partner' = partner
    BY <1>5 DEF TxWaitEffect, TxStartAmsEffect, TxPendingEffect, TxLayerResetEffect, Constructs,
       TxSuccessEffect, TxErrorEffect, TxDone, TxEffect
  <2>2. /\ port'.emsg = port.emsg /\ port'.rx_id \in {port.rx_id, NoId}
        /\ port'.rch = port.rch /\ port'.out = port.out /\ port'.tx_emsg = port.tx_emsg
    BY <1>5 DEF TxWaitEffect, TxStartAmsEffect, TxPendingEffect, TxLayerResetEffect, Constructs,
       Passes, PassFields, TxSuccessEffect, TxErrorEffect, TxDone
  <2>3. /\ port'.tx = "pending" => port'.tx_xmit
        /\ port'.tx = "layer_reset" =>
             (port'.tx_xmit = port.tx_xmit /\ port.tx = "layer_reset") \/ port.out.kind = "soft"
    <3>1. CASE TxWaitEffect
      BY <1>0, <3>1 DEF TxWaitEffect, Passes, PassFields, TxSound
    <3>2. CASE TxPendingEffect
      BY <1>0, <3>2 DEF TxPendingEffect, Passes, PassFields, TxSound
    <3>3. CASE TxStartAmsEffect \/ TxLayerResetEffect \/ TxSuccessEffect \/ TxErrorEffect
      BY <3>3 DEF TxStartAmsEffect, TxLayerResetEffect, Constructs, TxSuccessEffect,
         TxErrorEffect,
         TxDone
    <3> QED BY <1>5, <3>1, <3>2, <3>3
  <2>4. TxSound(port')
    BY <1>0, <2>2, <2>3 DEF TxSound
  <2> QED BY <1>0, <2>1, <2>2, <2>4, PlainKept, RxSoundKept
<1>6. CASE StaysEffect
  BY <1>0, <1>6, PlainKept DEF StaysEffect
<1>7. CASE CompleteEffect \/ PartnerReceivesEffect
  <2>1. /\ port'.tx = port.tx /\ port'.tx_xmit = port.tx_xmit /\ port'.out = port.out
        /\ port'.tx_emsg = port.tx_emsg /\ port'.emsg = port.emsg /\ port'.rx_id = port.rx_id
        /\ port'.rch = port.rch
    BY <1>7 DEF CompleteEffect, StatusSet, PartnerReceivesEffect
  <2>2. rxq' = rxq /\ partner'.n = partner.n /\ (partner'.owes = "chunk" => partner'.chunking)
    BY <1>0, <1>7 DEF CompleteEffect, PartnerReceivesEffect, PartnerBut, PartnerFields
  <2> QED BY <1>0, <2>1, <2>2, PlainKept DEF TxSound, RxSound
<1>8. CASE SendsEffect
  <2>1. PICK id \in MsgIds, content \in Contents : Sends(id, content) /\ Sent(content)
    BY <1>8, PartnerSends
  <2> DEFINE m == [id |-> id, content |-> content]
  <2>2. /\ m \in Messages /\ m.content = content /\ Extends(rxq, m, rxq')
        /\ rxq \in Seq(Messages) /\ partner.n \in Nat /\ partner.n + 1 \in Nat
    BY <2>1, ContentTyped, SentExtends
  <2> HIDE DEF m
  <2>3. partner'.n \in {partner.n, partner.n + 1}
    BY <2>1 DEF Sent
  <2>4. InRange(rxq, partner'.n)
    <3> SUFFICES ASSUME NEW i \in DOMAIN rxq, IsMessage(rxq[i].content)
                 PROVE  rxq[i].content.n <= partner'.n
      BY DEF Plain, InRange
    <3>1. rxq[i].content.n <= partner.n /\ rxq[i].content.n \in Nat
      <4>1. rxq[i] \in Messages
        BY <2>2
      <4> QED BY <4>1 DEF Plain, InRange, Messages, Contents
    <3> QED BY <2>2, <2>3, <3>1
  <2>5. /\ content.kind = "request" => content.c = 1
        /\ IsMessage(content) => content.n <= partner'.n
        /\ IsMessage(content) => \A i \in DOMAIN rxq : IsMessage(rxq[i].content) =>
             rxq[i].content.n < content.n
    <3>1. content.kind = "request" => content.c = 1
      BY <2>1 DEF Sent
    <3>2. IsMessage(content) => content.n = partner'.n
            /\ (content.n = partner.n + 1 \/ partner.owes = "chunk")
      BY <2>1 DEF Sent, IsMessage
    <3>3. ASSUME NEW i \in DOMAIN rxq, IsMessage(rxq[i].content), IsMessage(content)
          PROVE  rxq[i].content.n < content.n
      <4>1. rxq # <<>>
        OBVIOUS
      <4>2. content.n = partner.n + 1
        BY <3>2, <3>3, <4>1 DEF Fresher, Quiet
      <4>3. rxq[i] \in Messages
        BY <2>2
      <4>4. rxq[i].content.n <= partner.n /\ rxq[i].content.n \in Nat
        BY <3>3, <4>3 DEF Plain, InRange, Messages, Contents
      <4> QED BY <2>2, <4>2, <4>4
    <3>4. IsMessage(content) => content.n <= partner'.n
      BY <2>2, <2>3, <3>2
    <3> QED BY <3>1, <3>3, <3>4
  <2>6. InRange(rxq', partner'.n) /\ Rising(rxq')
    <3>1. partner'.n \in Nat
      BY <2>2, <2>3
    <3> QED BY <2>2, <2>4, <2>5, <3>1, ExtendedRises DEF Plain
  <2>7. /\ port'.tx = port.tx /\ port'.tx_xmit = port.tx_xmit /\ port'.out = port.out
        /\ port'.tx_emsg = port.tx_emsg /\ port'.emsg = port.emsg /\ port'.rx_id = port.rx_id
        /\ port'.rch = port.rch /\ partner'.owes = "nothing"
    BY <2>1 DEF Sends, StatusSet, Sent
  <2> QED BY <1>0, <2>6, <2>7 DEF Plain, TxSound, RxSound
<1> QED BY <1>e, <1>1, <1>2, <1>3, <1>4, <1>5, <1>6, <1>7, <1>8 DEF Effect, TaskEffect

-----------------------------------------------------------------------------
\* What is due is a sequence of numbers.
LEMMA DueTyped ==
  ASSUME Core
  PROVE  /\ port.passed \in Seq(Nat) /\ port.emsg.n \in Nat /\ Due(port) \in Seq(Nat)
         /\ \A b \in Nat : (AtMost(Due(port), b) => Below(Due(port), b + 1) /\ AtMost(Due(port), b + 1))
<1>1. port.passed \in Seq(Nat) /\ port.emsg.n \in Nat
  BY DEF Core, Typed, Types, HistoryTypes, RchTypes, Contents
<1>2. Due(port) \in Seq(Nat)
  BY <1>1, AppendOrdered DEF Due
<1>3. ASSUME NEW b \in Nat, AtMost(Due(port), b)
      PROVE  Below(Due(port), b + 1) /\ AtMost(Due(port), b + 1)
  <2>1. \A i \in DOMAIN Due(port) : Due(port)[i] \in Nat
    BY <1>2
  <2> QED BY <1>3, <2>1 DEF AtMost, Below
<1> QED BY <1>1, <1>2, <1>3

\* What is due never becomes less ordered when something of it is forgotten.
LEMMA Shorter ==
  ASSUME Core, NEW d \in {Due(port), port.passed, <<>>}
  PROVE  /\ d \in Seq(Nat)
         /\ Ordered(Due(port)) => Ordered(d)
         /\ \A b \in Nat : AtMost(Due(port), b) => AtMost(d, b)
         /\ \A b \in Nat : Below(Due(port), b) => Below(d, b)
         /\ \A m : Later(rxq, m, Due(port)) => Later(rxq, m, d)
<1>1. port.passed \in Seq(Nat) /\ port.emsg.n \in Nat /\ Due(port) \in Seq(Nat) /\ rxq \in Seq(Messages)
  BY DueTyped, ContentTyped
<1>2. /\ d \in Seq(Nat)
      /\ Ordered(Due(port)) => Ordered(d)
      /\ \A b \in Nat : AtMost(Due(port), b) => AtMost(d, b)
      /\ \A b \in Nat : Below(Due(port), b) => Below(d, b)
  <2>1. CASE d = Due(port)
    BY <1>1, <2>1
  <2>2. CASE d = <<>>
    BY <2>2, NoneGiven
  <2>3. CASE d = port.passed /\ d # Due(port)
    <3>1. Due(port) = Append(d, port.emsg.n)
      BY <2>3 DEF Due
    <3> QED BY <1>1, <2>3, <3>1, AppendOrdered
  <2> QED BY <2>1, <2>2, <2>3
<1>3. ASSUME NEW m, Later(rxq, m, Due(port)) PROVE Later(rxq, m, d)
  <2> SUFFICES ASSUME NEW i \in DOMAIN rxq, IsMessage(rxq[i].content)
               PROVE  (\A k \in 1 .. i : rxq[k] = m) \/ Below(d, rxq[i].content.n)
    BY DEF Later
  <2>1. rxq[i].content.n \in Nat
    <3>1. rxq[i] \in Messages
      BY <1>1
    <3> QED BY <3>1 DEF Messages, Contents
  <2> QED BY <1>2, <1>3, <2>1 DEF Later
<1> QED BY <1>2, <1>3

\* What most steps leave of it.
Forgets ==
  /\ rxq' = rxq /\ partner'.n = partner.n /\ port'.emsg = port.emsg
  /\ Due(port') \in {Due(port), port.passed, <<>>}
  /\ port'.rx_id = port.rx_id \/ Due(port') = <<>>
  /\ Underway' => Underway
  /\ Underway' /\ partner'.chunking => partner.chunking
  /\ Pending(port') => Pending(port) /\ (port'.tx_xmit => port.tx_xmit)
  /\ port'.rch = "processing" => ~port'.rch_received /\ ~port'.tch_received

\* Such steps keep Exact.
LEMMA ForgetsKeeps == ASSUME Core, Exact, Forgets PROVE Exact'
<1> DEFINE d == Due(port')
<1>0. d \in {Due(port), port.passed, <<>>} /\ partner.n \in Nat
  BY ContentTyped DEF Forgets
<1>1. /\ Ordered(d) /\ AtMost(d, partner.n) /\ Later(rxq, Stored, d)
      /\ Below(Due(port), partner.n) => Below(d, partner.n)
  BY <1>0, Shorter DEF Exact
<1>2. Later(rxq', Stored', d)
  <2>1. CASE d = <<>>
    BY <2>1, NoneGiven
  <2>2. CASE d # <<>>
    BY <1>1, <2>2 DEF Forgets, Stored
  <2> QED BY <2>1, <2>2
<1>3. (Pending(port) /\ port.emsg.kind # "soft" => ~Underway /\ ~port.tx_xmit)'
  BY DEF Exact, Forgets
<1>4. (Underway /\ partner.chunking => Below(Due(port), partner.n))'
  BY <1>1 DEF Exact, Forgets
<1>5. (port.rch = "processing" => ~port.rch_received /\ ~port.tch_received)'
  BY DEF Forgets
<1>6. Ordered(Due(port))' /\ AtMost(Due(port), partner.n)' /\ Later(rxq, Stored, Due(port))'
  BY <1>1, <1>2 DEF Forgets
<1> QED BY <1>3, <1>4, <1>5, <1>6 DEF Exact

\* A message that is not the stored one.
LEMMA HeadIsLater ==
  ASSUME Core, Plain, Exact, rxq # <<>>, rxq[1] # Stored,
         NEW d, d = port.passed \/ (IsMessage(rxq[1].content) /\ d = Append(port.passed, rxq[1].content.n))
  PROVE  Ordered(d) /\ AtMost(d, partner.n) /\ Later(Tail(rxq), rxq[1], d)
<1> DEFINE h == rxq[1]
           p == port.passed
<1>1. /\ rxq \in Seq(Messages) /\ p \in Seq(Nat) /\ partner.n \in Nat /\ h \in Messages
      /\ h.content.n \in Nat
  <2>1. rxq \in Seq(Messages) /\ p \in Seq(Nat) /\ partner.n \in Nat
    BY ContentTyped, DueTyped
  <2>2. h \in Messages
    BY <2>1
  <2> QED BY <2>1, <2>2 DEF Messages, Contents
<1>2. /\ Ordered(p) /\ AtMost(p, partner.n)
      /\ \A b \in Nat : Below(Due(port), b) => Below(p, b)
  BY <1>1, Shorter DEF Exact
<1>3. /\ IsMessage(h.content) => Below(p, h.content.n) /\ h.content.n <= partner.n
      /\ \A i \in DOMAIN Tail(rxq) : IsMessage(Tail(rxq)[i].content) =>
           Tail(rxq)[i].content.n \in Nat /\ Below(p, Tail(rxq)[i].content.n)
  <2>1. /\ IsMessage(h.content) => Below(Due(port), h.content.n)
        /\ \A i \in DOMAIN Tail(rxq) : IsMessage(Tail(rxq)[i].content) =>
             Below(Due(port), Tail(rxq)[i].content.n)
    BY <1>1, TailLater DEF Exact
  <2>2. IsMessage(h.content) => h.content.n <= partner.n
    <3>1. 1 \in DOMAIN rxq
      BY <1>1
    <3> QED BY <3>1 DEF Plain, InRange
  <2>3. \A i \in DOMAIN Tail(rxq) : Tail(rxq)[i].content.n \in Nat
    <3> SUFFICES ASSUME NEW i \in DOMAIN Tail(rxq) PROVE Tail(rxq)[i].content.n \in Nat
      OBVIOUS
    <3>1. Tail(rxq)[i] \in Messages
      BY <1>1
    <3> QED BY <3>1 DEF Messages, Contents
  <2> QED BY <1>1, <1>2, <2>1, <2>2, <2>3
<1>4. CASE d = p
  BY <1>2, <1>3, <1>4 DEF Later
<1>5. CASE IsMessage(h.content) /\ d = Append(p, h.content.n)
  <2>1. Ordered(d) /\ AtMost(d, partner.n)
    BY <1>1, <1>2, <1>3, <1>5, AppendOrdered
  <2>2. Later(Tail(rxq), h, d)
    <3> SUFFICES ASSUME NEW i \in DOMAIN Tail(rxq), IsMessage(Tail(rxq)[i].content)
                 PROVE  (\A k \in 1 .. i : Tail(rxq)[k] = h) \/ Below(d, Tail(rxq)[i].content.n)
      BY DEF Later
    <3>1. (\A k \in 1 .. i : Tail(rxq)[k] = h) \/ h.content.n < Tail(rxq)[i].content.n
      BY <1>1, <1>5, TailAfterHead DEF Plain
    <3>2. Tail(rxq)[i].content.n \in Nat /\ Below(p, Tail(rxq)[i].content.n)
      BY <1>3
    <3> QED BY <1>1, <1>5, <3>1, <3>2, AppendOrdered
  <2> QED BY <2>1, <2>2
<1> QED BY <1>4, <1>5

-----------------------------------------------------------------------------
\* The steps of rx.
LEMMA ExactRx ==
  ASSUME Core, Fresher, Plain, Exact, RxSoftResetEffect \/ RxDuplicateEffect \/ RxMessageEffect,
         "overwritten" \notin port'.mishaps
  PROVE  Exact'
<1> USE DEF SameBut, Fields
<1>1. /\ partner' = partner /\ phy' = phy /\ rxq # <<>> /\ rxq' = Tail(rxq)
  BY DEF RxSoftResetEffect, RxDuplicateEffect, RxMessageEffect, RxEffect
<1>2. /\ rxq \in Seq(Messages) /\ Received = rxq[1] /\ rxq[1] \in Messages
      /\ rxq[1] = [id |-> rxq[1].id, content |-> rxq[1].content] /\ rxq[1].id \in MsgIds
      /\ \A id \in MsgIds : id # NoId
  <2>1. rxq \in Seq(Messages)
    BY ContentTyped
  <2>2. Received = rxq[1] /\ rxq[1] \in Messages
    BY <1>1, <2>1 DEF Received
  <2>3. \A id \in MsgIds : id # NoId
    BY PrlAssumption DEF MsgIds, NoId
  <2> QED BY <2>1, <2>2, <2>3 DEF Messages
<1>3. ~InFlight /\ ~InFlight' /\ partner.owes = "nothing"
  BY <1>1 DEF Fresher, Quiet, InFlight
<1>4. CASE RxSoftResetEffect
  <2>1. /\ port'.emsg.kind = "soft" /\ port'.passed = <<>> /\ port'.rch = "wait"
    BY <1>4 DEF RxSoftResetEffect
  <2>2. Due(port') = <<>>
    BY <2>1 DEF Due, IsMessage
  <2>3. partner.n \in Nat
    BY ContentTyped
  <2> QED BY <1>1, <2>1, <2>2, <2>3, NoneGiven DEF Exact
<1>5. CASE RxDuplicateEffect
  <2>1. /\ rxq[1].content.kind # "soft" /\ port.rx_id = rxq[1].id
        /\ port'.rx_id = port.rx_id /\ port'.emsg = rxq[1].content
        /\ port'.passed = port.passed /\ port'.tx_xmit = port.tx_xmit /\ port'.out = port.out
        /\ port'.rch = port.rch /\ port'.rch_received = port.rch_received
        /\ port'.tch_received = port.tch_received
    BY <1>2, <1>5 DEF RxDuplicateEffect
  <2>2. port.emsg.kind # "soft" /\ Stored' = rxq[1]
    BY <1>2, <2>1 DEF Plain, RxSound, Stored
  <2>3. (Pending(port') <=> Pending(port)) /\ (Underway' => Underway)
    BY <1>1, <1>3, <2>1 DEF Pending, Underway
  <2>4. Ordered(Due(port')) /\ AtMost(Due(port'), partner.n) /\ Later(Tail(rxq), rxq[1], Due(port'))
    <3>1. CASE rxq[1] = Stored
      <4>1. rxq[1].content = port.emsg
        BY <3>1 DEF Stored
      <4>2. Due(port') = Due(port)
        BY <2>1, <2>3, <4>1 DEF Due
      <4> QED BY <1>1, <1>2, <3>1, <4>2, TailLater DEF Exact
    <3>2. CASE rxq[1] # Stored
      <4>1. \/ Due(port') = port.passed
            \/ IsMessage(rxq[1].content) /\ Due(port') = Append(port.passed, rxq[1].content.n)
        BY <2>1 DEF Due
      <4> QED BY <1>1, <3>2, <4>1, HeadIsLater
    <3> QED BY <3>1, <3>2
  <2>5. (port.rch = "processing" => ~port.rch_received /\ ~port.tch_received)'
    BY <2>1 DEF Exact
  <2>6. (Pending(port) /\ port.emsg.kind # "soft" => ~Underway /\ ~port.tx_xmit)'
    BY <2>1, <2>2, <2>3 DEF Exact
  <2>7. (Underway /\ partner.chunking => Below(Due(port), partner.n))'
    <3>1. Underway => Due(port) = port.passed /\ Due(port') = port.passed
      BY <2>1, <2>2, <2>3 DEF Exact, Due
    <3> QED BY <1>1, <2>3, <3>1 DEF Exact
  <2> QED BY <1>1, <2>2, <2>4, <2>5, <2>6, <2>7 DEF Exact
<1>6. CASE RxMessageEffect
  <2>1. /\ port'.rx_id = rxq[1].id /\ port'.emsg = rxq[1].content /\ port.rx_id # rxq[1].id
        /\ port'.passed = port.passed /\ port'.out = port.out /\ port'.rch = port.rch
        /\ port.rch # "processing"
    BY <1>2, <1>6 DEF RxMessageEffect
  <2>2. port'.tx_xmit = FALSE
    <3>1. /\ port.status \in {"unset", "wait", "success", "failed", "discarded"}
          /\ port.tx_xmit \in BOOLEAN
      BY DEF Core, Typed, Types, TxTypes
    <3>2. CASE Ends(port)
      BY <1>6, <3>2 DEF RxMessageEffect
    <3>3. CASE ~Ends(port)
      <4>1. port.tx_xmit = FALSE /\ port.status \in {"unset", "success", "failed"}
        BY <3>1, <3>3 DEF Ends
      <4> QED BY <1>6, <4>1 DEF RxMessageEffect
    <3> QED BY <3>2, <3>3
  <2>3. ~Underway'
    BY <1>1, <1>3, <2>2 DEF Underway
  <2>4. Stored' = rxq[1] /\ rxq[1] # Stored
    BY <1>2, <2>1 DEF Stored
  <2>5. Ordered(Due(port')) /\ AtMost(Due(port'), partner.n) /\ Later(Tail(rxq), rxq[1], Due(port'))
    <3>1. \/ Due(port') = port.passed
          \/ IsMessage(rxq[1].content) /\ Due(port') = Append(port.passed, rxq[1].content.n)
      BY <2>1 DEF Due
    <3> QED BY <1>1, <2>4, <3>1, HeadIsLater
  <2> QED BY <1>1, <2>1, <2>2, <2>3, <2>4, <2>5 DEF Exact
<1> QED BY <1>4, <1>5, <1>6

\* The steps of rch.
LEMMA ExactRch ==
  ASSUME Core, Plain, Exact,
         RchWaitEffect \/ RchProcessingEffect \/ RchRequestingEffect
           \/ RchWaitingEffect \/ RchTimeoutEffect \/ RchReportEffect
  PROVE  Exact'
<1> USE DEF SameBut, Fields
<1>0. /\ rxq' = rxq /\ phy' = phy /\ partner' = partner
  BY DEF RchWaitEffect, RchProcessingEffect, RchRequestingEffect,
     RchWaitingEffect, RchTimeoutEffect, RchReportEffect, RchEffect
<1>1. port'.emsg = port.emsg /\ port'.rx_id = port.rx_id /\ port'.tch_received = port.tch_received
  BY DEF RchWaitEffect, RchProcessingEffect, RchRequestingEffect,
     RchWaitingEffect, RchTimeoutEffect, RchReportEffect, RchReported
<1>2. /\ port.rch_received => ~port.tch_received
      /\ port.rch = "processing" => ~port.rch_received /\ ~port.tch_received
  BY DEF Core, Flow, Routed, Exact
<1>r. ASSUME NEW e, NEW s, s.rch_received = port.rch_received, s.passed = port.passed,
             s.emsg = port.emsg, s.tx_xmit = port.tx_xmit, s.out = port.out, RchReported(s, e, port')
      PROVE  Forgets
  <2>1. /\ port'.rch = "report" /\ port'.rch_received = FALSE
        /\ port'.passed = IF port.rch_received /\ IsMessage(port.emsg)
                          THEN Append(port.passed, port.emsg.n) ELSE port.passed
        /\ port'.tx_xmit = port.tx_xmit /\ port'.out = port.out
    BY <1>r DEF RchReported, IsMessage
  <2>2. Due(port') \in {Due(port), port.passed}
    BY <1>1, <1>2, <2>1 DEF Due, Pending
  <2>3. Pending(port') => Pending(port)
    BY <1>1, <2>1 DEF Pending
  <2> QED BY <1>0, <1>1, <2>1, <2>2, <2>3 DEF Forgets, Underway, InFlight
<1>3. CASE RchWaitEffect
  <2>1. /\ port'.tx_xmit = port.tx_xmit /\ port'.out = port.out /\ port.rch_received
        /\ port'.rch_received = FALSE
        /\ \/ port'.rch = "processing" /\ port'.passed = port.passed
           \/ /\ port'.rch = "wait"
              /\ port'.passed = IF IsMessage(port.emsg)
                                THEN Append(port.passed, port.emsg.n) ELSE port.passed
    BY <1>3 DEF RchWaitEffect, PassesUp, IsMessage
  <2>2. Due(port') = Due(port)
    BY <1>1, <1>2, <2>1 DEF Due, Pending
  <2>3. Pending(port)
    BY <2>1 DEF Pending
  <2>4. Forgets
    BY <1>0, <1>1, <1>2, <2>1, <2>2, <2>3 DEF Forgets, Underway, InFlight
  <2> QED BY <2>4, ForgetsKeeps
<1>4. CASE RchProcessingEffect
  <2>0. port.rch = "processing" /\ Pending(port)
    BY <1>4 DEF RchProcessingEffect, Pending
  <2>1. CASE RchReported(port, "ERR_RCH_CHUNKED", port')
    BY <1>r, <2>1, ForgetsKeeps
  <2>2. CASE /\ PassesUp(port, port')
             /\ SameBut({"rch", "rch_received", "pe_received", "passed", "expected"}, port, port')
    <3>1. /\ port'.tx_xmit = port.tx_xmit /\ port'.out = port.out
          /\ port'.rch = "wait" /\ port'.rch_received = FALSE
          /\ port'.passed = IF IsMessage(port.emsg)
                            THEN Append(port.passed, port.emsg.n) ELSE port.passed
      BY <2>2 DEF PassesUp, IsMessage
    <3>2. Due(port') = Due(port) /\ ~Pending(port')
      BY <1>1, <1>2, <2>0, <3>1 DEF Due, Pending
    <3>3. Forgets
      BY <1>0, <1>1, <3>1, <3>2 DEF Forgets, Underway, InFlight
    <3> QED BY <3>3, ForgetsKeeps
  <2>3. CASE /\ AsExpected /\ port'.rch = "requesting"
             /\ port.emsg.kind # "plain" => port.expected # Chunks - 1
             /\ SameBut({"rch", "tx_xmit", "out", "expected"}, port, port')
    <3>1. /\ port'.rch = "requesting" /\ port'.rch_received = port.rch_received
          /\ port'.passed = port.passed
      BY <2>3
    <3>2. ~Pending(port') /\ Due(port') = port.passed
      BY <1>1, <1>2, <2>0, <3>1 DEF Due, Pending
    <3>3. IsMessage(port.emsg)
      <4>1. port.emsg.kind \in {"plain", "chunk", "request", "soft"}
        BY DEF Core, Typed, Types, RchTypes, Contents
      <4>2. port.emsg.kind # "soft"
        BY <2>0 DEF Plain, RxSound
      <4>3. port.emsg.kind # "request"
        <5>1. SUFFICES ASSUME port.emsg.kind = "request" PROVE FALSE
          OBVIOUS
        <5>2. port.emsg.c = 1
          BY <5>1 DEF Plain, RxSound
        <5>3. port.emsg.c = port.expected /\ port.expected # 2 - 1
          BY <2>3, <5>1 DEF AsExpected, Chunks
        <5> QED BY <5>2, <5>3
      <4> QED BY <4>1, <4>2, <4>3 DEF IsMessage
    <3>4. Due(port) = Append(port.passed, port.emsg.n)
      BY <2>0, <3>3 DEF Due
    <3>5. /\ port.passed \in Seq(Nat) /\ port.emsg.n \in Nat /\ partner.n \in Nat
      BY DueTyped, ContentTyped
    <3>6. Below(port.passed, port.emsg.n) /\ port.emsg.n <= partner.n
      BY <3>4, <3>5, AppendOrdered DEF Exact
    <3>7. Below(port.passed, partner.n)
      <4>1. \A i \in DOMAIN port.passed : port.passed[i] \in Nat
        BY <3>5
      <4> QED BY <3>5, <3>6, <4>1 DEF Below
    <3>8. /\ Ordered(port.passed) /\ AtMost(port.passed, partner.n)
          /\ Later(rxq, Stored, port.passed)
      BY <3>5, Shorter DEF Exact
    <3>9. Stored' = Stored
      BY <1>1 DEF Stored
    <3> QED BY <1>0, <3>1, <3>2, <3>7, <3>8, <3>9 DEF Exact
  <2> QED BY <1>4, <2>1, <2>2, <2>3 DEF RchProcessingEffect
<1>5. CASE RchRequestingEffect
  <2>1. CASE RchReported(port, "ERR_RCH_CHUNKED", port')
    BY <1>r, <2>1, ForgetsKeeps
  <2>2. CASE SameBut({"rch", "complete"}, port, port') /\ port'.rch = "waiting"
    <3>1. /\ port'.tx_xmit = port.tx_xmit /\ port'.out = port.out /\ port'.passed = port.passed
          /\ port'.rch_received = port.rch_received /\ port'.rch = "waiting"
          /\ port.rch = "requesting"
      BY <1>5, <2>2 DEF RchRequestingEffect
    <3>2. (Pending(port') <=> Pending(port)) /\ Due(port') = Due(port)
      BY <1>1, <3>1 DEF Pending, Due
    <3>3. Forgets
      BY <1>0, <1>1, <3>1, <3>2 DEF Forgets, Underway, InFlight
    <3> QED BY <3>3, ForgetsKeeps
  <2> QED BY <1>5, <2>1, <2>2 DEF RchRequestingEffect
<1>6. CASE RchWaitingEffect
  <2>0. port.rch_received /\ port.rch = "waiting"
    BY <1>6 DEF RchWaitingEffect
  <2>1. CASE \E s : /\ SameBut({"complete"}, port, s) /\ s.complete = FALSE
                    /\ RchReported(s, "ERR_RCH_CHUNKED", port')
    <3>1. PICK s : SameBut({"complete"}, port, s) /\ RchReported(s, "ERR_RCH_CHUNKED", port')
      BY <2>1
    <3>2. /\ s.rch_received = port.rch_received /\ s.passed = port.passed
          /\ s.emsg = port.emsg /\ s.tx_xmit = port.tx_xmit /\ s.out = port.out
      BY <3>1
    <3> QED BY <1>r, <3>1, <3>2, ForgetsKeeps
  <2>2. CASE \/ /\ SameBut({"rch", "rch_received", "complete"}, port, port')
                /\ port'.rch = "processing" /\ port'.rch_received = FALSE
             \/ SameBut({"complete"}, port, port')
    <3>1. /\ port'.tx_xmit = port.tx_xmit /\ port'.out = port.out /\ port'.passed = port.passed
          /\ \/ port'.rch = "processing" /\ port'.rch_received = FALSE
             \/ port'.rch = "waiting" /\ port'.rch_received = port.rch_received
      BY <2>0, <2>2
    <3>2. Pending(port) /\ Pending(port')
      BY <2>0, <3>1 DEF Pending
    <3>3. Due(port') = Due(port)
      BY <1>1, <3>1, <3>2 DEF Due
    <3>4. Forgets
      BY <1>0, <1>1, <1>2, <2>0, <3>1, <3>2, <3>3 DEF Forgets, Underway, InFlight
    <3> QED BY <3>4, ForgetsKeeps
  <2> QED BY <1>6, <2>1, <2>2 DEF RchWaitingEffect
<1>7. CASE RchTimeoutEffect
  BY <1>7, <1>r, ForgetsKeeps DEF RchTimeoutEffect
<1>8. CASE RchReportEffect
  <2>1. /\ port'.tx_xmit = port.tx_xmit /\ port'.out = port.out /\ port'.passed = port.passed
        /\ port'.rch = "wait" /\ port'.rch_received = FALSE
    BY <1>8 DEF RchReportEffect
  <2>2. Pending(port') => Pending(port)
    BY <1>1, <2>1 DEF Pending
  <2>3. Due(port') \in {Due(port), port.passed}
    BY <1>1, <2>1, <2>2 DEF Due
  <2>4. Forgets
    BY <1>0, <1>1, <2>1, <2>2, <2>3 DEF Forgets, Underway, InFlight
  <2> QED BY <2>4, ForgetsKeeps
<1> QED BY <1>3, <1>4, <1>5, <1>6, <1>7, <1>8

\* The steps of the PE.
LEMMA ExactPe ==
  ASSUME Core, Exact, PeWaitsEffect \/ PeSendEffect \/ PeSendResetEffect \/ PeResetRunEffect
  PROVE  Exact'
<1> USE DEF SameBut, Fields
<1>0. rxq' = rxq /\ phy' = phy /\ partner' = partner
  BY DEF PeWaitsEffect, PeSendEffect, PeSendResetEffect, PeResetRunEffect, PeTurn
<1>1. /\ port'.emsg = port.emsg /\ port'.out = port.out
      /\ \/ Fresh(port')
         \/ /\ port'.rx_id = port.rx_id /\ port'.passed = port.passed /\ port'.rch = port.rch
            /\ port'.rch_received = port.rch_received /\ port'.tch_received = port.tch_received
            /\ port'.tx_xmit = port.tx_xmit
  BY DEF PeWaitsEffect, PeSendEffect, PeSendResetEffect, PeResetRunEffect, FreshFields
<1>2. CASE Fresh(port')
  <2>1. ~Pending(port') /\ Due(port') = <<>> /\ port'.tx_xmit = FALSE /\ port'.rch = "wait"
    BY <1>2 DEF Fresh, Pending, Due
  <2>2. Forgets
    BY <1>0, <1>1, <2>1 DEF Forgets, Underway, InFlight
  <2> QED BY <2>2, ForgetsKeeps
<1>3. CASE ~Fresh(port')
  <2>1. Due(port') = Due(port) /\ (Pending(port') <=> Pending(port))
    BY <1>1, <1>3 DEF Pending, Due
  <2>2. Forgets
    BY <1>0, <1>1, <1>3, <2>1 DEF Forgets, Underway, InFlight, Exact
  <2> QED BY <2>2, ForgetsKeeps
<1> QED BY <1>2, <1>3

\* The steps of tch.
LEMMA ExactTch ==
  ASSUME Core, Plain, Exact,
         TchWaitReceivedEffect \/ TchWaitXmitEffect \/ TchTransmissionEffect \/ TchConstructEffect
           \/ TchSendingEffect \/ TchRequestEffect \/ TchRequestTimeoutEffect \/ TchReceivedRunEffect
  PROVE  Exact'
<1> USE DEF SameBut, Fields
<1>0. rxq' = rxq /\ phy' = phy /\ partner' = partner
  BY DEF TchWaitReceivedEffect, TchWaitXmitEffect, TchTransmissionEffect, TchConstructEffect,
     TchSendingEffect, TchRequestEffect, TchRequestTimeoutEffect, TchReceivedRunEffect,
     TchEffect
<1>1. /\ port'.emsg = port.emsg /\ port'.rx_id = port.rx_id /\ port'.rch = port.rch
      /\ port'.passed = port.passed
  BY DEF TchWaitReceivedEffect, TchWaitXmitEffect, TchTransmissionEffect, TchConstructEffect,
     TchSendingEffect, TchRequestEffect, TchRequestTimeoutEffect, TchReceivedRunEffect,
     TchTook, Flags
<1>2. /\ port.rch_received => ~port.tch_received
      /\ port.rch = "processing" => ~port.rch_received /\ ~port.tch_received
  BY DEF Core, Flow, Routed, Exact
<1>s. ASSUME port'.tx_xmit = port.tx_xmit, port'.out = port.out,
             \/ port.tch_received /\ port'.rch_received = TRUE /\ port'.tch_received = FALSE
             \/ port'.rch_received = port.rch_received /\ port'.tch_received = port.tch_received
      PROVE  Exact'
  <2>1. (Pending(port') <=> Pending(port)) /\ Due(port') = Due(port)
    BY <1>1, <1>s DEF Pending, Due
  <2>2. Forgets
    BY <1>0, <1>1, <1>2, <1>s, <2>1 DEF Forgets, Underway, InFlight
  <2> QED BY <2>2, ForgetsKeeps
<1>r. ASSUME Released(port, port'), port'.tx_xmit = port.tx_xmit, port'.out = port.out PROVE Exact'
  BY <1>r, <1>s DEF Released
<1>3. CASE TchWaitReceivedEffect
  BY <1>3, <1>s DEF TchWaitReceivedEffect, TchTook
<1>4. CASE TchWaitXmitEffect
  <2>1. /\ port'.rch_received = port.rch_received /\ port'.tch_received = port.tch_received
        /\ port.tch_xmit /\ ~port.tch_received /\ pc \in {"tch", "tch2"}
        /\ \/ port'.tx_xmit = port.tx_xmit /\ port'.out = port.out
           \/ /\ port.rch = "wait"
              /\ port'.out \in {Content("chunk", port.tx_emsg.n, 0), port.tx_emsg}
    BY <1>4 DEF TchWaitXmitEffect, TchEffect
  <2>2. CASE port'.tx_xmit = port.tx_xmit /\ port'.out = port.out
    BY <1>s, <2>1, <2>2
  <2>3. CASE port.rch = "wait" /\ port'.out \in {Content("chunk", port.tx_emsg.n, 0), port.tx_emsg}
    <3>1. port'.out.kind # "request"
      <4>1. Content("chunk", port.tx_emsg.n, 0).kind = "chunk"
        BY DEF Content
      <4> QED BY <2>3, <4>1 DEF Plain, TxSound
    <3>2. ~port.rch_received
      BY <2>1, <2>3 DEF Core, Flow, Routed, Taken
    <3>3. ~Pending(port') /\ Due(port') = Due(port)
      BY <1>1, <2>1, <2>3, <3>2 DEF Pending, Due
    <3>4. Forgets
      BY <1>0, <1>1, <1>2, <2>1, <3>1, <3>3 DEF Forgets, Underway, InFlight
    <3> QED BY <3>4, ForgetsKeeps
  <2> QED BY <2>1, <2>2, <2>3
<1>5. CASE TchTransmissionEffect
  BY <1>5, <1>r DEF TchTransmissionEffect, Flags
<1>6. CASE TchConstructEffect \/ TchRequestTimeoutEffect \/ TchReceivedRunEffect
  BY <1>6, <1>s DEF TchConstructEffect, TchRequestTimeoutEffect, TchReceivedRunEffect
<1>7. CASE TchSendingEffect
  BY <1>7, <1>r, <1>s DEF TchSendingEffect, Flags
<1>8. CASE TchRequestEffect
  <2>1. \/ /\ Released(port, port') /\ port'.tx_xmit = port.tx_xmit /\ port'.out = port.out
        \/ /\ port.emsg.kind = "request" /\ port.tch = "wait_request"
           /\ port'.rch_received = port.rch_received /\ port'.tch_received = FALSE
           /\ \/ port'.tx_xmit = port.tx_xmit /\ port'.out = port.out
              \/ port'.out = Content("chunk", port.tx_emsg.n, port.to_send)
    BY <1>8 DEF TchRequestEffect, Flags
  <2>2. CASE /\ port.emsg.kind = "request" /\ port.tch = "wait_request"
             /\ port'.rch_received = port.rch_received /\ port'.tch_received = FALSE
             /\ \/ port'.tx_xmit = port.tx_xmit /\ port'.out = port.out
                \/ port'.out = Content("chunk", port.tx_emsg.n, port.to_send)
    <3>1. Content("chunk", port.tx_emsg.n, port.to_send).kind = "chunk"
      BY DEF Content
    <3>2. port.rch = "wait" /\ ~port.rch_received
      BY <2>2 DEF Core, Flow, Routed, Busy
    <3>3. ~Pending(port') /\ Due(port') = Due(port)
      BY <1>1, <2>2, <3>2 DEF Pending, Due, IsMessage
    <3>4. Forgets
      BY <1>0, <1>1, <2>2, <3>1, <3>2, <3>3 DEF Forgets, Underway, InFlight
    <3> QED BY <3>4, ForgetsKeeps
  <2> QED BY <1>r, <2>1, <2>2
<1> QED BY <1>3, <1>4, <1>5, <1>6, <1>7, <1>8

\* The steps of tx.
LEMMA ExactTx ==
  ASSUME Core, Plain, Exact,
         TxWaitEffect \/ TxStartAmsEffect \/ TxPendingEffect \/ TxLayerResetEffect
           \/ TxSuccessEffect \/ TxErrorEffect
  PROVE  Exact'
<1> USE DEF SameBut, Fields
<1>0. rxq' = rxq /\ partner' = partner
  BY DEF TxWaitEffect, TxStartAmsEffect, TxPendingEffect, TxLayerResetEffect, Constructs,
     TxSuccessEffect, TxErrorEffect, TxDone, TxEffect
<1>1. /\ port'.emsg = port.emsg /\ port'.rch = port.rch /\ port'.rch_received = port.rch_received
      /\ port'.tch_received = port.tch_received /\ port'.out = port.out
  BY DEF TxWaitEffect, TxStartAmsEffect, TxPendingEffect, TxLayerResetEffect, Constructs,
     Passes, PassFields, TxSuccessEffect, TxErrorEffect, TxDone
<1>2. Pending(port') <=> Pending(port)
  BY <1>1 DEF Pending
<1>s. ASSUME port'.passed = port.passed, port'.rx_id = port.rx_id,
             port'.tx_xmit \in {port.tx_xmit, FALSE}, Underway' => Underway
      PROVE  Exact'
  <2>1. Due(port') = Due(port)
    BY <1>1, <1>2, <1>s DEF Due
  <2>2. Forgets
    BY <1>0, <1>1, <1>2, <1>s, <2>1 DEF Forgets, Exact
  <2> QED BY <2>2, ForgetsKeeps
<1>p. ASSUME Passes, port.tx_xmit PROVE Exact'
  <2>1. \/ /\ phy' = phy /\ port'.passed = <<>>
        \/ /\ port'.passed = port.passed /\ port'.rx_id = port.rx_id
           /\ \/ phy' = phy
              \/ phy' = [id |-> port.counter, content |-> port.out, got |-> FALSE]
    BY <1>p DEF Passes, PassFields
  <2>2. port'.tx_xmit = FALSE
    BY <1>p DEF Passes
  <2>3. Underway' => Underway
    BY <1>0, <1>1, <1>p, <2>1, <2>2 DEF Underway, InFlight
  <2>4. CASE port'.passed = <<>>
    <3>1. Pending(port) => ~IsMessage(port.emsg)
      BY <1>p DEF Exact, IsMessage
    <3>2. Due(port') = <<>>
      BY <1>1, <1>2, <2>4, <3>1 DEF Due
    <3>3. Forgets
      BY <1>0, <1>1, <1>2, <2>2, <2>3, <3>2 DEF Forgets, Exact
    <3> QED BY <3>3, ForgetsKeeps
  <2> QED BY <1>s, <2>1, <2>2, <2>3, <2>4
<1>3. CASE TxWaitEffect
  <2>1. CASE port.tx_xmit /\ Passes
    BY <1>p, <2>1
  <2>2. CASE ~(port.tx_xmit /\ Passes)
    <3>1. /\ phy' = phy /\ port'.passed = port.passed /\ port'.rx_id = port.rx_id
          /\ port'.tx_xmit = port.tx_xmit
      BY <1>3, <2>2 DEF TxWaitEffect
    <3> QED BY <1>0, <1>1, <1>s, <3>1 DEF Underway, InFlight
  <2> QED BY <2>1, <2>2
<1>4. CASE TxPendingEffect
  <2>1. CASE Passes
    BY <1>4, <1>p, <2>1 DEF TxPendingEffect, Plain, TxSound
  <2>2. CASE port' = port /\ phy' = phy
    BY <1>0, <1>1, <1>s, <2>2 DEF Underway, InFlight
  <2> QED BY <1>4, <2>1, <2>2 DEF TxPendingEffect
<1>5. CASE TxLayerResetEffect
  <2>1. /\ port'.passed = port.passed /\ port'.rx_id = port.rx_id /\ port'.tx_xmit = port.tx_xmit
        /\ port.tx = "layer_reset"
        /\ \/ phy' = phy
           \/ phy' = [id |-> port.counter, content |-> port.out, got |-> FALSE]
    BY <1>5 DEF TxLayerResetEffect, Constructs
  <2>2. port.tx_xmit \/ port.out.kind # "request"
    BY <2>1 DEF Plain, TxSound
  <2>3. Underway' => Underway
    BY <1>0, <1>1, <2>1, <2>2 DEF Underway, InFlight
  <2> QED BY <1>s, <2>1, <2>3
<1>6. CASE TxStartAmsEffect \/ TxSuccessEffect \/ TxErrorEffect
  <2>1. /\ phy' = phy /\ port'.passed = port.passed /\ port'.rx_id = port.rx_id
        /\ port'.tx_xmit = port.tx_xmit
    BY <1>6 DEF TxStartAmsEffect, TxSuccessEffect, TxErrorEffect, TxDone
  <2> QED BY <1>0, <1>1, <1>s, <2>1 DEF Underway, InFlight
<1> QED BY <1>3, <1>4, <1>5, <1>6

\* The TCPC and the partner.
LEMMA ExactExternal ==
  ASSUME Core, Plain, Exact, CompleteEffect \/ PartnerReceivesEffect \/ SendsEffect
  PROVE  Exact'
<1> USE DEF SameBut, Fields
<1>g. ASSUME NEW id, NEW content, Sends(id, content) PROVE phy' = NoPhy /\ (StatusSet \/ port' = port)
  BY <1>g DEF Sends
<1>s. CASE SendsEffect
  <2>1. PICK id \in MsgIds, content \in Contents : Sends(id, content) /\ Sent(content)
    BY <1>s, PartnerSends
  <2> DEFINE m == [id |-> id, content |-> content]
  <2>2. /\ m \in Messages /\ m.content = content /\ Extends(rxq, m, rxq')
        /\ rxq \in Seq(Messages) /\ partner.n \in Nat /\ partner.n + 1 \in Nat
    BY <2>1, ContentTyped, SentExtends
  <2> HIDE DEF m
  <2>3. /\ port'.emsg = port.emsg /\ port'.rch = port.rch /\ port'.rch_received = port.rch_received
        /\ port'.tch_received = port.tch_received /\ port'.out = port.out
        /\ port'.passed = port.passed /\ port'.rx_id = port.rx_id /\ port'.tx_xmit = port.tx_xmit
    BY <1>g, <2>1 DEF StatusSet
  <2>4. (Pending(port') <=> Pending(port)) /\ Due(port') = Due(port) /\ Stored' = Stored
    BY <2>3 DEF Pending, Due, Stored
  <2>5. partner'.owes = "nothing" /\ ~InFlight'
    BY <1>g, <2>1 DEF Sent, NoPhy, InFlight
  <2>6. Underway' => Underway
    BY <2>3, <2>5 DEF Underway
  <2>7. /\ Below(Due(port), partner.n + 1) /\ AtMost(Due(port), partner.n + 1)
        /\ AtMost(Due(port), partner.n)
    BY <2>2, DueTyped DEF Exact
  <2>8. partner.owes = "chunk" => Below(Due(port), partner.n)
    BY DEF Exact, Plain, Underway
  <2>9. IsMessage(content) => Below(Due(port), content.n)
    BY <2>1, <2>7, <2>8 DEF Sent, IsMessage
  <2>10. Later(rxq', Stored, Due(port))
    BY <2>2, <2>9, ExtendedLater DEF Exact
  <2>11. AtMost(Due(port), partner'.n)
    BY <2>1, <2>7 DEF Sent
  <2>12. Underway' /\ partner'.chunking => Below(Due(port), partner'.n)
    BY <2>1, <2>6, <2>7 DEF Sent, Exact
  <2>13. (Pending(port) /\ port.emsg.kind # "soft" => ~Underway /\ ~port.tx_xmit)'
    BY <2>3, <2>4, <2>6 DEF Exact
  <2>14. (port.rch = "processing" => ~port.rch_received /\ ~port.tch_received)'
    BY <2>3 DEF Exact
  <2> QED BY <2>4, <2>10, <2>11, <2>12, <2>13, <2>14 DEF Exact
<1>c. CASE CompleteEffect \/ PartnerReceivesEffect
  <2>1. /\ rxq' = rxq /\ partner'.n = partner.n
        /\ port'.emsg = port.emsg /\ port'.rch = port.rch /\ port'.rch_received = port.rch_received
        /\ port'.tch_received = port.tch_received /\ port'.out = port.out
        /\ port'.passed = port.passed /\ port'.rx_id = port.rx_id /\ port'.tx_xmit = port.tx_xmit
    BY <1>c DEF CompleteEffect, StatusSet, PartnerReceivesEffect, PartnerBut, PartnerFields
  <2>2. (Pending(port') <=> Pending(port)) /\ Due(port') = Due(port)
    BY <2>1 DEF Pending, Due
  <2>3. /\ Underway' => Underway
        /\ partner'.chunking => partner.chunking
    <3>1. CASE CompleteEffect
      BY <2>1, <3>1 DEF CompleteEffect, Underway, InFlight, NoPhy
    <3>2. CASE PartnerReceivesEffect
      <4>1. phy.content.kind \in {"plain", "chunk", "request", "soft"}
        BY DEF Core, Typed, PhyTyped, Contents
      <4>2. InFlight /\ ~phy.got /\ phy'.got = TRUE
        BY <3>2 DEF PartnerReceivesEffect
      <4>3. /\ partner'.chunking => partner.chunking
            /\ partner'.owes = "chunk" => partner.owes = "chunk" \/ phy.content.kind = "request"
        BY <3>2, <4>1 DEF PartnerReceivesEffect
      <4> QED BY <2>1, <4>2, <4>3 DEF Underway
    <3> QED BY <1>c, <3>1, <3>2
  <2>4. Forgets
    BY <2>1, <2>2, <2>3 DEF Forgets, Exact
  <2> QED BY <2>4, ForgetsKeeps
<1> QED BY <1>s, <1>c

\* Every step keeps Exact.
LEMMA ExactStep ==
  ASSUME Core, Fresher, Plain, Exact, Next, "overwritten" \notin port'.mishaps PROVE Exact'
<1>e. Effect
  BY EveryStep DEF Core
<1>1. CASE StaysEffect
  BY <1>1 DEF StaysEffect, Exact, Stored, Underway, InFlight
<1> QED BY <1>e, <1>1, ExactPe, ExactRx, ExactRch, ExactTch, ExactTx, ExactExternal
        DEF Effect, TaskEffect

\* InOrder is inductive, relative to Core and Fresher.
LEMMA InOrderStep == ASSUME Core, Fresher, InOrder, [Next]_vars PROVE InOrder'
<1>1. CASE Next
  <2>1. Plain'
    BY <1>1, PlainStep DEF InOrder
  <2>2. "overwritten" \notin port'.mishaps => Exact'
    BY <1>1, ExactStep, MishapsGrow DEF InOrder
  <2> QED BY <2>1, <2>2 DEF InOrder
<1>2. CASE UNCHANGED vars
  BY <1>2 DEF vars, InOrder, Plain, Exact, Stored, Underway, InFlight
<1> QED BY <1>1, <1>2

\* The first state has given nothing.
LEMMA InitInOrder == Init => InOrder
<1> SUFFICES ASSUME Init PROVE InOrder
  OBVIOUS
<1>1. /\ rxq = <<>> /\ port.passed = <<>> /\ ~Pending(port) /\ port.tx = "wait" /\ port.rch = "wait"
      /\ partner.n = 0 /\ partner.owes = "nothing" /\ phy.id = NoId /\ port.tx_xmit = FALSE
      /\ port.tx_emsg = NoContent /\ port.emsg = NoContent
  BY DEF Init, Pending
<1>2. NoContent.kind = "plain"
  BY DEF NoContent, Content
<1>3. InRange(<<>>, 0) /\ Rising(<<>>)
  BY DEF InRange, Rising
<1>4. Plain
  BY <1>1, <1>2, <1>3 DEF Plain, TxSound, RxSound
<1>5. Due(port) = <<>> /\ ~Underway
  BY <1>1 DEF Due, Underway, InFlight
<1>6. Ordered(<<>>) /\ AtMost(<<>>, 0) /\ Later(<<>>, Stored, <<>>)
  BY NoneGiven
<1>7. Exact
  BY <1>1, <1>5, <1>6 DEF Exact
<1> QED BY <1>4, <1>7 DEF InOrder

\* Messages are given in order, in every reachable state.
LEMMA InOrderHolds == Spec => []InOrder
BY InitInOrder, InOrderStep, CoreHolds, FresherHolds, PTL DEF Spec

\* The PE is given each message of the partner's PE at most once and in the order
\* they were sent, by prl_rx_wait_for_phy_message, rch and tch.
THEOREM PassedInOrderOnce == Spec => []InOrderOnce
<1>1. Core /\ InOrder => InOrderOnce
  <2> SUFFICES ASSUME Core, InOrder, "overwritten" \notin port.mishaps,
                      NEW i \in DOMAIN port.passed, NEW j \in DOMAIN port.passed, i < j
               PROVE  port.passed[i] < port.passed[j]
    BY DEF InOrderOnce
  <2>1. Ordered(port.passed)
    BY Shorter DEF InOrder, Exact
  <2> QED BY <2>1 DEF Ordered
<1> QED BY <1>1, CoreHolds, InOrderHolds, PTL

-----------------------------------------------------------------------------
(***************************************************************************)
(* The outcomes of the messages of the PE.                                 *)
(***************************************************************************)
Outcome == port.complete \/ port.error
TxIdle ==
  ~port.tx_xmit /\ port.tx \in {"wait", "start_ams"} /\ port.status = "unset" /\ ~InFlight
\* A received message has ended the one of the PE, which tch has not seen yet.
Withdrawn ==
  /\ port.tch_received /\ ~Outcome /\ TxIdle
  /\ \/ pc \in {"rch", "tch"} /\ port.tch # "wait_request"
     \/ pc \in {"tx", "tch2"} /\ port.tch = "sending"

\* When tx waits for the TCPC.
InPhy == port.tx = "phy" => port.status # "unset" /\ (port.status # "wait" => ~InFlight)
Outcomes ==
  /\ Busy => port.result = "none" \/ Hard \/ Withdrawn
  /\ Busy /\ pc # "tch2" => ~Outcome
  /\ Busy /\ Outcome => TxIdle
  /\ port.tch = "construct" => ~Outcome /\ (pc # "tch2" => port.tx # "phy")
  /\ port.tch = "wait_request" => ~Outcome /\ TxIdle
Requests ==
  /\ Busy /\ port.tch_received => ~port.tx_xmit
  /\ Busy /\ port.tx = "phy" => ~port.tx_xmit
  /\ port.tx = "layer_reset" =>
       /\ port.tch = "transmission" /\ ~port.tx_xmit
       /\ port.tch_received => port.status = "success" /\ ~InFlight
  /\ port.tx_xmit /\ port.out.kind = "soft" =>
       \/ port.tch = "transmission"
       \/ port.tch_xmit /\ port.rch = "wait" /\ ~port.rch_received /\ ~port.tch_received
Clean == port.stray = FALSE /\ Outcomes /\ Requests

\* The PE resets the layer first, then waits for the outcome of its Soft_Reset.
Awaits ==
  /\ port.tx_emsg.n = port.n
  /\ port.pe = "await_accept" => port.tx_emsg.kind = "soft" /\ port.result \in {"none", "sent"}
  /\ port.init => port.pe \in {"soft_reset", "hard_reset"} /\ pc \notin {"rx", "rch"}
  /\ port.tch \in {"construct", "sending", "wait_request"} => port.tx_emsg.kind = "chunk"

\* What tx has or the TCPC was given, other than a chunk request.
Own == port.out.kind # "request"
OnAir == InFlight \/ port.status \in {"wait", "discarded"}
\* The PE awaits the outcome of its Soft_Reset.
AwaitsOutcome == port.pe = "await_accept" /\ port.result = "none"
\* A message that tch takes next.
Requested == port.tch_xmit /\ port.rch = "wait" /\ ~port.rch_received /\ ~port.tch_received
\* Who waits for the outcome of a message.
Claims ==
  /\ port.tx_xmit /\ Own => Busy \/ Hard \/ Requested
  /\ OnAir /\ Own => Busy \/ Hard \/ (AwaitsOutcome /\ ~port.tch_xmit)
  /\ Busy /\ port.tch_received /\ OnAir => Hard \/ AwaitsOutcome
  /\ port.tx = "layer_reset" => Hard \/ AwaitsOutcome
  /\ port.tx_xmit /\ port.out.kind = "soft" /\ ~port.tch_xmit => Hard \/ AwaitsOutcome
  /\ port.tch_xmit /\ port.tx_emsg.kind = "soft" =>
       Hard \/ port.pe = "await_accept" \/ port.result = "discarded"
  /\ port.tch_xmit /\ pc \in {"rx", "rch"} =>
       \/ port.rch \in {"wait", "report"} \/ Hard
       \/ port.pe = "await_accept" \/ port.result = "discarded"
  /\ port.tch_xmit => Hard \/ port.result \in {"none", "discarded"}
  /\ port.init => Hard \/ (~Busy /\ (pc = "tch" => port.rch = "report"))
Settled == InPhy /\ Awaits /\ ("unread" \notin port.mishaps => Clean /\ Claims)

\* The types of what tx, rch, tch and the PE keep.
LEMMA TxTyped ==
  ASSUME Core
  PROVE  /\ TxTypes(port) /\ RchTypes(port) /\ TchTypes(port) /\ PeTypes(port)
         /\ pc \in {"pe", "rx", "rch", "tch", "tx", "tch2"}
BY DEF Core, Typed, Types

\* Every step keeps InPhy.
LEMMA InPhyStep == ASSUME Core, InPhy, Next PROVE InPhy'
<1> USE DEF SameBut, Fields
<1>e. Effect
  BY EveryStep DEF Core
<1>k. ASSUME phy' = phy, port'.status = port.status,
             port'.tx = "phy" => port.tx = "phy"
      PROVE  InPhy'
  BY <1>k DEF InPhy, InFlight
<1>w. ASSUME port'.tx # "phy" PROVE InPhy'
  BY <1>w DEF InPhy
<1>1. CASE PeWaitsEffect \/ PeSendEffect \/ PeSendResetEffect \/ PeResetRunEffect
  <2>1. /\ phy' = phy
        /\ Fresh(port') \/ (port'.tx = port.tx /\ port'.status = port.status)
    BY <1>1 DEF PeWaitsEffect, PeSendEffect, PeSendResetEffect, PeResetRunEffect, PeTurn
  <2> QED BY <1>k, <1>w, <2>1 DEF Fresh
<1>2. CASE RxSoftResetEffect \/ RxDuplicateEffect \/ RxMessageEffect
  <2>1. /\ phy' = phy
        /\ port'.tx = "wait" \/ (port'.tx = port.tx /\ port'.status = port.status)
    BY <1>2 DEF RxSoftResetEffect, RxDuplicateEffect, RxMessageEffect, RxEffect
  <2> QED BY <1>k, <1>w, <2>1
<1>3. CASE RchWaitEffect \/ RchProcessingEffect \/ RchRequestingEffect
           \/ RchWaitingEffect \/ RchTimeoutEffect \/ RchReportEffect
  <2>1. phy' = phy /\ port'.tx = port.tx /\ port'.status = port.status
    BY <1>3 DEF RchWaitEffect, RchProcessingEffect, RchRequestingEffect,
       RchWaitingEffect, RchTimeoutEffect, RchReportEffect, RchReported, RchEffect
  <2> QED BY <1>k, <2>1
<1>4. CASE TchWaitReceivedEffect \/ TchWaitXmitEffect \/ TchTransmissionEffect \/ TchConstructEffect
           \/ TchSendingEffect \/ TchRequestEffect \/ TchRequestTimeoutEffect \/ TchReceivedRunEffect
  <2>1. phy' = phy /\ port'.tx = port.tx /\ port'.status = port.status
    BY <1>4 DEF TchWaitReceivedEffect, TchWaitXmitEffect, TchTransmissionEffect,
       TchConstructEffect,
     TchSendingEffect, TchRequestEffect, TchRequestTimeoutEffect, TchReceivedRunEffect,
     TchTook, Flags,
     TchEffect
  <2> QED BY <1>k, <2>1
<1>5. CASE TxWaitEffect \/ TxStartAmsEffect \/ TxPendingEffect \/ TxLayerResetEffect
           \/ TxSuccessEffect \/ TxErrorEffect
  <2>p. Passes => InPhy'
    BY DEF Passes, InPhy, PassFields, InFlight
  <2>1. CASE TxWaitEffect \/ TxStartAmsEffect \/ TxPendingEffect
    BY <1>k, <1>w, <2>1, <2>p DEF TxWaitEffect, TxStartAmsEffect, TxPendingEffect
  <2>2. CASE TxLayerResetEffect
    BY <2>2 DEF TxLayerResetEffect, Constructs, InPhy, InFlight
  <2>3. CASE TxSuccessEffect \/ TxErrorEffect
    BY <1>w, <2>3 DEF TxSuccessEffect, TxErrorEffect, TxDone
  <2> QED BY <1>5, <2>1, <2>2, <2>3
<1>6. CASE StaysEffect
  BY <1>6, <1>k DEF StaysEffect
<1>7. CASE CompleteEffect
  BY <1>7 DEF CompleteEffect, StatusSet, NoPhy, InPhy, InFlight
<1>8. CASE PartnerReceivesEffect
  BY <1>8 DEF PartnerReceivesEffect, InPhy, InFlight
<1>9. CASE SendsEffect
  <2>1. PICK id, content : Sends(id, content)
    BY <1>9 DEF SendsEffect, PartnerMessageEffect, PartnerRequestEffect,
       PartnerChunkEffect, PartnerAcceptEffect, PartnerSoftResetEffect
  <2>2. phy' = NoPhy /\ ((InFlight /\ StatusSet) \/ (~InFlight /\ port' = port))
    BY <2>1 DEF Sends
  <2> QED BY <2>2 DEF StatusSet, NoPhy, InPhy, InFlight
<1> QED BY <1>e, <1>1, <1>2, <1>3, <1>4, <1>5, <1>6, <1>7, <1>8, <1>9 DEF Effect, TaskEffect

\* Every step keeps Awaits.
LEMMA AwaitsStep == ASSUME Core, Awaits, Next PROVE Awaits'
<1> USE DEF SameBut, Fields
<1>e. Effect
  BY EveryStep DEF Core
<1>k. \A kind, n, c : Content(kind, n, c).kind = kind /\ Content(kind, n, c).n = n
  BY DEF Content
\* What most steps leave.
<1>f. ASSUME port'.tx_emsg = port.tx_emsg, port'.n = port.n,
             port'.tch \in {port.tch, "wait", "received", "transmission"},
             port'.pe = "await_accept" =>
               port.pe = "await_accept" /\ port'.result \in {port.result, "sent"},
             port'.init => port'.pe \in {"soft_reset", "hard_reset"} /\ pc' \notin {"rx", "rch"}
      PROVE  Awaits'
  BY <1>f DEF Awaits
<1>1. CASE PeWaitsEffect \/ PeSendResetEffect
  <2>1. /\ port'.tx_emsg = port.tx_emsg /\ port'.n = port.n
        /\ port'.tch \in {port.tch, "wait"} /\ port'.init = FALSE
        /\ port'.pe = "await_accept" =>
             port.pe = "await_accept" /\ (port'.result = port.result \/ port.result = "discarded")
    BY <1>1, TxTyped DEF PeWaitsEffect, PeSendResetEffect, Fresh, FreshFields, TchTypes, FlagRead
  <2> QED BY <1>f, <2>1 DEF Awaits
<1>2. CASE PeSendEffect \/ PeResetRunEffect
  <2>1. port.tch \notin {"construct", "sending", "wait_request"}
    BY <1>2 DEF PeSendEffect, PeResetRunEffect, PeTurn, Core, Flow, Given, Taken, Busy, Hard
  <2>2. /\ port'.tch = port.tch /\ port'.n = port.n + 1 /\ ~port.init /\ port'.init = port.init
        /\ port'.tx_emsg \in {Content("plain", port.n + 1, 0), Content("chunk", port.n + 1, 0),
                              Content("soft", port.n + 1, 0)}
        /\ port'.pe = "await_accept" =>
             port'.tx_emsg = Content("soft", port.n + 1, 0) /\ port'.result = "none"
    BY <1>2 DEF PeSendEffect, PeResetRunEffect
  <2> QED BY <1>k, <2>1, <2>2 DEF Awaits
<1>3. CASE RxSoftResetEffect
  <2>1. /\ port'.tx_emsg = Content("plain", port.n + 1, 0) /\ port'.n = port.n + 1
        /\ port'.pe = "run" /\ port'.tch = "wait" /\ port'.init = port.init /\ pc = "rx"
    BY <1>3 DEF RxSoftResetEffect, RxEffect
  <2> QED BY <1>k, <2>1 DEF Awaits
<1>4. CASE RxDuplicateEffect \/ RxMessageEffect
  <2>1. /\ port'.tx_emsg = port.tx_emsg /\ port'.n = port.n /\ port'.tch = port.tch
        /\ port'.init = port.init /\ pc = "rx"
    BY <1>4 DEF RxDuplicateEffect, RxMessageEffect, RxEffect
  <2>2. port'.pe = "await_accept" => port.pe = "await_accept" /\ port'.result = port.result
    <3>1. CASE RxDuplicateEffect
      BY <3>1 DEF RxDuplicateEffect
    <3>2. CASE RxMessageEffect
      <4>1. CASE port.status = "success" /\ ~port.tx_xmit
        BY <3>2, <4>1 DEF RxMessageEffect
      <4>2. CASE Ends(port)
        BY <3>2, <4>2 DEF RxMessageEffect
      <4>3. CASE ~Ends(port) /\ port.status # "success"
        <5>1. port.status \in {"unset", "failed"} /\ ~port.tx_xmit
          BY <4>3, TxTyped DEF Ends, TxTypes
        <5> QED BY <3>2, <5>1 DEF RxMessageEffect
      <4> QED BY <4>1, <4>2, <4>3 DEF Ends
    <3> QED BY <1>4, <3>1, <3>2
  <2> QED BY <1>f, <2>1, <2>2 DEF Awaits
<1>5. CASE RchWaitEffect \/ RchProcessingEffect \/ RchRequestingEffect
           \/ RchWaitingEffect \/ RchTimeoutEffect \/ RchReportEffect
  <2>1. /\ port'.tx_emsg = port.tx_emsg /\ port'.n = port.n /\ port'.tch = port.tch
        /\ pc = "rch" /\ pc' = "tch"
        /\ port'.pe = "await_accept" => port.pe = "await_accept" /\ port'.result = port.result
        /\ port'.init => port.init \/ port'.pe = "soft_reset"
    BY <1>5, TxTyped DEF RchWaitEffect, RchProcessingEffect, RchRequestingEffect, RchEffect,
       RchWaitingEffect, RchTimeoutEffect, RchReportEffect, RchReported, PeGoesOn, PeTypes
  <2> QED BY <1>f, <2>1 DEF Awaits
<1>6. CASE TchWaitReceivedEffect \/ TchWaitXmitEffect \/ TchTransmissionEffect \/ TchConstructEffect
           \/ TchSendingEffect \/ TchRequestEffect \/ TchRequestTimeoutEffect \/ TchReceivedRunEffect
  <2>1. /\ port'.tx_emsg = port.tx_emsg /\ port'.n = port.n /\ pc' \notin {"rx", "rch"}
    BY <1>6 DEF TchWaitReceivedEffect, TchWaitXmitEffect, TchTransmissionEffect,
       TchConstructEffect,
     TchSendingEffect, TchRequestEffect, TchRequestTimeoutEffect, TchReceivedRunEffect,
     TchTook, Flags,
     TchEffect
  <2>2. port'.pe = "await_accept" => port.pe = "await_accept" /\ port'.result \in {port.result, "sent"}
    BY <1>6 DEF TchWaitReceivedEffect, TchWaitXmitEffect, TchTransmissionEffect,
       TchConstructEffect,
     TchSendingEffect, TchRequestEffect, TchRequestTimeoutEffect, TchReceivedRunEffect,
     TchTook, Flags,
     ToldOf, PeGoesOn
  <2>3. port'.init => port'.pe = "soft_reset" \/ (port.init /\ port'.pe \in {port.pe, "run", "hard_reset"})
    BY <1>6 DEF TchWaitReceivedEffect, TchWaitXmitEffect, TchTransmissionEffect,
       TchConstructEffect,
     TchSendingEffect, TchRequestEffect, TchRequestTimeoutEffect, TchReceivedRunEffect,
     TchTook, Flags,
     ToldOf, PeGoesOn
  <2>4. port'.pe = "run" => port.pe \in {"run", "await_accept"}
    BY <1>6 DEF TchWaitReceivedEffect, TchWaitXmitEffect, TchTransmissionEffect,
       TchConstructEffect,
     TchSendingEffect, TchRequestEffect, TchRequestTimeoutEffect, TchReceivedRunEffect,
     TchTook, Flags,
     ToldOf, PeGoesOn
  <2>5. port'.init => port'.pe \in {"soft_reset", "hard_reset"}
    BY <2>3, <2>4 DEF Awaits
  <2>6. \/ port'.tch \in {port.tch, "wait", "received", "transmission"}
        \/ port'.tch = "construct" /\ port.tx_emsg.kind = "chunk"
        \/ port'.tch \in {"construct", "sending", "wait_request"}
             /\ port.tch \in {"construct", "sending", "wait_request"}
    BY <1>6 DEF TchWaitReceivedEffect, TchWaitXmitEffect, TchTransmissionEffect,
       TchConstructEffect,
     TchSendingEffect, TchRequestEffect, TchRequestTimeoutEffect, TchReceivedRunEffect,
     TchTook, Flags,
     Released
  <2> QED BY <2>1, <2>2, <2>5, <2>6 DEF Awaits
<1>7. CASE TxWaitEffect \/ TxStartAmsEffect \/ TxPendingEffect \/ TxLayerResetEffect
           \/ TxSuccessEffect \/ TxErrorEffect
  <2>1. /\ port'.tx_emsg = port.tx_emsg /\ port'.n = port.n /\ port'.tch = port.tch
        /\ port'.init = port.init /\ port'.pe = port.pe /\ port'.result = port.result
        /\ pc' = "tch2"
    BY <1>7 DEF TxWaitEffect, TxStartAmsEffect, TxPendingEffect, TxLayerResetEffect, Constructs,
       Passes, PassFields, TxSuccessEffect, TxErrorEffect, TxDone, TxEffect
  <2> QED BY <1>f, <2>1 DEF Awaits
<1>8. CASE StaysEffect
  <2>1. port' = port /\ (pc' \notin {"rx", "rch"} \/ pc = "rx")
    BY <1>8 DEF StaysEffect
  <2> QED BY <1>f, <2>1 DEF Awaits
<1>9. CASE CompleteEffect \/ PartnerReceivesEffect \/ SendsEffect
  <2>1. pc' = pc /\ (port' = port \/ StatusSet)
    <3>1. CASE SendsEffect
      <4>1. PICK id, content : Sends(id, content)
        BY <3>1 DEF SendsEffect, PartnerMessageEffect, PartnerRequestEffect,
           PartnerChunkEffect, PartnerAcceptEffect, PartnerSoftResetEffect
      <4> QED BY <4>1 DEF Sends
    <3> QED BY <1>9, <3>1 DEF CompleteEffect, PartnerReceivesEffect
  <2>2. /\ port'.tx_emsg = port.tx_emsg /\ port'.n = port.n /\ port'.tch = port.tch
        /\ port'.init = port.init /\ port'.pe = port.pe /\ port'.result = port.result
    BY <2>1 DEF StatusSet
  <2> QED BY <1>f, <2>1, <2>2 DEF Awaits
<1> QED BY <1>e, <1>1, <1>2, <1>3, <1>4, <1>5, <1>6, <1>7, <1>8, <1>9 DEF Effect, TaskEffect

-----------------------------------------------------------------------------
\* The steps of the PE.
LEMMA CleanPe ==
  ASSUME Core, Clean, PeWaitsEffect \/ PeSendEffect \/ PeSendResetEffect \/ PeResetRunEffect
  PROVE  Clean'
<1> USE DEF SameBut, Fields
<1>0. phy' = phy /\ pc = "pe" /\ pc' = "rx" /\ ~Hard /\ port'.stray = port.stray
  BY DEF PeWaitsEffect, PeSendEffect, PeSendResetEffect, PeResetRunEffect, PeTurn, Hard,
     FreshFields
<1>1. CASE Fresh(port')
  BY <1>0, <1>1 DEF Clean, Fresh, Outcomes, Requests, Busy
<1>2. CASE ~Fresh(port')
  <2>1. /\ port'.tx = port.tx /\ port'.tx_xmit = port.tx_xmit /\ port'.status = port.status
        /\ port'.complete = port.complete /\ port'.error = port.error /\ port'.out = port.out
        /\ port'.rch = port.rch /\ port'.rch_received = port.rch_received
        /\ port'.tch = port.tch /\ port'.tch_received = port.tch_received
        /\ port'.tch_xmit = port.tch_xmit \/ port'.tch_xmit = TRUE
        /\ port.result = "none" => port'.result = "none"
    BY <1>2 DEF PeWaitsEffect, PeSendEffect, PeSendResetEffect, PeResetRunEffect, FlagRead
  <2>2. Outcomes'
    BY <1>0, <2>1 DEF Clean, Outcomes, Outcome, Busy, Withdrawn, TxIdle, InFlight
  <2>3. Requests'
    BY <1>0, <2>1 DEF Clean, Requests, Busy, InFlight
  <2> QED BY <1>0, <2>2, <2>3 DEF Clean
<1> QED BY <1>1, <1>2

\* The steps of rx.
LEMMA CleanRx ==
  ASSUME Core, Quiet, Clean, Claims, RxSoftResetEffect \/ RxDuplicateEffect \/ RxMessageEffect
  PROVE  Clean'
<1> USE DEF SameBut, Fields
<1>0. /\ phy' = phy /\ pc = "rx" /\ pc' = "rch" /\ ~Hard
      /\ ~InFlight /\ ~InFlight'
  BY DEF RxSoftResetEffect, RxDuplicateEffect, RxMessageEffect, RxEffect, Hard, Quiet, InFlight
<1>1. CASE RxSoftResetEffect
  <2>1. /\ port'.tch = "wait" /\ port'.tx = "wait" /\ port'.rch = "wait" /\ port'.tch_xmit = TRUE
        /\ port'.rch_received = FALSE /\ port'.tch_received = port.tch_received
        /\ port'.tx_xmit = port.tx_xmit /\ port'.out = port.out /\ port'.stray = port.stray
    BY <1>1 DEF RxSoftResetEffect
  <2> QED BY <1>0, <2>1 DEF Clean, Outcomes, Requests, Busy
<1>2. CASE RxDuplicateEffect
  <2>1. /\ port'.tx = port.tx /\ port'.tx_xmit = port.tx_xmit /\ port'.status = port.status
        /\ port'.complete = port.complete /\ port'.error = port.error /\ port'.out = port.out
        /\ port'.rch = port.rch /\ port'.rch_received = port.rch_received
        /\ port'.tch = port.tch /\ port'.tch_received = port.tch_received
        /\ port'.tch_xmit = port.tch_xmit /\ port'.result = port.result
        /\ port'.stray = port.stray
    BY <1>2 DEF RxDuplicateEffect
  <2>2. Outcomes'
    BY <1>0, <2>1 DEF Clean, Outcomes, Outcome, Busy, Withdrawn, TxIdle, InFlight
  <2>3. Requests'
    BY <1>0, <2>1 DEF Clean, Requests, Busy, InFlight
  <2> QED BY <1>0, <2>1, <2>2, <2>3 DEF Clean
<1>3. CASE RxMessageEffect
  <2>1. /\ port'.complete = port.complete /\ port'.error = port.error /\ port'.out = port.out
        /\ port'.tch = port.tch /\ (Busy => port'.tch_received = TRUE)
        /\ port'.rch = port.rch /\ port'.tch_xmit = port.tch_xmit
        /\ port'.tx_xmit = FALSE
        /\ \/ /\ port'.tx = port.tx /\ port'.status = port.status /\ port'.result = port.result
              /\ port.status = "success"
           \/ /\ port'.tx = "wait" /\ port'.status = "unset"
              /\ port'.result = port.result \/ Ends(port)
    <3>1. /\ port'.complete = port.complete /\ port'.error = port.error /\ port'.out = port.out
          /\ port'.tch = port.tch /\ port'.rch = port.rch /\ port'.tch_xmit = port.tch_xmit
      BY <1>3 DEF RxMessageEffect
    <3>2. Busy => port'.tch_received = TRUE
      BY <1>3 DEF RxMessageEffect, ForTch, Busy
    <3>3. CASE port.status = "success" /\ ~port.tx_xmit
      BY <1>3, <3>1, <3>2, <3>3, TxTyped DEF RxMessageEffect, TxTypes
    <3>4. CASE port.status # "success" \/ port.tx_xmit
      <4>1. port'.tx = "wait" /\ port'.status = "unset"
        BY <1>3, <3>4 DEF RxMessageEffect
      <4>2. CASE Ends(port)
        BY <1>3, <3>1, <3>2, <4>1, <4>2 DEF RxMessageEffect
      <4>3. CASE ~Ends(port)
        <5>1. port.status \in {"unset", "failed"} /\ port.tx_xmit = FALSE
          BY <3>4, <4>3, TxTyped DEF Ends, TxTypes
        <5>2. port'.result = port.result /\ port'.tx_xmit = port.tx_xmit
          BY <1>3, <5>1 DEF RxMessageEffect
        <5> QED BY <3>1, <3>2, <4>1, <5>1, <5>2
      <4> QED BY <4>2, <4>3
    <3> QED BY <3>3, <3>4
  <2>2. Outcomes'
    BY <1>0, <2>1 DEF Clean, Outcomes, Outcome, Busy, Withdrawn, TxIdle, InFlight, Ends
  <2>3. Requests'
    BY <1>0, <2>1 DEF Clean, Requests, Busy, InFlight
  \* What is discarded is waited for.
  <2>4. Ends(port) /\ port.out.kind # "request" => port.result \in {"none", "discarded"}
    <3>1. Busy /\ Ends(port) => port.result = "none"
      BY <1>0 DEF Clean, Outcomes, Withdrawn, TxIdle, Ends
    <3> QED BY <1>0, <3>1 DEF Claims, Ends, OnAir, Own, Requested, AwaitsOutcome
  <2>5. port'.stray = port.stray
    <3>1. CASE port.status = "success" /\ ~port.tx_xmit
      BY <1>3, <3>1 DEF RxMessageEffect
    <3>2. CASE Ends(port)
      BY <1>3, <2>4, <3>2 DEF RxMessageEffect, StrayDiscard, Clean
    <3>3. CASE ~Ends(port) /\ port.status # "success"
      <4>1. port.status \in {"unset", "failed"} /\ ~port.tx_xmit
        BY <3>3, TxTyped DEF Ends, TxTypes
      <4> QED BY <1>3, <4>1 DEF RxMessageEffect
    <3> QED BY <3>1, <3>2, <3>3 DEF Ends
  <2> QED BY <2>2, <2>3, <2>5 DEF Clean
<1> QED BY <1>1, <1>2, <1>3

\* The steps of rch.
LEMMA CleanRch ==
  ASSUME Core, Clean,
         RchWaitEffect \/ RchProcessingEffect \/ RchRequestingEffect
           \/ RchWaitingEffect \/ RchTimeoutEffect \/ RchReportEffect
  PROVE  Clean'
<1> USE DEF SameBut, Fields
<1>1. /\ port'.stray = port.stray /\ port'.tx = port.tx /\ port'.tch = port.tch
      /\ port.rch = "wait" => port.rch_received
      /\ (port'.tx_xmit = port.tx_xmit /\ port'.out = port.out)
           \/ port'.out = Content("request", 0, port.expected + 1)
  BY DEF RchWaitEffect, RchProcessingEffect, RchRequestingEffect,
     RchWaitingEffect, RchTimeoutEffect, RchReportEffect, RchReported
<1>2. ~Busy
  BY <1>1 DEF Core, Flow, Routed
<1>3. Content("request", 0, port.expected + 1).kind = "request"
  BY DEF Content
<1> QED BY <1>1, <1>2, <1>3 DEF Clean, Outcomes, Requests, Busy

\* The steps of tch.
LEMMA CleanTch ==
  ASSUME Core, Clean, Claims, "unread" \notin port'.mishaps,
         TchWaitReceivedEffect \/ TchWaitXmitEffect \/ TchTransmissionEffect \/ TchConstructEffect
           \/ TchSendingEffect \/ TchRequestEffect \/ TchRequestTimeoutEffect \/ TchReceivedRunEffect
  PROVE  Clean'
<1> USE DEF SameBut, Fields
<1>0. /\ phy' = phy /\ ~Hard /\ port'.tx = port.tx /\ port'.status = port.status
      /\ (pc = "tch" /\ pc' = "tx") \/ (pc = "tch2" /\ pc' = "pe")
  BY DEF TchWaitReceivedEffect, TchWaitXmitEffect, TchTransmissionEffect, TchConstructEffect,
     TchSendingEffect, TchRequestEffect, TchRequestTimeoutEffect, TchReceivedRunEffect,
     TchTook, Flags,
     TchEffect, Hard
<1>t. /\ port.result = "none" \/ ~port.tch_xmit \/ port.tch_received
      /\ port.tch_xmit => pc = "tch" /\ port.tch = "wait"
      /\ port.rch_received => ~port.tch_received
      /\ Busy => port.rch = "wait" /\ ~port.rch_received
      /\ pc = "tch" /\ port.rch = "wait" => ~port.rch_received
  BY <1>0 DEF Core, Flow, Taken, Routed, Hard
\* A message ends, with the layer idle or its request gone.
<1>r. ASSUME port'.tch \in {"wait", "received"}, port'.stray = FALSE, port.tx # "layer_reset",
             port'.out = port.out, port'.tx_xmit = port.tx_xmit, ~(port.tx_xmit /\ port.out.kind = "soft")
      PROVE  Clean'
  BY <1>0, <1>r DEF Clean, Outcomes, Requests, Busy
<1>1. CASE TchWaitReceivedEffect
  <2>1. /\ port'.tch = "received" /\ port.tch = "wait" /\ port.tch_received
        /\ port'.tx_xmit = port.tx_xmit /\ port'.out = port.out
        /\ ~port.tch_xmit => port'.stray = port.stray
        /\ port.tch_xmit => port'.stray = (port.stray \/ StrayDiscard(port))
    BY <1>1 DEF TchWaitReceivedEffect, TchTook
  \* What is discarded is waited for.
  <2>2. port'.stray = FALSE
    BY <1>0, <2>1 DEF Clean, Claims, StrayDiscard
  <2> QED BY <1>r, <2>1, <2>2 DEF Clean, Requests
<1>2. CASE TchWaitXmitEffect
  <2>0. /\ port.tch = "wait" /\ ~port.tch_received /\ port.tch_xmit /\ port.result = "none"
        /\ ~port.complete /\ ~port.error /\ port.tx # "phy" /\ port.tx # "layer_reset"
        /\ port'.tch_xmit = FALSE
    BY <1>2, <1>t DEF TchWaitXmitEffect, Clean, Requests
  <2>1. CASE port.rch # "wait"
    <3>1. /\ port'.tch = "wait" /\ port'.stray = port.stray
          /\ port'.tx_xmit = port.tx_xmit /\ port'.out = port.out
      BY <1>2, <2>0, <2>1 DEF TchWaitXmitEffect, ToldOf
    <3> QED BY <1>r, <2>0, <2>1, <3>1 DEF Clean, Requests
  <2>2. CASE port.rch = "wait"
    <3>1. /\ port'.stray = port.stray /\ port'.result = port.result
          /\ port'.complete = port.complete /\ port'.error = port.error
          /\ port'.tch_received = port.tch_received
          /\ \/ port'.tch = "construct" /\ port'.out = Content("chunk", port.tx_emsg.n, 0)
             \/ port'.tch = "transmission"
      BY <1>2, <2>2 DEF TchWaitXmitEffect
    <3>2. Content("chunk", port.tx_emsg.n, 0).kind = "chunk"
      BY DEF Content
    <3>3. Outcomes'
      BY <1>0, <2>0, <3>1 DEF Outcomes, Outcome, Busy
    <3>4. Requests'
      BY <1>0, <2>0, <3>1, <3>2 DEF Requests, Busy
    <3> QED BY <3>1, <3>3, <3>4 DEF Clean
  <2> QED BY <2>1, <2>2
<1>3. CASE TchTransmissionEffect
  <2>1. /\ port.tch = "transmission" /\ port'.out = port.out /\ port'.tx_xmit = port.tx_xmit
        /\ port'.tch \in {"wait", "received"}
        /\ \/ Outcome /\ (port.result = "none" => port'.stray = port.stray)
           \/ port.tch_received /\ port.status # "success" /\ port'.stray = port.stray
    BY <1>3 DEF TchTransmissionEffect, Flags, Released, ToldOf, Outcome
  <2>2. port'.stray = FALSE
    BY <1>0, <2>1 DEF Clean, Outcomes, Busy, Withdrawn
  <2>3. port.tx # "layer_reset" /\ ~port.tx_xmit
    BY <2>1 DEF Clean, Outcomes, Requests, Busy, TxIdle
  <2> QED BY <1>r, <2>1, <2>2, <2>3
<1>4. CASE TchConstructEffect
  <2>1. /\ port.tch = "construct" /\ port'.tch = "sending" /\ port'.stray = port.stray
        /\ port'.result = port.result /\ port'.complete = port.complete /\ port'.error = port.error
        /\ port'.tx_xmit = port.tx_xmit /\ port'.out = port.out
        /\ port'.tch_received = port.tch_received /\ port'.tch_xmit = port.tch_xmit
        /\ port'.rch = port.rch /\ port'.rch_received = port.rch_received
    BY <1>4 DEF TchConstructEffect
  <2>2. Outcomes'
    BY <1>0, <2>1 DEF Clean, Outcomes, Outcome, Busy, Withdrawn, TxIdle, InFlight
  <2>3. Requests'
    BY <1>0, <1>t, <2>1 DEF Clean, Requests, Busy
  <2> QED BY <2>1, <2>2, <2>3 DEF Clean
<1>5. CASE TchSendingEffect
  <2>0. port.tch = "sending" /\ Busy /\ port.tx # "layer_reset" /\ ~port.tch_xmit
    BY <1>5, <1>t DEF TchSendingEffect, Busy, Clean, Requests
  <2>s. ~(port.tx_xmit /\ port.out.kind = "soft")
    BY <2>0 DEF Clean, Requests
  <2>1. CASE Released(port, port')
    <3>1. /\ port'.out = port.out /\ port'.tx_xmit = port.tx_xmit
          /\ \/ Outcome /\ (port.result = "none" => port'.stray = port.stray)
             \/ port'.stray = port.stray
      BY <1>5 DEF TchSendingEffect, Flags, ToldOf, Outcome
    <3>2. port'.stray = FALSE
      BY <1>0, <2>0, <3>1 DEF Clean, Outcomes, Withdrawn
    <3> QED BY <1>r, <2>0, <2>1, <2>s, <3>1, <3>2 DEF Released
  <2>2. CASE ~Released(port, port')
    <3>1. /\ ~port.error /\ port.complete /\ ~port.tch_received
          /\ port'.tch = "wait_request" /\ port'.complete = FALSE /\ port'.stray = port.stray
          /\ port'.result = port.result /\ port'.error = port.error
          /\ port'.tx_xmit = port.tx_xmit /\ port'.out = port.out
          /\ port'.tch_received = port.tch_received
      BY <1>5, <2>2 DEF TchSendingEffect
    <3>2. TxIdle /\ port.result = "none"
      BY <1>0, <2>0, <3>1 DEF Clean, Outcomes, Outcome, Withdrawn
    <3>3. Outcomes'
      BY <1>0, <3>1, <3>2 DEF Outcomes, Outcome, Busy, TxIdle, InFlight
    <3>4. Requests'
      BY <1>0, <3>1, <3>2 DEF Requests, Busy, TxIdle
    <3> QED BY <3>1, <3>3, <3>4 DEF Clean
  <2> QED BY <2>1, <2>2
<1>6. CASE TchRequestEffect \/ TchRequestTimeoutEffect
  <2>0. /\ port.tch = "wait_request" /\ Busy /\ TxIdle /\ port.result = "none" /\ ~Outcome
        /\ ~port.tx_xmit
    BY <1>0, <1>6 DEF TchRequestEffect, TchRequestTimeoutEffect, Busy, Clean, Outcomes,
       Withdrawn,
       TxIdle
  <2>1. /\ port'.stray = port.stray
        /\ \/ port'.tch \in {"wait", "received"} /\ port'.tx_xmit = port.tx_xmit /\ port'.out = port.out
           \/ /\ port'.tch = "construct" /\ port'.tch_received = FALSE
              /\ port'.result = port.result
              /\ port'.complete = port.complete /\ port'.error = port.error
              /\ port'.out = Content("chunk", port.tx_emsg.n, port.to_send)
    BY <1>6, <2>0 DEF TchRequestEffect, TchRequestTimeoutEffect, Flags, Released, ToldOf
  <2>2. Content("chunk", port.tx_emsg.n, port.to_send).kind = "chunk"
    BY DEF Content
  <2>3. CASE port'.tch \in {"wait", "received"} /\ port'.tx_xmit = port.tx_xmit /\ port'.out = port.out
    BY <1>r, <2>0, <2>1, <2>3 DEF TxIdle, Clean
  <2>4. CASE /\ port'.tch = "construct" /\ port'.tch_received = FALSE
             /\ port'.result = port.result
             /\ port'.complete = port.complete /\ port'.error = port.error
             /\ port'.out = Content("chunk", port.tx_emsg.n, port.to_send)
    <3>1. Outcomes'
      BY <1>0, <2>0, <2>4 DEF Outcomes, Outcome, Busy, TxIdle
    <3>2. Requests'
      BY <1>0, <2>0, <2>2, <2>4 DEF Requests, Busy, TxIdle
    <3> QED BY <2>1, <3>1, <3>2 DEF Clean
  <2> QED BY <2>1, <2>3, <2>4
<1>7. CASE TchReceivedRunEffect
  <2>1. /\ port.tch = "received" /\ port'.tch = "wait" /\ port'.stray = port.stray
        /\ port'.tx_xmit = port.tx_xmit /\ port'.out = port.out
    BY <1>7 DEF TchReceivedRunEffect
  <2> QED BY <1>r, <1>t, <2>1 DEF Clean, Requests
<1> QED BY <1>1, <1>2, <1>3, <1>4, <1>5, <1>6, <1>7

\* The steps of tx.
LEMMA CleanTx ==
  ASSUME Core, TxSound(port), InPhy, Clean,
         TxWaitEffect \/ TxStartAmsEffect \/ TxPendingEffect \/ TxLayerResetEffect
           \/ TxSuccessEffect \/ TxErrorEffect
  PROVE  Clean'
<1> USE DEF SameBut, Fields
<1>0. /\ ~Hard /\ pc = "tx" /\ pc' = "tch2"
      /\ port'.rch = port.rch /\ port'.rch_received = port.rch_received
      /\ port'.tch = port.tch /\ port'.tch_received = port.tch_received
      /\ port'.tch_xmit = port.tch_xmit /\ port'.out = port.out
      /\ port'.result = port.result /\ port'.stray = port.stray
  BY DEF TxWaitEffect, TxStartAmsEffect, TxPendingEffect, TxLayerResetEffect, Constructs,
     Passes, PassFields, TxSuccessEffect, TxErrorEffect, TxDone, TxEffect, Hard
<1>t. ~port.tch_xmit
  BY <1>0 DEF Core, Flow, Taken
<1>s. ASSUME phy' = phy, port'.tx_xmit = port.tx_xmit, port'.status = port.status,
             port'.complete = port.complete, port'.error = port.error,
             \/ port'.tx = port.tx
             \/ port'.tx = "start_ams" /\ port.tx = "wait"
             \/ port'.tx = "pending" /\ port.tx_xmit
      PROVE  Clean'
  <2>1. Outcomes'
    BY <1>0, <1>s DEF Clean, Outcomes, Outcome, Busy, Withdrawn, TxIdle, InFlight
  <2>2. Requests'
    BY <1>0, <1>s DEF Clean, Requests, Busy, InFlight
  <2> QED BY <1>0, <2>1, <2>2 DEF Clean
<1>p. ASSUME Passes, port.tx_xmit PROVE Clean'
  <2>1. /\ port'.tx_xmit = FALSE /\ port'.complete \in {port.complete, FALSE}
        /\ port'.error = port.error
        /\ port'.tx = "phy" \/ (port'.tx = "layer_reset" /\ port.out.kind = "soft")
    BY <1>p DEF Passes, PassFields
  <2>2. port.tch # "wait_request" /\ ~Withdrawn
    BY <1>p DEF Clean, Outcomes, Withdrawn, TxIdle
  <2>3. Outcomes'
    BY <1>0, <2>1, <2>2, TxTyped DEF Clean, Outcomes, Outcome, Busy, TxTypes
  <2>4. port.out.kind = "soft" => port.tch = "transmission" /\ ~port.tch_received
    BY <1>p, <1>t DEF Clean, Requests, Busy
  <2>5. Requests'
    BY <1>0, <2>1, <2>4 DEF Requests
  <2> QED BY <1>0, <2>3, <2>5 DEF Clean
<1>1. CASE TxWaitEffect
  <2>1. CASE port.tx_xmit /\ Passes
    BY <1>p, <2>1
  <2>2. CASE ~(port.tx_xmit /\ Passes)
    <3>1. /\ phy' = phy /\ port'.tx_xmit = port.tx_xmit /\ port'.status = port.status
          /\ port'.complete = port.complete /\ port'.error = port.error
          /\ port'.tx = port.tx \/ (port'.tx = "start_ams" /\ port.tx = "wait")
      BY <1>1, <2>2 DEF TxWaitEffect
    <3> QED BY <1>s, <3>1
  <2> QED BY <2>1, <2>2
<1>2. CASE TxStartAmsEffect
  <2>1. /\ phy' = phy /\ port'.tx_xmit = port.tx_xmit /\ port'.status = port.status
        /\ port'.complete = port.complete /\ port'.error = port.error
        /\ port'.tx = port.tx \/ (port'.tx = "pending" /\ port.tx_xmit)
    BY <1>2 DEF TxStartAmsEffect
  <2> QED BY <1>s, <2>1
<1>3. CASE TxPendingEffect
  <2>1. CASE port' = port /\ phy' = phy
    BY <1>s, <2>1
  <2>2. CASE ~(port' = port /\ phy' = phy)
    <3>1. Passes /\ port.tx = "pending"
      BY <1>3, <2>2 DEF TxPendingEffect
    <3> QED BY <1>p, <3>1 DEF TxSound
  <2> QED BY <2>1, <2>2
<1>4. CASE TxLayerResetEffect
  <2>1. /\ port.tx = "layer_reset" /\ port'.tx = "phy" /\ port'.tx_xmit = port.tx_xmit
        /\ port'.complete = FALSE /\ port'.error = port.error
    BY <1>4 DEF TxLayerResetEffect, Constructs
  <2>2. port.tch = "transmission" /\ ~port.tx_xmit /\ ~Withdrawn
    BY <2>1 DEF Clean, Requests, Withdrawn, TxIdle
  <2>3. Outcomes'
    BY <1>0, <2>1, <2>2, TxTyped DEF Clean, Outcomes, Outcome, Busy, TxTypes
  <2>4. Requests'
    BY <1>0, <2>1, <2>2 DEF Requests
  <2> QED BY <1>0, <2>3, <2>4 DEF Clean
<1>5. CASE TxSuccessEffect \/ TxErrorEffect
  <2>1. /\ port.tx = "phy" /\ port'.tx = "wait" /\ port'.status = "unset" /\ phy' = phy
        /\ port'.tx_xmit = port.tx_xmit
        /\ port.status \in {"success", "failed"} \/ ~InFlight
    BY <1>5 DEF TxSuccessEffect, TxErrorEffect, TxDone
  <2>2. ~InFlight /\ ~InFlight'
    BY <2>1 DEF InPhy, InFlight
  <2>3. /\ port.tch # "construct" /\ port.tch # "wait_request" /\ ~Withdrawn
        /\ Busy => ~port.tx_xmit
    BY <1>0, <2>1 DEF Clean, Outcomes, Requests, Withdrawn, TxIdle
  <2>4. Outcomes'
    BY <1>0, <2>1, <2>2, <2>3 DEF Clean, Outcomes, Busy, TxIdle
  <2>5. Requests'
    BY <1>0, <2>1, <2>3 DEF Clean, Requests, Busy
  <2> QED BY <1>0, <2>4, <2>5 DEF Clean
<1> QED BY <1>1, <1>2, <1>3, <1>4, <1>5

\* Steps that leave everything, and those of the TCPC and the partner.
LEMMA CleanExternal ==
  ASSUME Core, Clean, StaysEffect \/ CompleteEffect \/ PartnerReceivesEffect \/ SendsEffect
  PROVE  Clean'
<1> USE DEF SameBut, Fields
<1>s. CASE StaysEffect
  <2>0. port' = port /\ phy' = phy
    BY <1>s DEF StaysEffect
  <2>1. Requests'
    BY <2>0 DEF Clean, Requests, Busy, InFlight
  <2>2. /\ Withdrawn /\ Busy => Withdrawn'
        /\ Busy /\ pc = "tch2" => ~Outcome
        /\ pc = "tch2" => port.tch # "construct"
        /\ pc' = pc \/ pc' # "pe" \/ pc = "tch2"
    <3>1. CASE rx_nothing /\ pc = "rx" /\ pc' = "rch"
      BY <2>0, <3>1 DEF Withdrawn
    <3>2. CASE rch_idle /\ pc = "rch" /\ pc' = "tch"
      BY <2>0, <3>2 DEF Withdrawn, Outcome, TxIdle, InFlight
    <3>3. CASE tch_idle /\ pc = "tch" /\ pc' = "tx"
      BY <3>3 DEF Withdrawn, tch_idle, Busy, TxIdle
    <3>4. CASE tch_idle /\ pc = "tch2" /\ pc' = "pe"
      BY <3>4 DEF Clean, Outcomes, Withdrawn, tch_idle, Busy, Outcome
    <3>5. CASE tx_phy_wait /\ pc = "tx" /\ pc' = "tch2"
      BY <2>0, <3>5 DEF Withdrawn, Outcome, TxIdle, InFlight
    <3> QED BY <1>s, <3>1, <3>2, <3>3, <3>4, <3>5 DEF StaysEffect
  <2>3. Outcomes'
    BY <2>0, <2>2 DEF Clean, Outcomes, Outcome, Busy, Hard, TxIdle, InFlight
  <2> QED BY <2>0, <2>1, <2>3 DEF Clean
<1>k. ASSUME pc' = pc, port' = port \/ (InFlight /\ StatusSet), InFlight' => InFlight PROVE Clean'
  <2>1. CASE port' = port
    <3>1. Outcomes'
      BY <1>k, <2>1 DEF Clean, Outcomes, Outcome, Withdrawn, Busy, Hard, TxIdle
    <3>2. Requests'
      BY <1>k, <2>1 DEF Clean, Requests, Busy
    <3> QED BY <2>1, <3>1, <3>2 DEF Clean
  <2>2. CASE InFlight /\ StatusSet
    <3>1. /\ port'.stray = port.stray /\ port'.tx = port.tx /\ port'.tx_xmit = port.tx_xmit
          /\ port'.complete = port.complete /\ port'.error = port.error /\ port'.out = port.out
          /\ port'.rch = port.rch /\ port'.rch_received = port.rch_received
          /\ port'.tch = port.tch /\ port'.tch_received = port.tch_received
          /\ port'.tch_xmit = port.tch_xmit /\ port'.result = port.result /\ port'.pe = port.pe
      BY <2>2 DEF StatusSet
    <3>2. Outcomes'
      BY <1>k, <2>2, <3>1 DEF Clean, Outcomes, Outcome, Withdrawn, Busy, Hard, TxIdle
    <3>3. Requests'
      BY <1>k, <2>2, <3>1 DEF Clean, Requests, Busy
    <3> QED BY <3>1, <3>2, <3>3 DEF Clean
  <2> QED BY <1>k, <2>1, <2>2
<1>1. CASE CompleteEffect
  BY <1>1, <1>k DEF CompleteEffect
<1>2. CASE PartnerReceivesEffect
  BY <1>2, <1>k DEF PartnerReceivesEffect
<1>3. CASE SendsEffect
  <2>1. PICK id, content : Sends(id, content)
    BY <1>3 DEF SendsEffect, PartnerMessageEffect, PartnerRequestEffect,
       PartnerChunkEffect, PartnerAcceptEffect, PartnerSoftResetEffect
  <2> QED BY <1>k, <2>1 DEF Sends, NoPhy, InFlight
<1> QED BY <1>s, <1>1, <1>2, <1>3

-----------------------------------------------------------------------------
\* The steps of the PE.
LEMMA ClaimsPe ==
  ASSUME Core, Awaits, Clean, Claims,
         PeWaitsEffect \/ PeSendEffect \/ PeSendResetEffect \/ PeResetRunEffect
  PROVE  Claims'
<1> USE DEF SameBut, Fields, Requested
<1>0. /\ phy' = phy /\ pc = "pe" /\ pc' = "rx" /\ ~Hard /\ port'.out = port.out
  BY DEF PeWaitsEffect, PeSendEffect, PeSendResetEffect, PeResetRunEffect, PeTurn, Hard,
     FreshFields
<1>1. ~port.tch_xmit
  BY <1>0 DEF Core, Flow, Taken
\* While tch sends, what is requested or on the air is not told yet.
<1>2. Busy /\ (port.tx_xmit \/ OnAir) => port.result = "none"
  BY <1>0 DEF Clean, Outcomes, Withdrawn, TxIdle, OnAir
<1>3. CASE port.init \/ PeSendResetEffect
  <2>0. Fresh(port')
    BY <1>3 DEF PeWaitsEffect, PeSendEffect, PeSendResetEffect, PeResetRunEffect
  <2>1. port.init \/ (port.pe = "run" /\ port.result # "none")
    BY <1>3 DEF PeSendResetEffect
  <2>2. ~(InFlight /\ Own)
    BY <1>0, <1>2, <2>1 DEF Claims, Awaits, AwaitsOutcome, OnAir, Hard
  <2> QED BY <1>0, <2>0, <2>2 DEF Claims, Fresh, Own, OnAir, InFlight, Busy
<1>4. CASE ~(port.init \/ PeSendResetEffect)
  <2>1. /\ port'.tx = port.tx /\ port'.tx_xmit = port.tx_xmit /\ port'.status = port.status
        /\ port'.rch = port.rch /\ port'.tch = port.tch /\ port'.tch_received = port.tch_received
        /\ port'.init = FALSE
    BY <1>4, TxTyped DEF PeWaitsEffect, PeSendEffect, PeResetRunEffect, PeTypes
  <2>2. (Busy' <=> Busy) /\ (OnAir' <=> OnAir) /\ (Own' <=> Own)
    BY <1>0, <2>1 DEF Busy, OnAir, Own, InFlight
  <2>3. CASE PeWaitsEffect
    <3>1. port'.tch_xmit = FALSE
      BY <1>1, <1>4, <2>3, TxTyped DEF PeWaitsEffect, TchTypes
    <3>2. AwaitsOutcome => Hard' \/ AwaitsOutcome'
      BY <1>4, <2>3 DEF PeWaitsEffect, FlagRead, AwaitsOutcome, Hard
    <3> QED BY <1>0, <1>1, <2>1, <2>2, <3>1, <3>2 DEF Claims
  <2>4. CASE PeSendEffect
    <3>1. /\ port.pe = "run" /\ port.result # "none" /\ port'.result = "none"
          /\ port'.tx_emsg \in {Content("plain", port.n + 1, 0), Content("chunk", port.n + 1, 0)}
      BY <2>4 DEF PeSendEffect
    <3>2. port.rch \in {"wait", "report"}
      BY <2>4 DEF PeSendEffect, Core, Flow, Given
    <3>3. port'.tx_emsg.kind # "soft"
      BY <3>1 DEF Content
    <3>4. ~AwaitsOutcome /\ ~(port.tx_xmit /\ Own) /\ ~(OnAir /\ Own)
      BY <1>0, <1>1, <1>2, <3>1 DEF Claims, AwaitsOutcome
    <3>5. port.out.kind = "soft" => Own
      BY DEF Own
    <3> QED BY <1>0, <1>1, <2>1, <2>2, <3>1, <3>2, <3>3, <3>4, <3>5 DEF Claims
  <2>5. CASE PeResetRunEffect
    <3>1. AwaitsOutcome' /\ ~Busy /\ ~AwaitsOutcome /\ port'.pe = "await_accept"
      BY <2>5 DEF PeResetRunEffect, AwaitsOutcome, Busy, Core, Flow, Taken
    <3>2. ~(port.tx_xmit /\ Own) /\ ~(OnAir /\ Own)
      BY <1>0, <1>1, <3>1 DEF Claims
    <3> QED BY <1>0, <2>1, <2>2, <3>1, <3>2 DEF Claims, AwaitsOutcome
  <2> QED BY <1>4, <2>3, <2>4, <2>5
<1> QED BY <1>3, <1>4

\* The steps of rx.
LEMMA ClaimsRx ==
  ASSUME Core, Quiet, Awaits, Clean, Claims,
         RxSoftResetEffect \/ RxDuplicateEffect \/ RxMessageEffect
  PROVE  Claims'
<1> USE DEF SameBut, Fields, Requested
<1>0. /\ phy' = phy /\ pc = "rx" /\ pc' = "rch" /\ ~Hard /\ ~InFlight /\ ~InFlight'
      /\ ~port.rch_received /\ port'.out = port.out /\ port'.init = port.init /\ ~port.init
  BY DEF RxSoftResetEffect, RxDuplicateEffect, RxMessageEffect, RxEffect, Hard, Quiet, InFlight,
     Awaits
<1>1. CASE RxSoftResetEffect
  <2>1. /\ port'.tch = "wait" /\ port'.tx = "wait" /\ port'.rch = "wait" /\ port'.tch_xmit = TRUE
        /\ port'.rch_received = FALSE /\ port'.tch_received = port.tch_received
        /\ port'.tx_xmit = port.tx_xmit /\ port'.status = "unset" /\ port'.result = "none"
        /\ port'.tx_emsg = Content("plain", port.n + 1, 0)
    BY <1>1 DEF RxSoftResetEffect
  <2>2. port.tx_xmit => ~port.tch_received
    BY <1>0, TxTyped DEF Clean, Requests, Core, Flow, Routed, Busy, TchTypes
  <2>3. ~Busy' /\ ~OnAir' /\ port'.tx_emsg.kind = "plain"
    BY <1>0, <2>1 DEF Busy, OnAir, Content
  <2> QED BY <1>0, <2>1, <2>2, <2>3 DEF Claims
<1>2. CASE RxDuplicateEffect
  <2>1. /\ port'.tx = port.tx /\ port'.tx_xmit = port.tx_xmit /\ port'.status = port.status
        /\ port'.rch = port.rch /\ port'.rch_received = port.rch_received
        /\ port'.tch = port.tch /\ port'.tch_received = port.tch_received
        /\ port'.tch_xmit = port.tch_xmit /\ port'.tx_emsg = port.tx_emsg
        /\ port'.result = port.result /\ port'.pe = port.pe
    BY <1>2 DEF RxDuplicateEffect
  <2> QED BY <1>0, <2>1 DEF Claims, Busy, OnAir, Own, AwaitsOutcome, Hard
<1>3. CASE RxMessageEffect
  <2>0. /\ port'.rch = port.rch /\ port'.tch = port.tch /\ port'.tch_xmit = port.tch_xmit
        /\ port'.tx_emsg = port.tx_emsg
    BY <1>3 DEF RxMessageEffect
  <2>1. CASE port.status = "success" /\ ~port.tx_xmit
    <3>1. /\ port'.tx = port.tx /\ port'.tx_xmit = port.tx_xmit /\ port'.status = port.status
          /\ port'.result = port.result /\ port'.pe = port.pe
      BY <1>3, <2>1 DEF RxMessageEffect
    <3>2. ~OnAir'
      BY <1>0, <2>1, <3>1 DEF OnAir
    <3> QED BY <1>0, <2>0, <2>1, <3>1, <3>2 DEF Claims, AwaitsOutcome, Hard
  <2>2. CASE port.status # "success" \/ port.tx_xmit
    <3>1. port'.tx = "wait" /\ port'.status = "unset" /\ ~OnAir'
      BY <1>0, <1>3, <2>2 DEF RxMessageEffect, OnAir
    <3>2. CASE Ends(port)
      <4>1. port'.tx_xmit = FALSE /\ port'.result = "discarded"
        BY <1>3, <3>2 DEF RxMessageEffect
      <4> QED BY <1>0, <3>1, <4>1 DEF Claims
    <3>3. CASE ~Ends(port)
      <4>1. port.status \in {"unset", "failed"} /\ port.tx_xmit = FALSE
        BY <2>2, <3>3, TxTyped DEF Ends, TxTypes
      <4>2. /\ port'.tx_xmit = FALSE /\ port'.result = port.result /\ port'.pe = port.pe
        BY <1>3, <4>1 DEF RxMessageEffect
      <4> QED BY <1>0, <2>0, <3>1, <4>2 DEF Claims, Hard
    <3> QED BY <3>2, <3>3
  <2> QED BY <2>1, <2>2
<1> QED BY <1>1, <1>2, <1>3

\* The steps of rch.
LEMMA ClaimsRch ==
  ASSUME Core, Awaits, Clean, Claims,
         RchWaitEffect \/ RchProcessingEffect \/ RchRequestingEffect
           \/ RchWaitingEffect \/ RchTimeoutEffect \/ RchReportEffect
  PROVE  Claims'
<1> USE DEF SameBut, Fields, Requested
<1>0. /\ phy' = phy /\ pc = "rch" /\ pc' = "tch" /\ ~Hard /\ ~port.init
      /\ port'.tx = port.tx /\ port'.status = port.status /\ port'.tch = port.tch
      /\ port'.tch_received = port.tch_received /\ port'.tch_xmit = port.tch_xmit
      /\ port'.tx_emsg = port.tx_emsg
      /\ port.rch = "wait" => port.rch_received
  BY DEF RchWaitEffect, RchProcessingEffect, RchRequestingEffect,
     RchWaitingEffect, RchTimeoutEffect, RchReportEffect, RchReported, RchEffect, Hard, Awaits
<1>1. ~Busy /\ ~Busy' /\ ~Requested
  BY <1>0 DEF Core, Flow, Routed, Busy
<1>2. (port'.tx_xmit = port.tx_xmit /\ port'.out = port.out) \/ ~Own'
  <2>1. Content("request", 0, port.expected + 1).kind = "request"
    BY DEF Content
  <2> QED BY <2>1 DEF Own, RchWaitEffect, RchProcessingEffect, RchRequestingEffect,
       RchWaitingEffect, RchTimeoutEffect, RchReportEffect, RchReported
\* The PE keeps waiting, unless the layer is reset.
<1>3. /\ port.pe = "await_accept" => Hard' \/ (port'.pe = "await_accept" /\ port'.result = port.result)
      /\ port.result = "discarded" => port'.result = "discarded"
      /\ port'.result # port.result \/ port'.init =>
           port.rch \notin {"wait", "report"} /\ port'.rch = "report"
  BY <1>0, TxTyped DEF RchWaitEffect, RchProcessingEffect, RchRequestingEffect,
     RchWaitingEffect, RchTimeoutEffect, RchReportEffect, RchReported, PeGoesOn, Hard, PeTypes
<1>4. AwaitsOutcome => Hard' \/ AwaitsOutcome'
  BY <1>3 DEF AwaitsOutcome
<1>5. OnAir' <=> OnAir
  BY <1>0 DEF OnAir, InFlight
<1>6. ~(port.tx_xmit /\ Own)
  BY <1>0, <1>1 DEF Claims
<1>7. port.out.kind = "soft" => Own
  BY DEF Own
<1>8. port'.tx_xmit /\ port'.out.kind # "request" => FALSE
  BY <1>2, <1>6 DEF Own
<1>9. OnAir' /\ Own' => OnAir /\ Own
  BY <1>2, <1>5 DEF Own
<1>10. port'.tch_xmit => Hard' \/ port'.result \in {"none", "discarded"}
  BY <1>0, <1>3 DEF Claims, Hard
<1> QED BY <1>0, <1>1, <1>3, <1>4, <1>8, <1>9, <1>10 DEF Claims, Own

\* The steps of tch.
LEMMA ClaimsTch ==
  ASSUME Core, Awaits, Clean, Claims, "unread" \notin port'.mishaps,
         TchWaitReceivedEffect \/ TchWaitXmitEffect \/ TchTransmissionEffect \/ TchConstructEffect
           \/ TchSendingEffect \/ TchRequestEffect \/ TchRequestTimeoutEffect \/ TchReceivedRunEffect
  PROVE  Claims'
<1> USE DEF SameBut, Fields, Requested
<1>0. /\ phy' = phy /\ ~Hard /\ port'.tx = port.tx /\ port'.status = port.status
      /\ (pc = "tch" /\ pc' = "tx") \/ (pc = "tch2" /\ pc' = "pe")
      /\ OnAir' <=> OnAir
  BY DEF TchWaitReceivedEffect, TchWaitXmitEffect, TchTransmissionEffect, TchConstructEffect,
     TchSendingEffect, TchRequestEffect, TchRequestTimeoutEffect, TchReceivedRunEffect,
     TchTook, Flags, TchEffect, Hard, OnAir, InFlight
<1>t. /\ port.tch_xmit => pc = "tch" /\ port.tch = "wait"
      /\ port.tch_xmit => port.result = "none" \/ port.tch_received
  BY <1>0 DEF Core, Flow, Taken, Hard
<1>k. port.out.kind = "soft" => Own
  BY DEF Own
\* A message ends, with nothing of it requested.
<1>r. ASSUME port'.tch \in {"wait", "received"}, port'.tch_xmit = FALSE, port'.out = port.out,
             port'.tx_xmit = port.tx_xmit, ~(port.tx_xmit /\ Own), port.tx # "layer_reset",
             OnAir /\ Own => AwaitsOutcome'
      PROVE  Claims'
  <2>1. ~Busy' /\ (Own' <=> Own)
    BY <1>r DEF Busy, Own
  <2> QED BY <1>0, <1>k, <1>r, <2>1 DEF Claims
\* The layer is idle.
<1>i. TxIdle => ~port.tx_xmit /\ ~OnAir /\ port.tx # "layer_reset"
  BY DEF TxIdle, OnAir
<1>1. CASE TchWaitReceivedEffect
  <2>1. /\ port'.tch = "received" /\ port'.tch_xmit = FALSE /\ port.tch = "wait"
        /\ port.tch_received /\ port'.tx_xmit = port.tx_xmit /\ port'.out = port.out
        /\ ~port.tch_xmit => port'.result = port.result /\ port'.pe = port.pe
    BY <1>1 DEF TchWaitReceivedEffect, TchTook
  <2>2. ~Busy /\ ~(port.tx_xmit /\ Own) /\ port.tx # "layer_reset"
    BY <1>0, <2>1 DEF Claims, Busy, Clean, Requests
  <2>3. OnAir /\ Own => AwaitsOutcome'
    BY <1>0, <2>1, <2>2 DEF Claims, AwaitsOutcome
  <2> QED BY <1>r, <2>1, <2>2, <2>3
<1>2. CASE TchWaitXmitEffect
  <2>0. /\ port.tch = "wait" /\ ~port.tch_received /\ port.tch_xmit /\ port.result = "none"
        /\ port.tx # "layer_reset" /\ port'.tch_xmit = FALSE /\ ~Busy /\ pc = "tch"
        /\ ~(OnAir /\ Own)
    BY <1>2, <1>0, <1>t DEF TchWaitXmitEffect, Clean, Requests, Busy, Claims
  <2>1. CASE port.rch # "wait"
    <3>1. /\ port'.tch = "wait" /\ port'.tx_xmit = port.tx_xmit /\ port'.out = port.out
      BY <1>2, <2>0, <2>1 DEF TchWaitXmitEffect
    <3>2. ~(port.tx_xmit /\ Own)
      BY <1>0, <2>0, <2>1 DEF Claims
    <3> QED BY <1>r, <2>0, <3>1, <3>2
  <2>2. CASE port.rch = "wait"
    <3>1. /\ port'.result = port.result /\ port'.pe = port.pe /\ port'.init = port.init
          /\ port'.tch_received = port.tch_received
          /\ \/ port'.tch = "construct" /\ port'.out = Content("chunk", port.tx_emsg.n, 0)
             \/ port'.tch = "transmission" /\ port'.out = port.tx_emsg
      BY <1>2, <2>2 DEF TchWaitXmitEffect
    <3>2. Content("chunk", port.tx_emsg.n, 0).kind = "chunk"
      BY DEF Content
    <3>3. port'.out.kind = "soft" => AwaitsOutcome'
      BY <1>0, <2>0, <3>1, <3>2 DEF Claims, AwaitsOutcome
    <3>4. ~port.init
      BY <1>0, <2>0, <2>2 DEF Claims
    <3>5. Busy'
      BY <3>1 DEF Busy
    <3> QED BY <1>0, <2>0, <3>1, <3>3, <3>4, <3>5 DEF Claims
  <2> QED BY <2>1, <2>2
\* A message of which tch has seen the outcome, or that a received one ended.
<1>e. ASSUME Busy, port'.out = port.out, port'.tx_xmit = port.tx_xmit, Released(port, port'),
             \/ Outcome
             \/ TxIdle
             \/ port.tch_received /\ port.status # "success"
                  /\ port'.pe = port.pe /\ port'.result = port.result
             \/ port.tch_received /\ port.tch # "transmission"
                  /\ port'.pe = port.pe /\ port'.result = port.result
      PROVE  Claims'
  <2>1. /\ port'.tch \in {"wait", "received"} /\ port'.tch_xmit = FALSE
    BY <1>e, <1>t DEF Released, Busy, Core, Typed, Types, TchTypes
  <2>2. CASE Outcome \/ TxIdle
    <3>1. TxIdle
      BY <1>e, <2>2 DEF Clean, Outcomes
    <3> QED BY <1>e, <1>i, <1>r, <2>1, <3>1
  <2>3. CASE /\ port.tch_received /\ (port.status # "success" \/ port.tch # "transmission")
             /\ port'.pe = port.pe /\ port'.result = port.result
    <3>1. ~port.tx_xmit /\ port.tx # "layer_reset"
      BY <1>e, <2>3 DEF Clean, Requests
    <3>2. OnAir => AwaitsOutcome'
      BY <1>0, <1>e, <2>3 DEF Claims, AwaitsOutcome
    <3> QED BY <1>e, <1>r, <2>1, <3>1, <3>2
  <2> QED BY <1>e, <2>2, <2>3
<1>3. CASE TchTransmissionEffect
  BY <1>e, <1>3 DEF TchTransmissionEffect, Flags, Busy, Outcome
<1>4. CASE TchConstructEffect
  <2>1. /\ port.tch = "construct" /\ port'.tch = "sending" /\ port'.result = port.result
        /\ port'.tx_xmit = port.tx_xmit /\ port'.out = port.out /\ port'.pe = port.pe
        /\ port'.tch_received = port.tch_received /\ port'.tch_xmit = port.tch_xmit
        /\ port'.init = port.init
    BY <1>4 DEF TchConstructEffect
  <2>2. Busy /\ Busy' /\ ~port.tch_xmit
    BY <1>t, <2>1 DEF Busy
  <2> QED BY <1>0, <2>1, <2>2 DEF Claims, AwaitsOutcome, Hard
<1>5. CASE TchSendingEffect
  <2>0. port.tch = "sending" /\ Busy /\ ~port.tch_xmit
    BY <1>5, <1>t DEF TchSendingEffect, Busy
  <2>1. CASE Released(port, port')
    <3>1. /\ port'.out = port.out /\ port'.tx_xmit = port.tx_xmit
          /\ \/ Outcome
             \/ port.tch_received /\ port'.pe = port.pe /\ port'.result = port.result
      BY <1>5, <2>1 DEF TchSendingEffect, Flags, Outcome
    <3> QED BY <1>e, <2>0, <2>1, <3>1
  <2>2. CASE ~Released(port, port')
    <3>1. /\ port.complete /\ ~port.tch_received /\ port'.tch = "wait_request"
          /\ port'.tx_xmit = port.tx_xmit /\ port'.out = port.out
          /\ port'.tch_received = port.tch_received /\ port'.tch_xmit = port.tch_xmit
          /\ port'.init = port.init
      BY <1>5, <2>2 DEF TchSendingEffect
    <3>2. TxIdle /\ Busy'
      BY <2>0, <3>1 DEF Clean, Outcomes, Outcome, Busy
    <3> QED BY <1>0, <1>i, <2>0, <3>1, <3>2 DEF Claims, Hard
  <2> QED BY <2>1, <2>2
<1>6. CASE TchRequestEffect \/ TchRequestTimeoutEffect
  <2>0. port.tch = "wait_request" /\ Busy /\ TxIdle /\ ~port.tch_xmit
    BY <1>6, <1>t DEF TchRequestEffect, TchRequestTimeoutEffect, Busy, Clean, Outcomes
  <2>1. \/ /\ port'.tch \in {"wait", "received"} /\ port'.tch_xmit = FALSE
           /\ port'.tx_xmit = port.tx_xmit /\ port'.out = port.out
        \/ /\ port'.tch = "construct" /\ port'.tch_received = FALSE /\ port'.init = port.init
           /\ port'.tch_xmit = FALSE /\ port'.out = Content("chunk", port.tx_emsg.n, port.to_send)
    BY <1>6, <2>0, TxTyped DEF TchRequestEffect, TchRequestTimeoutEffect, Flags, Released, TchTypes
  <2>2. CASE port'.tch \in {"wait", "received"}
    BY <1>i, <1>r, <2>0, <2>1, <2>2
  <2>3. CASE port'.tch = "construct"
    <3>1. Busy' /\ port'.out.kind # "soft"
      BY <2>1, <2>3 DEF Busy, Content
    <3> QED BY <1>0, <1>i, <2>0, <2>1, <2>3, <3>1 DEF Claims, Hard
  <2> QED BY <2>1, <2>2, <2>3
<1>7. CASE TchReceivedRunEffect
  <2>1. /\ port.tch = "received" /\ port'.tch = "wait" /\ port'.pe = port.pe
        /\ port'.tx_xmit = port.tx_xmit /\ port'.out = port.out /\ port'.result = port.result
        /\ port'.tch_xmit = port.tch_xmit
    BY <1>7 DEF TchReceivedRunEffect
  <2>2. ~Busy /\ ~port.tch_xmit /\ port'.tch_xmit = FALSE
    BY <1>t, <2>1, TxTyped DEF Busy, TchTypes
  <2>3. ~(port.tx_xmit /\ Own) /\ port.tx # "layer_reset"
    BY <1>0, <2>1, <2>2 DEF Claims, Clean, Requests
  <2>4. OnAir /\ Own => AwaitsOutcome'
    BY <1>0, <2>1, <2>2 DEF Claims, AwaitsOutcome
  <2> QED BY <1>r, <2>1, <2>2, <2>3, <2>4
<1> QED BY <1>1, <1>2, <1>3, <1>4, <1>5, <1>6, <1>7

\* The steps of tx.
LEMMA ClaimsTx ==
  ASSUME Core, TxSound(port), InPhy, Clean, Claims,
         TxWaitEffect \/ TxStartAmsEffect \/ TxPendingEffect \/ TxLayerResetEffect
           \/ TxSuccessEffect \/ TxErrorEffect
  PROVE  Claims'
<1> USE DEF SameBut, Fields, Requested
<1>0. /\ ~Hard /\ pc = "tx" /\ pc' = "tch2" /\ port'.tch = port.tch /\ port'.init = port.init
      /\ port'.tch_received = port.tch_received /\ port'.tch_xmit = port.tch_xmit
      /\ port'.out = port.out /\ port'.result = port.result /\ port'.pe = port.pe
  BY DEF TxWaitEffect, TxStartAmsEffect, TxPendingEffect, TxLayerResetEffect, Constructs,
     Passes, PassFields, TxSuccessEffect, TxErrorEffect, TxDone, TxEffect, Hard
<1>t. ~port.tch_xmit /\ ~port'.tch_xmit
  BY <1>0 DEF Core, Flow, Taken
<1>k. (Busy' <=> Busy) /\ (Own' <=> Own) /\ (AwaitsOutcome' <=> AwaitsOutcome) /\ ~Hard'
  BY <1>0 DEF Busy, Own, AwaitsOutcome, Hard
<1>s. ASSUME port'.tx_xmit = port.tx_xmit, OnAir' => OnAir,
             port'.tx = "layer_reset" => port.tx = "layer_reset"
      PROVE  Claims'
  BY <1>0, <1>k, <1>s, <1>t DEF Claims
<1>q. ASSUME phy' = phy, port'.status = port.status PROVE OnAir' => OnAir
  BY <1>q DEF OnAir, InFlight
<1>p. ASSUME Passes, port.tx_xmit PROVE Claims'
  <2>1. port'.tx_xmit = FALSE
    BY <1>p DEF Passes
  <2>2. Own => Busy
    BY <1>0, <1>p, <1>t DEF Claims
  <2>3. Busy => ~port.tch_received
    BY <1>p DEF Clean, Requests
  <2>4. port'.tx = "layer_reset" => AwaitsOutcome
    <3>1. port'.tx = "layer_reset" => port.out.kind = "soft"
      BY <1>p DEF Passes
    <3> QED BY <1>0, <1>p, <1>t, <3>1 DEF Claims
  <2> QED BY <1>0, <1>k, <1>t, <2>1, <2>2, <2>3, <2>4 DEF Claims
<1>1. CASE TxWaitEffect
  <2>1. CASE port.tx_xmit /\ Passes
    BY <1>p, <2>1
  <2>2. CASE ~(port.tx_xmit /\ Passes)
    <3>1. /\ phy' = phy /\ port'.tx_xmit = port.tx_xmit /\ port'.status = port.status
          /\ port'.tx = port.tx \/ port'.tx = "start_ams"
      BY <1>1, <2>2 DEF TxWaitEffect
    <3> QED BY <1>q, <1>s, <3>1
  <2> QED BY <2>1, <2>2
<1>2. CASE TxStartAmsEffect
  <2>1. /\ phy' = phy /\ port'.tx_xmit = port.tx_xmit /\ port'.status = port.status
        /\ port'.tx \in {"start_ams", "pending"}
    BY <1>2 DEF TxStartAmsEffect
  <2> QED BY <1>q, <1>s, <2>1
<1>3. CASE TxPendingEffect
  <2>1. CASE port' = port /\ phy' = phy
    BY <1>q, <1>s, <2>1
  <2>2. CASE ~(port' = port /\ phy' = phy)
    <3>1. Passes /\ port.tx = "pending"
      BY <1>3, <2>2 DEF TxPendingEffect
    <3> QED BY <1>p, <3>1 DEF TxSound
  <2> QED BY <2>1, <2>2
<1>4. CASE TxLayerResetEffect
  <2>1. port.tx = "layer_reset" /\ port'.tx = "phy" /\ port'.tx_xmit = port.tx_xmit
    BY <1>4 DEF TxLayerResetEffect, Constructs
  <2>2. Busy /\ ~port.tx_xmit /\ AwaitsOutcome
    BY <1>0, <2>1 DEF Clean, Requests, Claims, Busy
  <2> QED BY <1>0, <1>k, <1>t, <2>1, <2>2 DEF Claims
<1>5. CASE TxSuccessEffect \/ TxErrorEffect
  <2>1. /\ port.tx = "phy" /\ port'.tx = "wait" /\ port'.status = "unset" /\ phy' = phy
        /\ port'.tx_xmit = port.tx_xmit
        /\ port.status \in {"success", "failed"} \/ ~InFlight
    BY <1>5 DEF TxSuccessEffect, TxErrorEffect, TxDone
  <2>2. ~OnAir'
    BY <2>1 DEF InPhy, InFlight, OnAir
  <2> QED BY <1>s, <2>1, <2>2
<1> QED BY <1>1, <1>2, <1>3, <1>4, <1>5

\* Steps that leave everything, and those of the TCPC and the partner.
LEMMA ClaimsExternal ==
  ASSUME Core, Awaits, Claims, StaysEffect \/ CompleteEffect \/ PartnerReceivesEffect \/ SendsEffect
  PROVE  Claims'
<1> USE DEF SameBut, Fields, Requested
<1>k. ASSUME port' = port \/ StatusSet, OnAir' => OnAir,
             pc' \in {"rx", "rch"} => pc \in {"rx", "rch"},
             pc' = "tch" /\ port.init => pc = "tch"
      PROVE  Claims'
  <2>1. /\ port'.tx = port.tx /\ port'.tx_xmit = port.tx_xmit /\ port'.out = port.out
        /\ port'.rch = port.rch /\ port'.rch_received = port.rch_received
        /\ port'.tch = port.tch /\ port'.tch_received = port.tch_received
        /\ port'.tch_xmit = port.tch_xmit /\ port'.result = port.result /\ port'.pe = port.pe
        /\ port'.tx_emsg = port.tx_emsg /\ port'.init = port.init
    BY <1>k DEF StatusSet
  <2>2. /\ (Busy' <=> Busy) /\ (Own' <=> Own) /\ (AwaitsOutcome' <=> AwaitsOutcome)
        /\ (Hard' <=> Hard)
    BY <2>1 DEF Busy, Own, AwaitsOutcome, Hard
  <2> QED BY <1>k, <2>1, <2>2 DEF Claims
<1>a. ASSUME InFlight, InFlight' => InFlight PROVE OnAir' => OnAir
  BY <1>a DEF OnAir
<1>s. CASE StaysEffect
  <2>1. /\ port' = port /\ phy' = phy
        /\ \/ pc = "rx" /\ pc' = "rch"
           \/ pc = "rch" /\ pc' = "tch"
           \/ pc' \notin {"rx", "rch", "tch"}
    BY <1>s DEF StaysEffect
  <2> QED BY <1>k, <2>1 DEF Awaits, OnAir, InFlight
<1>1. CASE CompleteEffect
  BY <1>1, <1>a, <1>k DEF CompleteEffect, OnAir
<1>2. CASE PartnerReceivesEffect
  BY <1>2, <1>k DEF PartnerReceivesEffect, OnAir, InFlight
<1>3. CASE SendsEffect
  <2>1. PICK id, content : Sends(id, content)
    BY <1>3 DEF SendsEffect, PartnerMessageEffect, PartnerRequestEffect,
       PartnerChunkEffect, PartnerAcceptEffect, PartnerSoftResetEffect
  <2> QED BY <1>k, <2>1 DEF Sends, NoPhy, InFlight, OnAir
<1> QED BY <1>s, <1>1, <1>2, <1>3

\* Settled is inductive, relative to Core, Fresher and InOrder.
LEMMA SettledStep == ASSUME Core, Fresher, InOrder, Settled, [Next]_vars PROVE Settled'
<1>1. CASE Next
  <2>e. Effect
    BY <1>1, EveryStep DEF Core
  <2>1. InPhy'
    BY <1>1, InPhyStep DEF Settled
  <2>2. Awaits /\ Awaits'
    BY <1>1, AwaitsStep DEF Settled
  <2>3. ASSUME "unread" \notin port'.mishaps PROVE Clean' /\ Claims'
    <3>1. InPhy /\ Clean /\ Claims /\ Quiet /\ TxSound(port)
      BY <1>1, <2>3, MishapsGrow DEF Settled, Fresher, InOrder, Plain
    <3>2. Clean'
      BY <2>3, <2>e, <3>1, CleanPe, CleanRx, CleanRch, CleanTch, CleanTx, CleanExternal
      DEF Effect, TaskEffect
    <3>3. Claims'
      BY <2>2, <2>3, <2>e, <3>1, ClaimsPe, ClaimsRx, ClaimsRch, ClaimsTch, ClaimsTx, ClaimsExternal
      DEF Effect, TaskEffect
    <3> QED BY <3>2, <3>3
  <2> QED BY <2>1, <2>2, <2>3 DEF Settled
<1>2. CASE UNCHANGED vars
  BY <1>2 DEF vars, Settled, InPhy, Clean, Outcomes, Requests, Outcome, Withdrawn, TxIdle,
     InFlight, Busy, Hard, Awaits, Claims, Own, OnAir, AwaitsOutcome, Requested
<1> QED BY <1>1, <1>2

\* Each outcome finds the message it belongs to, in every reachable state.
LEMMA SettledHolds == Spec => []Settled
<1>1. Init => Settled
  BY DEF Init, Settled, InPhy, Clean, Outcomes, Requests, Busy, Awaits, Claims, OnAir, InFlight,
     NoContent, Content
<1>2. Core /\ Fresher /\ InOrder /\ Settled /\ [Next]_vars => Settled'
  BY SettledStep
<1> QED BY <1>1, <1>2, CoreHolds, FresherHolds, InOrderHolds, PTL DEF Spec

\* pe_message_sent, pe_report_error and the discard of a message by pe_report_discard
\* come when the PE waits for its outcome, unless a message began with the result of
\* a chunk request or with PE_FLAGS_MSG_DISCARDED set.
THEOREM NoOutcomeIsStray == Spec => []NoStrayOutcome
<1>1. Settled => NoStrayOutcome
  BY DEF Settled, Clean, NoStrayOutcome
<1> QED BY <1>1, SettledHolds, PTL

-----------------------------------------------------------------------------
(***************************************************************************)
(* What the partner has accepted when the PE is told so.                   *)
(***************************************************************************)
NoSoft(q) == \A i \in DOMAIN q : q[i].content.kind # "soft"
SoftReceived == partner.stored = NoId \/ NoSoft(rxq)

Intact == port.mishaps \intersect {"missed", "unsynced", "unread", "wrapped", "unclaimed"} = {}
Accepted == port.n \in partner.accepted
\* A message of the PE on its way to the partner and back.
Carried ==
  /\ Busy /\ (port.tx_xmit \/ port.tx \in {"layer_reset", "phy"}) =>
       /\ port.out.n = port.n
       /\ port.tch = "transmission" => port.out = port.tx_emsg
  /\ Busy /\ port.tx = "phy" /\ InFlight =>
       /\ phy.content = port.out
       /\ phy.got => Accepted
       /\ ~phy.got => port.out.kind = "soft" \/ phy.id # partner.stored
  /\ Busy /\ port.tx = "phy" /\ port.status = "success" => Accepted
  /\ Busy /\ port.complete => Accepted
  /\ port.tch = "wait_request" => Accepted
  /\ port.result = "sent" => Accepted
\* Soft_Reset is sent when the PE awaits its outcome.
Resets ==
  /\ port.tx_xmit /\ port.out.kind = "soft" /\ ~port.tch_xmit => Hard \/ AwaitsOutcome
  /\ port.tx = "layer_reset" => port.out.kind = "soft" /\ (Hard \/ AwaitsOutcome)
  /\ port.tch_xmit /\ port.tx_emsg.kind = "soft" => Hard \/ port.pe = "await_accept"
\* The ids of both sides are those of the same sequence of messages.
Counted ==
  \/ port.pe = "run"
  \/ port.pe = "soft_reset" /\ port.init /\ pc \in {"tch", "tx"}
  \/ port.pe = "await_accept" /\ (port.result = "sent" \/ (port.tch = "transmission" /\ port.complete))
Ids ==
  Counted => /\ port.tx # "phy" => port.counter # partner.stored
             /\ InFlight => port.tx = "phy"
Agreed == SoftReceived /\ (Intact => Carried /\ Resets /\ Ids)

-----------------------------------------------------------------------------
\* A Soft_Reset of the partner is taken before it has stored another id.
LEMMA NoSoftExtended ==
  ASSUME NEW q \in Seq(Messages), NEW m \in Messages, NEW r, Extends(q, m, r), NoSoft(q),
         m.content.kind # "soft"
  PROVE  NoSoft(r)
<1> SUFFICES ASSUME NEW p \in Seq(Messages), NoSoft(p)
             PROVE  Append(p, m) \in Seq(Messages) /\ NoSoft(Append(p, m))
  BY DEF Extends
<1>1. /\ Append(p, m) \in Seq(Messages) /\ Len(p) \in Nat /\ DOMAIN p = 1 .. Len(p)
      /\ DOMAIN Append(p, m) = 1 .. Len(p) + 1
      /\ \A i \in 1 .. Len(p) : Append(p, m)[i] = p[i]
  OBVIOUS
<1>2. Append(p, m)[Len(p) + 1] = m
  OBVIOUS
<1> SUFFICES ASSUME NEW i \in DOMAIN Append(p, m) PROVE Append(p, m)[i].content.kind # "soft"
  BY <1>1 DEF NoSoft
<1>3. CASE i = Len(p) + 1
  BY <1>2, <1>3
<1>4. CASE i # Len(p) + 1
  BY <1>1, <1>4 DEF NoSoft
<1> QED BY <1>3, <1>4

\* Every step keeps SoftReceived.
LEMMA SoftReceivedStep == ASSUME Core, Fresher, SoftReceived, Next PROVE SoftReceived'
<1>e. Effect
  BY EveryStep DEF Core
<1>0. rxq \in Seq(Messages)
  BY ContentTyped
<1>1. CASE TaskEffect
  <2>1. partner' = partner /\ (rxq' = rxq \/ (rxq # <<>> /\ rxq' = Tail(rxq)))
    BY <1>1, TaskKeeps
  <2>2. CASE rxq # <<>> /\ rxq' = Tail(rxq)
    <3>1. \A i \in DOMAIN Tail(rxq) : i + 1 \in DOMAIN rxq /\ Tail(rxq)[i] = rxq[i + 1]
      BY <1>0, <2>2
    <3>2. NoSoft(rxq) => NoSoft(Tail(rxq))
      BY <3>1 DEF NoSoft
    <3> QED BY <2>1, <2>2, <3>2 DEF SoftReceived
  <2> QED BY <2>1, <2>2 DEF SoftReceived
<1>2. CASE CompleteEffect
  BY <1>2 DEF CompleteEffect, SoftReceived
<1>3. CASE PartnerReceivesEffect
  <2>1. rxq' = <<>>
    BY <1>3 DEF PartnerReceivesEffect, Fresher, Quiet
  <2> QED BY <2>1 DEF SoftReceived, NoSoft
<1>4. CASE SendsEffect
  <2>k. \A kind, n, c : Content(kind, n, c).kind = kind
    BY DEF Content
  <2>0. /\ partner.counter \in MsgIds
        /\ Content("plain", partner.n + 1, 0) \in Contents
        /\ Content("chunk", partner.n + 1, 0) \in Contents
        /\ Content("chunk", partner.n, 1) \in Contents /\ Content("request", 0, 1) \in Contents
    BY ContentTyped
  <2>1. CASE partner'.stored = NoId
    BY <2>1 DEF SoftReceived
  <2>2. CASE partner'.stored # NoId
    <3>1. PICK id \in MsgIds, content \in Contents :
            /\ Sends(id, content) /\ content.kind # "soft" /\ partner'.stored = partner.stored
      BY <1>4, <2>k, <2>0, <2>2 DEF SendsEffect, PartnerMessageEffect, PartnerRequestEffect,
         PartnerChunkEffect, PartnerAcceptEffect, PartnerSoftResetEffect, PartnerBut,
         PartnerFields
    <3>2. /\ [id |-> id, content |-> content] \in Messages
          /\ Extends(rxq, [id |-> id, content |-> content], rxq')
      BY <3>1, ContentTyped, SentExtends
    <3> QED BY <1>0, <2>2, <3>1, <3>2, NoSoftExtended DEF SoftReceived
  <2> QED BY <2>1, <2>2
<1> QED BY <1>e, <1>1, <1>2, <1>3, <1>4 DEF Effect

-----------------------------------------------------------------------------
\* What most steps leave of a message on its way.
LEMMA CarriedKept ==
  ASSUME Carried, port'.out = port.out, port'.n = port.n, port'.tx_emsg = port.tx_emsg,
         port'.tch \in {port.tch, "wait", "received"},
         port'.tx_xmit \in {port.tx_xmit, FALSE}, port'.complete \in {port.complete, FALSE},
         \/ port'.tx = port.tx /\ port'.status = port.status
         \/ port'.tx \notin {"phy", "layer_reset"},
         port'.result = "sent" => port.result = "sent",
         phy' = phy, partner' = partner
  PROVE  Carried'
<1>1. Busy' => Busy /\ port'.tch = port.tch
  BY DEF Busy
<1> QED BY <1>1 DEF Carried, Accepted, InFlight

\* The steps of the PE, rx and rch.
LEMMA CarriedEarly ==
  ASSUME Core, Carried,
         \/ PeWaitsEffect \/ PeSendEffect \/ PeSendResetEffect \/ PeResetRunEffect
         \/ RxSoftResetEffect \/ RxDuplicateEffect \/ RxMessageEffect
         \/ RchWaitEffect \/ RchProcessingEffect \/ RchRequestingEffect
         \/ RchWaitingEffect \/ RchTimeoutEffect \/ RchReportEffect
  PROVE  Carried'
<1> USE DEF SameBut, Fields
<1>1. CASE PeWaitsEffect \/ PeSendResetEffect
  <2>1. /\ port'.out = port.out /\ port'.n = port.n /\ port'.tx_emsg = port.tx_emsg
        /\ port'.result = "sent" => port.result = "sent"
        /\ phy' = phy /\ partner' = partner
        /\ port'.tch \in {port.tch, "wait"}
        /\ port'.tx_xmit \in {port.tx_xmit, FALSE} /\ port'.complete \in {port.complete, FALSE}
        /\ (port'.tx = port.tx /\ port'.status = port.status) \/ port'.tx = "wait"
    BY <1>1 DEF PeWaitsEffect, PeSendResetEffect, Fresh, FreshFields, PeTurn, FlagRead
  <2> QED BY <2>1, CarriedKept
<1>2. CASE PeSendEffect \/ PeResetRunEffect
  <2>1. ~Busy
    BY <1>2 DEF PeSendEffect, PeResetRunEffect, PeTurn, Core, Flow, Given, Taken, Busy, Hard
  <2>2. port'.tch = port.tch /\ port'.result = "none"
    BY <1>2 DEF PeSendEffect, PeResetRunEffect
  <2> QED BY <2>1, <2>2 DEF Carried, Busy
<1>3. CASE RxSoftResetEffect
  <2>1. port'.tch = "wait" /\ port'.result = "none"
    BY <1>3 DEF RxSoftResetEffect
  <2> QED BY <2>1 DEF Carried, Busy
<1>4. CASE RxDuplicateEffect
  <2>1. /\ port'.out = port.out /\ port'.n = port.n /\ port'.tx_emsg = port.tx_emsg
        /\ port'.result = port.result /\ phy' = phy /\ partner' = partner
        /\ port'.tch = port.tch /\ port'.tx_xmit = port.tx_xmit /\ port'.complete = port.complete
        /\ port'.tx = port.tx /\ port'.status = port.status
    BY <1>4 DEF RxDuplicateEffect, RxEffect
  <2> QED BY <2>1, CarriedKept
<1>5. CASE RxMessageEffect
  <2>1. /\ port'.out = port.out /\ port'.n = port.n /\ port'.tx_emsg = port.tx_emsg
        /\ phy' = phy /\ partner' = partner
        /\ port'.tch = port.tch /\ port'.complete = port.complete
        /\ (port'.tx = port.tx /\ port'.status = port.status) \/ port'.tx = "wait"
    BY <1>5 DEF RxMessageEffect, RxEffect
  <2>2. /\ port'.tx_xmit \in {port.tx_xmit, FALSE}
        /\ port'.result = "sent" => port.result = "sent"
    <3>1. CASE port.status = "success" /\ ~port.tx_xmit
      BY <1>5, <3>1 DEF RxMessageEffect
    <3>2. CASE Ends(port)
      BY <1>5, <3>2 DEF RxMessageEffect
    <3>3. CASE ~Ends(port) /\ port.status # "success"
      <4>1. port.status \in {"unset", "failed"} /\ ~port.tx_xmit
        BY <3>3, TxTyped DEF Ends, TxTypes
      <4> QED BY <1>5, <4>1 DEF RxMessageEffect
    <3> QED BY <3>1, <3>2, <3>3 DEF Ends
  <2> QED BY <2>1, <2>2, CarriedKept
<1>6. CASE RchWaitEffect \/ RchProcessingEffect \/ RchRequestingEffect
           \/ RchWaitingEffect \/ RchTimeoutEffect \/ RchReportEffect
  <2>1. /\ port.rch = "wait" => port.rch_received
        /\ port'.tch = port.tch /\ port'.n = port.n /\ partner' = partner
        /\ port'.result = "sent" => port.result = "sent"
    BY <1>6 DEF RchWaitEffect, RchProcessingEffect, RchRequestingEffect, RchEffect,
       RchWaitingEffect, RchTimeoutEffect, RchReportEffect, RchReported
  <2>2. ~Busy
    BY <2>1 DEF Core, Flow, Routed
  <2> QED BY <2>1, <2>2 DEF Carried, Busy, Accepted
<1> QED BY <1>1, <1>2, <1>3, <1>4, <1>5, <1>6

\* The steps of tch.
LEMMA CarriedTch ==
  ASSUME Core, Clean, Awaits, Carried, "unread" \notin port'.mishaps,
         TchWaitReceivedEffect \/ TchWaitXmitEffect \/ TchTransmissionEffect \/ TchConstructEffect
           \/ TchSendingEffect \/ TchRequestEffect \/ TchRequestTimeoutEffect \/ TchReceivedRunEffect
  PROVE  Carried'
<1> USE DEF SameBut, Fields
<1>0. /\ phy' = phy /\ partner' = partner /\ port'.tx = port.tx /\ port'.status = port.status
      /\ port'.n = port.n /\ port'.tx_emsg = port.tx_emsg
  BY DEF TchWaitReceivedEffect, TchWaitXmitEffect, TchTransmissionEffect, TchConstructEffect,
     TchSendingEffect, TchRequestEffect, TchRequestTimeoutEffect, TchReceivedRunEffect,
     TchTook, Flags,
     TchEffect
<1>k. \A kind, n, c : Content(kind, n, c).kind = kind /\ Content(kind, n, c).n = n
  BY DEF Content
\* A message ends.
<1>r. ASSUME port'.tch \in {"wait", "received"}, port'.result = "sent" => port.result = "sent" \/ Accepted
      PROVE  Carried'
  BY <1>0, <1>r DEF Carried, Busy, Accepted
<1>1. CASE TchWaitReceivedEffect \/ TchReceivedRunEffect
  <2>1. port'.tch \in {"wait", "received"} /\ (port'.result = "sent" => port.result = "sent")
    BY <1>1 DEF TchWaitReceivedEffect, TchTook, TchReceivedRunEffect
  <2> QED BY <1>r, <2>1
<1>2. CASE TchWaitXmitEffect
  <2>0. ~port.complete /\ port.tx # "phy" /\ port.tx # "layer_reset" /\ ~Busy
    BY <1>2 DEF TchWaitXmitEffect, Clean, Requests, Busy
  <2>1. CASE port'.tch = "wait"
    <3>1. port'.result = "sent" => port.result = "sent"
      BY <1>2, <2>1 DEF TchWaitXmitEffect, ToldOf
    <3> QED BY <1>r, <2>1, <3>1
  <2>2. CASE port'.tch # "wait"
    <3>1. /\ port'.result = port.result /\ port'.complete = port.complete
          /\ \/ port'.tch = "construct" /\ port'.out = Content("chunk", port.tx_emsg.n, 0)
             \/ port'.tch = "transmission" /\ port'.out = port.tx_emsg
      BY <1>2, <2>2 DEF TchWaitXmitEffect
    <3>2. port'.out.n = port.n
      BY <1>k, <3>1 DEF Awaits
    <3> QED BY <1>0, <2>0, <3>1, <3>2 DEF Carried, Accepted
  <2> QED BY <2>1, <2>2
<1>3. CASE TchTransmissionEffect
  <2>1. /\ port.tch = "transmission" /\ port'.tch \in {"wait", "received"}
        /\ port'.result = "sent" => port.result = "sent" \/ port.complete
    BY <1>3 DEF TchTransmissionEffect, ToldOf, Released, Flags
  <2> QED BY <1>r, <2>1 DEF Carried, Busy
<1>4. CASE TchConstructEffect
  <2>1. /\ port.tch = "construct" /\ port'.tch = "sending" /\ port'.out = port.out
        /\ port'.result = port.result /\ port'.complete = port.complete
        /\ port'.tx_xmit = port.tx_xmit
    BY <1>4 DEF TchConstructEffect
  <2> QED BY <1>0, <2>1 DEF Carried, Busy, Accepted, InFlight
<1>5. CASE TchSendingEffect
  <2>0. port.tch = "sending"
    BY <1>5 DEF TchSendingEffect
  <2>1. CASE Released(port, port')
    <3>1. port'.result = "sent" => port.result = "sent" \/ port.complete
      BY <1>5 DEF TchSendingEffect, ToldOf, Flags
    <3> QED BY <1>r, <2>0, <2>1, <3>1 DEF Released, Carried, Busy
  <2>2. CASE ~Released(port, port')
    <3>1. /\ port.complete /\ port'.tch = "wait_request" /\ port'.complete = FALSE
          /\ port'.result = port.result /\ port'.tx_xmit = port.tx_xmit /\ port'.out = port.out
      BY <1>5, <2>2 DEF TchSendingEffect
    <3> QED BY <1>0, <2>0, <3>1 DEF Carried, Busy, Accepted, InFlight
  <2> QED BY <2>1, <2>2
<1>6. CASE TchRequestEffect \/ TchRequestTimeoutEffect
  <2>0. port.tch = "wait_request" /\ TxIdle /\ ~Outcome /\ Accepted
    BY <1>6 DEF TchRequestEffect, TchRequestTimeoutEffect, Clean, Outcomes, Carried
  <2>1. \/ port'.tch \in {"wait", "received"}
        \/ /\ port'.tch = "construct" /\ port'.result = port.result
           /\ port'.complete = port.complete
           /\ port'.out = Content("chunk", port.tx_emsg.n, port.to_send)
    BY <1>6 DEF TchRequestEffect, TchRequestTimeoutEffect, Flags, Released
  <2>2. CASE port'.tch \in {"wait", "received"}
    BY <1>r, <2>0, <2>2
  <2>3. CASE /\ port'.tch = "construct" /\ port'.result = port.result
             /\ port'.complete = port.complete
             /\ port'.out = Content("chunk", port.tx_emsg.n, port.to_send)
    <3>1. port'.out.n = port.n
      BY <1>k, <2>3 DEF Awaits
    <3>2. ~port.complete /\ port.tx \in {"wait", "start_ams"}
      BY <2>0 DEF Outcome, TxIdle
    <3> QED BY <1>0, <2>0, <2>3, <3>1, <3>2 DEF Carried, Accepted
  <2> QED BY <2>1, <2>2, <2>3
<1> QED BY <1>1, <1>2, <1>3, <1>4, <1>5, <1>6

\* The steps of tx.
LEMMA CarriedTx ==
  ASSUME Core, TxSound(port), InPhy, Clean, Awaits, Resets, Ids, Carried,
         TxWaitEffect \/ TxStartAmsEffect \/ TxPendingEffect \/ TxLayerResetEffect
           \/ TxSuccessEffect \/ TxErrorEffect
  PROVE  Carried'
<1> USE DEF SameBut, Fields
<1>0. /\ ~Hard /\ pc = "tx" /\ partner' = partner
      /\ port'.out = port.out /\ port'.n = port.n /\ port'.tx_emsg = port.tx_emsg
      /\ port'.tch = port.tch /\ port'.result = port.result
  BY DEF TxWaitEffect, TxStartAmsEffect, TxPendingEffect, TxLayerResetEffect, Constructs,
     Passes, PassFields, TxSuccessEffect, TxErrorEffect, TxDone, TxEffect, Hard
\* A message is given to the TCPC.
<1>c. ASSUME port'.tx = "phy", port'.complete = FALSE, port'.status # "success", ~InFlight,
             Busy => port.tx_xmit \/ port.tx = "layer_reset",
             \/ phy' = phy
             \/ phy' = [id |-> port.counter, content |-> port.out, got |-> FALSE],
             Busy => port.out.kind = "soft" \/ port.counter # partner.stored
      PROVE  Carried'
  <2>1. Busy' => Busy
    BY <1>0 DEF Busy
  <2>2. InFlight' => /\ phy'.content = port.out /\ phy'.got = FALSE /\ phy'.id = port.counter
    BY <1>c DEF InFlight
  <2> QED BY <1>0, <1>c, <2>1, <2>2 DEF Carried, Accepted
<1>p. ASSUME Passes, port.tx_xmit, port.tx # "phy" PROVE Carried'
  <2>1. CASE port'.tx = "layer_reset"
    <3>1. /\ phy' = phy /\ port'.complete = port.complete /\ port'.status = port.status
      BY <1>p, <2>1 DEF Passes, PassFields
    <3> QED BY <1>0, <1>p, <2>1, <3>1 DEF Carried, Busy, Accepted
  <2>2. CASE port'.tx # "layer_reset"
    <3>1. /\ port'.tx = "phy" /\ port'.complete = FALSE /\ port'.status # "success" /\ ~InFlight
          /\ port.out.kind # "soft"
          /\ \/ phy' = phy
             \/ phy' = [id |-> port.counter, content |-> port.out, got |-> FALSE]
      BY <1>p, <2>2 DEF Passes, PassFields
    <3>2. Busy => port.counter # partner.stored
      <4> SUFFICES ASSUME Busy PROVE port.counter # partner.stored
        OBVIOUS
      <4>1. port.pe # "await_accept"
        <5> SUFFICES ASSUME port.pe = "await_accept" PROVE FALSE
          OBVIOUS
        <5>1. port.tch = "transmission" /\ port.tx_emsg.kind = "soft"
          BY DEF Awaits, Busy
        <5> QED BY <1>p, <3>1, <5>1 DEF Carried
      <4>2. port.pe = "soft_reset" => port.init
        BY DEF Core, Flow, Taken, Busy
      <4>3. Counted
        BY <1>0, <4>1, <4>2, TxTyped DEF Counted, Hard, PeTypes
      <4> QED BY <1>p, <4>3 DEF Ids
    <3> QED BY <1>c, <1>p, <3>1, <3>2
  <2> QED BY <2>1, <2>2
<1>1. CASE (TxWaitEffect /\ ~(port.tx_xmit /\ Passes)) \/ TxStartAmsEffect
             \/ (TxPendingEffect /\ ~Passes)
  <2>1. /\ phy' = phy /\ port'.tx_xmit = port.tx_xmit /\ port'.status = port.status
        /\ port'.complete = port.complete
        /\ port'.tx = port.tx \/ port'.tx \in {"start_ams", "pending"}
    BY <1>1 DEF TxWaitEffect, TxStartAmsEffect, TxPendingEffect
  <2> QED BY <1>0, <2>1, CarriedKept
<1>2. CASE TxWaitEffect /\ port.tx_xmit /\ Passes
  BY <1>2, <1>p DEF TxWaitEffect
<1>3. CASE TxPendingEffect /\ Passes
  BY <1>3, <1>p DEF TxPendingEffect, TxSound
<1>4. CASE TxLayerResetEffect
  <2>1. /\ port.tx = "layer_reset" /\ port'.tx = "phy" /\ port'.complete = FALSE
        /\ port'.status # "success" /\ ~InFlight
        /\ \/ phy' = phy
           \/ phy' = [id |-> port.counter, content |-> port.out, got |-> FALSE]
    BY <1>4 DEF TxLayerResetEffect, Constructs
  <2>2. port.out.kind = "soft"
    BY <2>1 DEF Resets
  <2> QED BY <1>c, <2>1, <2>2
<1>5. CASE TxSuccessEffect \/ TxErrorEffect
  <2>1. /\ port.tx = "phy" /\ port'.tx = "wait" /\ phy' = phy /\ port'.tx_xmit = port.tx_xmit
        /\ port'.complete = port.complete \/ port.status = "success"
    BY <1>5 DEF TxSuccessEffect, TxErrorEffect, TxDone
  <2> QED BY <1>0, <2>1 DEF Carried, Busy, Accepted
<1> QED BY <1>1, <1>2, <1>3, <1>4, <1>5

\* The TCPC and the partner.
LEMMA CarriedExternal ==
  ASSUME Core, Carried, StaysEffect \/ CompleteEffect \/ PartnerReceivesEffect \/ SendsEffect
  PROVE  Carried'
<1> USE DEF SameBut, Fields
<1>s. ASSUME port' = port \/ (InFlight /\ StatusSet), phy' = NoPhy,
             partner'.accepted = partner.accepted
      PROVE  Carried'
  <2>1. ~InFlight'
    BY <1>s DEF NoPhy, InFlight
  <2>2. CASE port' = port
    BY <1>s, <2>1, <2>2 DEF Carried, Busy, Accepted
  <2>3. CASE InFlight /\ StatusSet
    <3>1. /\ port'.out = port.out /\ port'.n = port.n /\ port'.tx_emsg = port.tx_emsg
          /\ port'.tch = port.tch /\ port'.tx_xmit = port.tx_xmit /\ port'.complete = port.complete
          /\ port'.tx = port.tx /\ port'.result = port.result
          /\ port'.status = "success" => phy.got
      BY <2>3 DEF StatusSet
    <3> QED BY <1>s, <2>1, <2>3, <3>1 DEF Carried, Busy, Accepted
  <2> QED BY <1>s, <2>2, <2>3
<1>1. CASE StaysEffect
  BY <1>1 DEF StaysEffect, Carried, Busy, Accepted, InFlight
<1>2. CASE CompleteEffect
  BY <1>2, <1>s DEF CompleteEffect
<1>3. CASE PartnerReceivesEffect
  <2>1. /\ port' = port /\ InFlight /\ ~phy.got /\ phy'.content = phy.content /\ phy'.got = TRUE
        /\ phy'.id = phy.id
        /\ \/ phy.content.kind # "soft" /\ phy.id = partner.stored /\ partner' = partner
           \/ partner'.accepted = partner.accepted \union {phy.content.n}
    BY <1>3 DEF PartnerReceivesEffect
  <2>2. Accepted => Accepted'
    BY <2>1 DEF Accepted
  <2>3. Busy /\ port.tx = "phy" => Accepted'
    <3> SUFFICES ASSUME Busy, port.tx = "phy" PROVE Accepted'
      OBVIOUS
    <3>1. phy.content = port.out /\ (port.out.kind = "soft" \/ phy.id # partner.stored)
          /\ port.out.n = port.n
      BY <2>1 DEF Carried
    <3> QED BY <2>1, <3>1 DEF Accepted
  <2> QED BY <2>1, <2>2, <2>3 DEF Carried, Busy, InFlight
<1>4. CASE SendsEffect
  <2>1. PICK id, content : Sends(id, content) /\ partner'.accepted = partner.accepted
    BY <1>4 DEF SendsEffect, PartnerMessageEffect, PartnerRequestEffect, PartnerChunkEffect,
       PartnerAcceptEffect, PartnerSoftResetEffect, PartnerBut, PartnerFields
  <2> QED BY <1>s, <2>1 DEF Sends
<1> QED BY <1>1, <1>2, <1>3, <1>4

-----------------------------------------------------------------------------
\* The steps of the PE, rx and rch.
LEMMA ResetsEarly ==
  ASSUME Core, Clean, Resets, "unsynced" \notin port'.mishaps,
         \/ PeWaitsEffect \/ PeSendEffect \/ PeSendResetEffect \/ PeResetRunEffect
         \/ RxSoftResetEffect \/ RxDuplicateEffect \/ RxMessageEffect
         \/ RchWaitEffect \/ RchProcessingEffect \/ RchRequestingEffect
         \/ RchWaitingEffect \/ RchTimeoutEffect \/ RchReportEffect
  PROVE  Resets'
<1> USE DEF SameBut, Fields
<1>k. \A kind, n, c : Content(kind, n, c).kind = kind
  BY DEF Content
<1>1. CASE PeWaitsEffect \/ PeSendEffect \/ PeSendResetEffect \/ PeResetRunEffect
  <2>0. pc = "pe" /\ ~Hard /\ ~port.tch_xmit
    BY <1>1 DEF PeWaitsEffect, PeSendEffect, PeSendResetEffect, PeResetRunEffect, PeTurn, Hard,
       Core, Flow, Taken
  <2>1. CASE Fresh(port')
    BY <2>1 DEF Fresh, Resets
  <2>2. CASE PeWaitsEffect /\ ~Fresh(port')
    <3>1. /\ port'.tx = port.tx /\ port'.tx_xmit = port.tx_xmit /\ port'.out = port.out
          /\ port'.tch_xmit = port.tch_xmit /\ (port.result = "none" => port'.result = "none")
          /\ port'.pe = port.pe \/ port'.pe = "hard_reset" \/ port.result = "sent"
      BY <2>2 DEF PeWaitsEffect, FlagRead
    <3> QED BY <2>0, <3>1 DEF Resets, Hard, AwaitsOutcome
  <2>3. CASE PeSendEffect \/ PeResetRunEffect
    <3>1. /\ port'.tx = port.tx /\ port.pe # "await_accept" /\ port'.tch_xmit = TRUE
          /\ \/ port'.pe = "await_accept"
             \/ port'.tx_emsg \in {Content("plain", port.n + 1, 0), Content("chunk", port.n + 1, 0)}
      BY <2>3 DEF PeSendEffect, PeResetRunEffect
    <3> QED BY <1>k, <2>0, <3>1 DEF Resets, Hard, AwaitsOutcome
  <2> QED BY <1>1, <2>1, <2>2, <2>3 DEF PeSendResetEffect
<1>2. CASE RxSoftResetEffect
  <2>1. /\ port'.tx = "wait" /\ port'.tch_xmit = TRUE
        /\ port'.tx_emsg = Content("plain", port.n + 1, 0)
    BY <1>2 DEF RxSoftResetEffect
  <2> QED BY <1>k, <2>1 DEF Resets
<1>3. CASE RxDuplicateEffect
  <2>1. /\ port'.tx = port.tx /\ port'.tx_xmit = port.tx_xmit /\ port'.out = port.out
        /\ port'.tch_xmit = port.tch_xmit /\ port'.result = port.result /\ port'.pe = port.pe
        /\ port'.tx_emsg = port.tx_emsg
    BY <1>3 DEF RxDuplicateEffect
  <2> QED BY <2>1 DEF Resets, Hard, AwaitsOutcome
<1>4. CASE RxMessageEffect
  <2>0. /\ ~Hard /\ port'.out = port.out /\ port'.tx_emsg = port.tx_emsg
        /\ port'.tch_xmit = port.tch_xmit
        /\ port.tch_xmit => port.result = "none"
    BY <1>4 DEF RxMessageEffect, RxEffect, Core, Flow, Taken, Hard
  <2>1. CASE Ends(port)
    <3>1. /\ port'.tx = "wait" /\ port'.tx_xmit = FALSE
          /\ ~(port.tx_emsg.kind = "soft" /\ port.result = "none")
      <4>1. port.status # "success" \/ port.tx_xmit
        BY <2>1 DEF Ends
      <4> QED BY <1>4, <2>1, <4>1 DEF RxMessageEffect
    <3> QED BY <2>0, <3>1 DEF Resets
  <2>2. CASE ~Ends(port)
    <3>1. ~port.tx_xmit /\ port.status \in {"unset", "failed", "success"}
      BY <2>2, TxTyped DEF Ends, TxTypes
    <3>2. /\ port'.tx_xmit = port.tx_xmit /\ port'.tx \in {port.tx, "wait"}
          /\ port'.result = port.result /\ port'.pe = port.pe
      BY <1>4, <3>1 DEF RxMessageEffect
    <3> QED BY <2>0, <3>1, <3>2 DEF Resets, Hard, AwaitsOutcome
  <2> QED BY <2>1, <2>2
<1>5. CASE RchWaitEffect \/ RchProcessingEffect \/ RchRequestingEffect
           \/ RchWaitingEffect \/ RchTimeoutEffect \/ RchReportEffect
  <2>1. /\ port.rch = "wait" => port.rch_received
        /\ port'.tx = port.tx /\ port'.tch_xmit = port.tch_xmit /\ port'.tx_emsg = port.tx_emsg
        /\ (port'.tx_xmit = port.tx_xmit /\ port'.out = port.out)
             \/ port'.out = Content("request", 0, port.expected + 1)
    BY <1>5 DEF RchWaitEffect, RchProcessingEffect, RchRequestingEffect,
       RchWaitingEffect, RchTimeoutEffect, RchReportEffect, RchReported
  <2>2. port.pe = "await_accept" => port'.pe = "await_accept" \/ Hard'
    BY <1>5, TxTyped DEF RchWaitEffect, RchProcessingEffect, RchRequestingEffect,
       RchWaitingEffect, RchTimeoutEffect, RchReportEffect, RchReported, PeGoesOn, PeTypes, Hard
  <2>3. ~Hard /\ ~Busy
    BY <1>5, <2>1 DEF RchWaitEffect, RchProcessingEffect, RchRequestingEffect, RchEffect,
       RchWaitingEffect, RchTimeoutEffect, RchReportEffect, Hard, Core, Flow, Routed
  <2>4. port.tx # "layer_reset" /\ ~(port.tx_xmit /\ port.out.kind = "soft")
    BY <2>1, <2>3 DEF Clean, Requests, Busy
  <2> QED BY <1>k, <2>1, <2>2, <2>3, <2>4 DEF Resets
<1> QED BY <1>1, <1>2, <1>3, <1>4, <1>5

\* The steps of tch and tx, of the TCPC and the partner.
LEMMA ResetsLate ==
  ASSUME Core, TxSound(port), Clean, Resets,
         \/ TchWaitReceivedEffect \/ TchWaitXmitEffect \/ TchTransmissionEffect \/ TchConstructEffect
         \/ TchSendingEffect \/ TchRequestEffect \/ TchRequestTimeoutEffect \/ TchReceivedRunEffect
         \/ TxWaitEffect \/ TxStartAmsEffect \/ TxPendingEffect \/ TxLayerResetEffect
         \/ TxSuccessEffect \/ TxErrorEffect
         \/ StaysEffect \/ CompleteEffect \/ PartnerReceivesEffect \/ SendsEffect
  PROVE  Resets'
<1> USE DEF SameBut, Fields
<1>k. \A kind, n, c : Content(kind, n, c).kind = kind
  BY DEF Content
<1>1. CASE \/ TchWaitReceivedEffect \/ TchWaitXmitEffect \/ TchTransmissionEffect \/ TchConstructEffect
           \/ TchSendingEffect \/ TchRequestEffect \/ TchRequestTimeoutEffect \/ TchReceivedRunEffect
  <2>0. /\ ~Hard /\ port'.tx = port.tx /\ pc \in {"tch", "tch2"} /\ port'.tx_emsg = port.tx_emsg
    BY <1>1 DEF TchWaitReceivedEffect, TchWaitXmitEffect, TchTransmissionEffect,
       TchConstructEffect,
     TchSendingEffect, TchRequestEffect, TchRequestTimeoutEffect, TchReceivedRunEffect,
     TchTook, Flags,
     TchEffect, Hard
  <2>t. /\ port.tch_xmit => port.tch = "wait"
        /\ port.tch_xmit /\ ~port.tch_received => port.result = "none"
    BY <2>0 DEF Core, Flow, Taken, Hard
  <2>s. ASSUME port.tx # "layer_reset", ~(port.tx_xmit /\ port.out.kind = "soft"), ~port'.tch_xmit,
               \/ port'.tx_xmit = port.tx_xmit /\ port'.out = port.out
               \/ port'.out = Content("chunk", port.tx_emsg.n, port'.to_send)
        PROVE  Resets'
    BY <1>k, <2>0, <2>s DEF Resets
  <2>1. CASE TchWaitReceivedEffect
    <3>1. /\ port.tch = "wait" /\ port.tch_received /\ ~port'.tch_xmit
          /\ port'.tx_xmit = port.tx_xmit /\ port'.out = port.out
      BY <2>1 DEF TchWaitReceivedEffect, TchTook
    <3> QED BY <2>s, <3>1 DEF Clean, Requests
  <2>2. CASE TchWaitXmitEffect
    <3>1. /\ port.tch = "wait" /\ ~port.tch_received /\ ~port'.tch_xmit /\ port.tch_xmit
          /\ \/ /\ port.rch # "wait"
                /\ port'.tx_xmit = port.tx_xmit /\ port'.out = port.out
             \/ port'.out = Content("chunk", port.tx_emsg.n, 0)
             \/ port'.out = port.tx_emsg /\ port'.pe = port.pe /\ port'.result = port.result
      BY <2>2 DEF TchWaitXmitEffect
    <3> QED BY <1>k, <2>0, <2>t, <3>1 DEF Clean, Requests, Resets, AwaitsOutcome
  <2>3. CASE TchTransmissionEffect
    <3>1. /\ port.tch = "transmission" /\ (port'.tch_xmit => port.tch_xmit)
          /\ port'.tx_xmit = port.tx_xmit /\ port'.out = port.out
          /\ Outcome \/ (port.tch_received /\ port.status # "success")
      BY <2>3 DEF TchTransmissionEffect, Flags, Released, Outcome
    <3>2. port.tx # "layer_reset" /\ ~port.tx_xmit
      BY <3>1 DEF Clean, Outcomes, Requests, Busy, TxIdle
    <3> QED BY <2>s, <2>t, <3>1, <3>2
  <2>4. CASE TchConstructEffect \/ TchSendingEffect \/ TchRequestTimeoutEffect \/ TchReceivedRunEffect
    <3>1. /\ port.tch \in {"construct", "sending", "wait_request", "received"}
          /\ port'.tch_xmit => port.tch_xmit
          /\ port'.tx_xmit = port.tx_xmit /\ port'.out = port.out
      BY <2>4 DEF TchConstructEffect, TchSendingEffect, TchRequestTimeoutEffect,
         TchReceivedRunEffect, Flags, Released
    <3> QED BY <2>s, <2>t, <3>1 DEF Clean, Requests
  <2>5. CASE TchRequestEffect
    <3>1. /\ port.tch = "wait_request" /\ (port'.tch_xmit => port.tch_xmit)
          /\ \/ port'.tx_xmit = port.tx_xmit /\ port'.out = port.out
             \/ port'.out = Content("chunk", port.tx_emsg.n, port.to_send)
      BY <2>5 DEF TchRequestEffect, Flags, Released
    <3> QED BY <1>k, <2>0, <2>t, <3>1 DEF Clean, Requests, Resets
  <2> QED BY <1>1, <2>1, <2>2, <2>3, <2>4, <2>5
<1>2. CASE \/ TxWaitEffect \/ TxStartAmsEffect \/ TxPendingEffect \/ TxLayerResetEffect
           \/ TxSuccessEffect \/ TxErrorEffect
  <2>0. /\ pc = "tx" /\ port'.tch_xmit = port.tch_xmit /\ port'.out = port.out
        /\ port'.tx_emsg = port.tx_emsg /\ port'.pe = port.pe /\ port'.result = port.result
        /\ port'.tx_xmit \in {port.tx_xmit, FALSE}
    BY <1>2 DEF TxWaitEffect, TxStartAmsEffect, TxPendingEffect, TxLayerResetEffect, Constructs,
       Passes, PassFields, TxSuccessEffect, TxErrorEffect, TxDone, TxEffect
  <2>1. ~port.tch_xmit
    BY <2>0 DEF Core, Flow, Taken
  <2>2. port'.tx = "layer_reset" => port.tx_xmit /\ port.out.kind = "soft"
    BY <1>2 DEF TxWaitEffect, TxStartAmsEffect, TxPendingEffect, TxLayerResetEffect, Constructs,
       Passes, PassFields, TxSuccessEffect, TxErrorEffect, TxDone, TxSound
  <2> QED BY <2>0, <2>1, <2>2 DEF Resets, Hard, AwaitsOutcome
<1>3. CASE StaysEffect \/ CompleteEffect \/ PartnerReceivesEffect \/ SendsEffect
  <2>1. port' = port \/ StatusSet
    <3>1. CASE SendsEffect
      <4>1. PICK id, content : Sends(id, content)
        BY <3>1 DEF SendsEffect, PartnerMessageEffect, PartnerRequestEffect,
           PartnerChunkEffect, PartnerAcceptEffect, PartnerSoftResetEffect
      <4> QED BY <4>1 DEF Sends
    <3> QED BY <1>3, <3>1 DEF StaysEffect, CompleteEffect, PartnerReceivesEffect
  <2>2. /\ port'.tch_xmit = port.tch_xmit /\ port'.out = port.out /\ port'.tx = port.tx
        /\ port'.tx_emsg = port.tx_emsg /\ port'.pe = port.pe /\ port'.result = port.result
        /\ port'.tx_xmit = port.tx_xmit
    BY <2>1 DEF StatusSet
  <2> QED BY <2>2 DEF Resets, Hard, AwaitsOutcome
<1> QED BY <1>1, <1>2, <1>3

-----------------------------------------------------------------------------
\* The ids stay.
LEMMA IdsKept ==
  ASSUME Ids, Counted' => Counted, port'.counter = port.counter,
         port'.tx = "phy" <=> port.tx = "phy", phy' = phy, partner' = partner
  PROVE  Ids'
BY DEF Ids, InFlight

\* The steps of the PE.
LEMMA IdsPe ==
  ASSUME Core, Awaits, Ids,
         PeWaitsEffect \/ PeSendEffect \/ PeSendResetEffect \/ PeResetRunEffect
  PROVE  Ids'
<1> USE DEF SameBut, Fields
<1>0. pc' = "rx" /\ phy' = phy /\ partner' = partner
  BY DEF PeWaitsEffect, PeSendEffect, PeSendResetEffect, PeResetRunEffect, PeTurn
<1>1. CASE PeWaitsEffect /\ port.init
  <2>1. port'.pe = port.pe /\ port.pe \in {"soft_reset", "hard_reset"} /\ port'.init = FALSE
    BY <1>1 DEF PeWaitsEffect, Awaits, Fresh
  <2> QED BY <2>1 DEF Ids, Counted
<1>2. CASE PeWaitsEffect /\ ~port.init
  <2>1. /\ port'.counter = port.counter /\ port'.tx = port.tx /\ port'.tch = port.tch
        /\ port'.complete = port.complete /\ (port'.result = "sent" => port.result = "sent")
        /\ \/ port'.pe = port.pe
           \/ port.pe = "await_accept" /\ port'.pe = "run" /\ port.result = "sent"
           \/ port'.pe = "hard_reset"
    BY <1>2 DEF PeWaitsEffect, FlagRead
  <2>2. Counted' => Counted
    BY <1>0, <2>1 DEF Counted
  <2> QED BY <1>0, <2>1, <2>2, IdsKept
<1>3. CASE PeSendEffect
  <2>1. port'.counter = port.counter /\ port'.tx = port.tx /\ port.pe = "run"
    BY <1>3 DEF PeSendEffect
  <2> QED BY <1>0, <2>1, IdsKept DEF Counted
<1>4. CASE PeSendResetEffect
  <2>1. port'.pe = "soft_reset" /\ port'.init = FALSE
    BY <1>4 DEF PeSendResetEffect, Fresh
  <2> QED BY <2>1 DEF Ids, Counted
<1>5. CASE PeResetRunEffect
  <2>1. port'.pe = "await_accept" /\ port'.result = "none" /\ port'.tch = port.tch
        /\ port.pe = "soft_reset" /\ ~port.init
    BY <1>5 DEF PeResetRunEffect
  <2>2. port.tch = "wait"
    BY <2>1 DEF Core, Flow, Taken
  <2> QED BY <2>1, <2>2 DEF Ids, Counted
<1> QED BY <1>1, <1>2, <1>3, <1>4, <1>5

\* The steps of rx: what it takes was sent when nothing was in flight.
LEMMA IdsRx ==
  ASSUME Core, Fresher, InPhy, SoftReceived, Ids, Intact',
         RxSoftResetEffect \/ RxDuplicateEffect \/ RxMessageEffect
  PROVE  Ids'
<1> USE DEF SameBut, Fields
<1>0. /\ rxq # <<>> /\ pc = "rx" /\ pc' = "rch" /\ phy' = phy /\ partner' = partner
  BY DEF RxSoftResetEffect, RxDuplicateEffect, RxMessageEffect, RxEffect
<1>1. ~InFlight'
  BY <1>0 DEF Fresher, Quiet, InFlight
<1>2. CASE RxSoftResetEffect
  <2>1. rxq[1].content.kind = "soft" /\ 1 \in DOMAIN rxq
    <3>1. rxq \in Seq(Messages)
      BY ContentTyped
    <3>2. Head(rxq) = rxq[1] /\ 1 \in DOMAIN rxq
      BY <1>0, <3>1
    <3> QED BY <1>2, <3>2 DEF RxSoftResetEffect, Received
  <2>2. partner.stored = NoId
    BY <2>1 DEF SoftReceived, NoSoft
  <2>3. port'.counter = 0
    BY <1>2 DEF RxSoftResetEffect
  <2> QED BY <1>0, <1>1, <2>2, <2>3 DEF Ids, NoId
<1>3. CASE RxDuplicateEffect
  <2>1. /\ port'.counter = port.counter /\ port'.tx = port.tx /\ port'.tch = port.tch
        /\ port'.complete = port.complete /\ port'.result = port.result /\ port'.pe = port.pe
    BY <1>3 DEF RxDuplicateEffect
  <2>2. Counted' => Counted
    BY <1>0, <2>1 DEF Counted
  <2> QED BY <1>0, <2>1, <2>2, IdsKept
<1>4. CASE RxMessageEffect
  <2>1. CASE port.status = "success" /\ ~port.tx_xmit
    <3>1. /\ port'.counter = port.counter /\ port'.tx = port.tx /\ port'.tch = port.tch
          /\ port'.complete = port.complete /\ port'.result = port.result /\ port'.pe = port.pe
      BY <1>4, <2>1 DEF RxMessageEffect
    <3>2. Counted' => Counted
      BY <1>0, <3>1 DEF Counted
    <3> QED BY <1>0, <3>1, <3>2, IdsKept
  <2>2. CASE Ends(port)
    <3>1. /\ port'.counter = NextId(port.counter)
          /\ port.pe # "soft_reset" /\ NextId(port.counter) = partner.stored =>
               "wrapped" \in port'.mishaps
          /\ port'.pe = IF port.pe = "await_accept" THEN "run" ELSE port.pe
      BY <1>4, <2>2 DEF RxMessageEffect
    <3>2. Counted' => port.pe # "soft_reset"
      BY <1>0, <3>1 DEF Counted
    <3>3. "wrapped" \notin port'.mishaps
      BY DEF Intact
    <3> QED BY <1>0, <1>1, <3>1, <3>2, <3>3 DEF Ids
  <2>3. CASE ~Ends(port) /\ port.status # "success"
    <3>1. port.status \in {"unset", "failed"} /\ ~port.tx_xmit
      BY <2>3, TxTyped DEF Ends, TxTypes
    <3>2. /\ port'.counter = port.counter /\ port'.tch = port.tch
          /\ port'.complete = port.complete /\ port'.result = port.result /\ port'.pe = port.pe
          /\ port.status = "failed" => "missed" \in port'.mishaps
          /\ port'.tx = "wait"
      BY <1>4, <3>1 DEF RxMessageEffect
    <3>3. port.tx # "phy"
      BY <3>1, <3>2 DEF Intact, InPhy
    <3>4. Counted' => Counted
      BY <1>0, <3>2 DEF Counted
    <3> QED BY <1>0, <3>2, <3>3, <3>4, IdsKept
  <2> QED BY <2>1, <2>2, <2>3 DEF Ends
<1> QED BY <1>2, <1>3, <1>4

\* The steps of rch.
LEMMA IdsRch ==
  ASSUME Core, Awaits, Ids,
         RchWaitEffect \/ RchProcessingEffect \/ RchRequestingEffect
           \/ RchWaitingEffect \/ RchTimeoutEffect \/ RchReportEffect
  PROVE  Ids'
<1> USE DEF SameBut, Fields
<1>1. /\ port'.counter = port.counter /\ port'.tx = port.tx /\ port'.tch = port.tch
      /\ port'.complete \in {port.complete, FALSE}
      /\ port'.result = "sent" => port.result = "sent"
  <2>1. CASE RchWaitEffect \/ RchProcessingEffect \/ RchRequestingEffect
               \/ RchTimeoutEffect \/ RchReportEffect
    BY <2>1 DEF RchWaitEffect, RchProcessingEffect, RchRequestingEffect,
       RchTimeoutEffect, RchReportEffect, RchReported
  <2>2. CASE RchWaitingEffect
    <3>1. CASE \E s : /\ SameBut({"complete"}, port, s) /\ s.complete = FALSE
                      /\ RchReported(s, "ERR_RCH_CHUNKED", port')
      <4>1. PICK s : /\ SameBut({"complete"}, port, s) /\ s.complete = FALSE
                     /\ RchReported(s, "ERR_RCH_CHUNKED", port')
        BY <3>1
      <4>2. /\ s.counter = port.counter /\ s.tx = port.tx /\ s.tch = port.tch
            /\ s.result = port.result /\ s.complete = FALSE
        BY <4>1
      <4>3. /\ port'.counter = s.counter /\ port'.tx = s.tx /\ port'.tch = s.tch
            /\ port'.complete = s.complete /\ (port'.result = "sent" => s.result = "sent")
        BY <4>1 DEF RchReported
      <4> QED BY <4>2, <4>3
    <3> QED BY <2>2, <3>1 DEF RchWaitingEffect
  <2> QED BY <2>1, <2>2
<1>2. phy' = phy /\ partner' = partner /\ pc = "rch" /\ port.pe # "hard_reset"
  BY DEF RchWaitEffect, RchProcessingEffect, RchRequestingEffect,
     RchWaitingEffect, RchTimeoutEffect, RchReportEffect, RchEffect
<1>3. \/ port'.pe = port.pe /\ port'.init = port.init
      \/ port'.pe = "hard_reset"
      \/ port'.pe = "soft_reset" /\ port.pe \notin {"soft_reset", "await_accept"}
  BY DEF RchWaitEffect, RchProcessingEffect, RchRequestingEffect,
     RchWaitingEffect, RchTimeoutEffect, RchReportEffect, RchReported, PeGoesOn
<1>4. ~port.init
  BY <1>2, TxTyped DEF Awaits, PeTypes
<1>5. Counted' => Counted
  BY <1>1, <1>2, <1>3, <1>4, TxTyped DEF Counted, PeTypes
<1> QED BY <1>1, <1>2, <1>5, IdsKept

\* The steps of tch.
LEMMA IdsTch ==
  ASSUME Core, Awaits, Ids, Intact',
         TchWaitReceivedEffect \/ TchWaitXmitEffect \/ TchTransmissionEffect \/ TchConstructEffect
           \/ TchSendingEffect \/ TchRequestEffect \/ TchRequestTimeoutEffect \/ TchReceivedRunEffect
  PROVE  Ids'
<1> USE DEF SameBut, Fields
<1>1. /\ port'.counter = port.counter /\ port'.tx = port.tx /\ phy' = phy /\ partner' = partner
      /\ (pc = "tch" /\ pc' = "tx") \/ (pc = "tch2" /\ pc' = "pe")
      /\ port.pe # "hard_reset"
  BY DEF TchWaitReceivedEffect, TchWaitXmitEffect, TchTransmissionEffect, TchConstructEffect,
     TchSendingEffect, TchRequestEffect, TchRequestTimeoutEffect, TchReceivedRunEffect,
     TchTook, Flags,
     TchEffect
\* The PE goes on, or resets.
<1>p. \/ port'.pe = port.pe /\ port'.init = port.init
      \/ port'.pe = "hard_reset"
      \/ port'.pe = "soft_reset" /\ port.pe \notin {"soft_reset", "await_accept"}
      \/ TchWaitReceivedEffect /\ port.tch_xmit /\ port.pe = "await_accept" /\ port'.pe = "run"
  BY DEF TchWaitReceivedEffect, TchWaitXmitEffect, TchTransmissionEffect, TchConstructEffect,
     TchSendingEffect, TchRequestEffect, TchRequestTimeoutEffect, TchReceivedRunEffect,
     TchTook, Flags,
     PeGoesOn
<1>2. CASE TchWaitReceivedEffect /\ port.tch_xmit /\ port.pe = "await_accept" /\ port'.pe = "run"
  <2>1. /\ port.tx_emsg.kind = "soft" /\ port.result = "none" => "unsynced" \in port'.mishaps
    BY <1>2 DEF TchWaitReceivedEffect, TchTook
  <2>2. port.result = "sent"
    BY <1>2, <2>1 DEF Awaits, Intact
  <2>3. Counted
    BY <1>2, <2>2 DEF Counted
  <2> QED BY <1>1, <2>3, IdsKept
<1>3. CASE port'.pe = "hard_reset"
  BY <1>3 DEF Ids, Counted
<1>4. CASE port'.pe = "soft_reset" /\ port.pe \notin {"soft_reset", "await_accept"}
  <2>1. port.pe = "run"
    BY <1>1, <1>4, TxTyped DEF PeTypes
  <2> QED BY <1>1, <2>1, IdsKept DEF Counted
<1>5. CASE port'.pe = port.pe /\ port'.init = port.init
  <2>1. port.pe = "await_accept" /\ port'.result = "sent" => Counted
    <3> SUFFICES ASSUME port.pe = "await_accept", port'.result = "sent", port.result # "sent"
                 PROVE  port.tch = "transmission" /\ port.complete
      BY DEF Counted
    <3>1. port.result = "none" /\ port.tch \notin {"construct", "sending", "wait_request"}
      <4>1. port.tx_emsg.kind # "chunk" /\ port.result = "none"
        BY DEF Awaits
      <4> QED BY <4>1 DEF Awaits
    <3> QED BY <3>1 DEF TchWaitReceivedEffect, TchWaitXmitEffect, TchTransmissionEffect,
         TchConstructEffect, TchSendingEffect, TchRequestEffect, TchRequestTimeoutEffect,
         TchReceivedRunEffect, TchTook, Flags, ToldOf
  <2>2. port.pe = "await_accept" /\ port'.tch = "transmission" => ~port'.complete
    <3>1. CASE TchWaitXmitEffect
      <4>1. "unread" \notin port'.mishaps
        BY DEF Intact
      <4>2. ~port.complete /\ port'.complete = port.complete
        BY <3>1, <4>1 DEF TchWaitXmitEffect
      <4> QED BY <4>2
    <3>2. CASE ~TchWaitXmitEffect
      <4>1. port'.tch # "transmission"
        BY <3>2 DEF TchWaitReceivedEffect, TchTransmissionEffect,
           TchConstructEffect, TchSendingEffect, TchRequestEffect, TchRequestTimeoutEffect,
           TchReceivedRunEffect, TchTook, Flags, Released
      <4> QED BY <4>1
    <3> QED BY <3>1, <3>2
  <2>3. Counted' => Counted
    BY <1>1, <1>5, <2>1, <2>2 DEF Counted
  <2> QED BY <1>1, <2>3, IdsKept
<1> QED BY <1>p, <1>2, <1>3, <1>4, <1>5

\* The steps of tx.
LEMMA IdsTx ==
  ASSUME Core, TxSound(port), InPhy, Clean, Resets, Ids, Intact',
         TxWaitEffect \/ TxStartAmsEffect \/ TxPendingEffect \/ TxLayerResetEffect
           \/ TxSuccessEffect \/ TxErrorEffect
  PROVE  Ids'
<1> USE DEF SameBut, Fields
<1>0. /\ ~Hard /\ pc = "tx" /\ pc' = "tch2" /\ partner' = partner
      /\ port'.tch = port.tch /\ port'.result = port.result /\ port'.pe = port.pe
  BY DEF TxWaitEffect, TxStartAmsEffect, TxPendingEffect, TxLayerResetEffect, Constructs,
     Passes, PassFields, TxSuccessEffect, TxErrorEffect, TxDone, TxEffect, Hard
<1>f. port'.tx = "phy" => Ids'
  BY DEF Ids
<1>p. ASSUME Passes, port.tx_xmit PROVE Ids'
  <2>1. CASE port'.tx = "layer_reset"
    <3>1. port.out.kind = "soft" /\ port'.complete = port.complete
      BY <1>p, <2>1 DEF Passes, PassFields
    <3>2. AwaitsOutcome
      <4>1. ~port.tch_xmit
        BY <1>0 DEF Core, Flow, Taken
      <4> QED BY <1>0, <1>p, <3>1, <4>1 DEF Resets
    <3>3. port.tch = "transmission" => ~port.complete
      BY <1>p DEF Clean, Outcomes, Busy, Outcome, TxIdle
    <3> QED BY <1>0, <3>1, <3>2, <3>3 DEF Ids, Counted, AwaitsOutcome
  <2>2. CASE port'.tx # "layer_reset"
    BY <1>f, <1>p, <2>2 DEF Passes
  <2> QED BY <2>1, <2>2
<1>1. CASE (TxWaitEffect /\ ~(port.tx_xmit /\ Passes)) \/ TxStartAmsEffect
             \/ (TxPendingEffect /\ ~Passes)
  <2>1. /\ phy' = phy /\ port'.counter = port.counter /\ port'.complete = port.complete
        /\ port.tx # "phy" /\ port'.tx # "phy"
    BY <1>1 DEF TxWaitEffect, TxStartAmsEffect, TxPendingEffect
  <2>2. Counted' => Counted
    BY <1>0, <2>1 DEF Counted
  <2> QED BY <1>0, <2>1, <2>2, IdsKept
<1>2. CASE TxWaitEffect /\ port.tx_xmit /\ Passes
  BY <1>2, <1>p
<1>3. CASE TxPendingEffect /\ Passes
  BY <1>3, <1>p DEF TxPendingEffect, TxSound
<1>4. CASE TxLayerResetEffect
  BY <1>4, <1>f DEF TxLayerResetEffect, Constructs
<1>5. CASE TxSuccessEffect \/ TxErrorEffect
  <2>1. /\ phy' = phy /\ port.tx = "phy" /\ port'.counter = NextId(port.counter)
        /\ port.pe # "soft_reset" /\ NextId(port.counter) = partner.stored =>
             "wrapped" \in port'.mishaps
        /\ port.status \in {"success", "failed"} \/ ~InFlight
    BY <1>5 DEF TxSuccessEffect, TxErrorEffect, TxDone
  <2>2. ~InFlight'
    BY <2>1 DEF InPhy, InFlight
  <2>3. Counted' => port.pe # "soft_reset"
    BY <1>0 DEF Counted
  <2> QED BY <1>0, <2>1, <2>2, <2>3 DEF Ids, Intact
<1> QED BY <1>1, <1>2, <1>3, <1>4, <1>5

\* The TCPC and the partner.
LEMMA IdsExternal ==
  ASSUME Core, Awaits, Ids, StaysEffect \/ CompleteEffect \/ PartnerReceivesEffect \/ SendsEffect
  PROVE  Ids'
<1> USE DEF SameBut, Fields
<1>s. ASSUME port' = port \/ StatusSet, pc' = pc, phy' = NoPhy,
             partner'.stored \in {partner.stored, NoId}
      PROVE  Ids'
  <2>1. ~InFlight' /\ port.counter # NoId
    BY <1>s DEF NoPhy, InFlight, Core, Typed, Types, CountTypes, MsgIds, NoId
  <2>2. /\ port'.counter = port.counter /\ port'.tx = port.tx /\ port'.pe = port.pe
        /\ port'.init = port.init /\ port'.result = port.result /\ port'.tch = port.tch
        /\ port'.complete = port.complete
    BY <1>s DEF StatusSet
  <2>3. Counted' => Counted
    BY <1>s, <2>2 DEF Counted
  <2> QED BY <1>s, <2>1, <2>2, <2>3 DEF Ids
<1>1. CASE StaysEffect
  <2>1. port' = port /\ phy' = phy /\ partner' = partner /\ (pc' # "tch" \/ pc = "rch")
        /\ (pc' = "tx" => pc = "tch")
    BY <1>1 DEF StaysEffect
  <2>2. Counted' => Counted
    BY <2>1 DEF Counted, Awaits
  <2> QED BY <2>1, <2>2, IdsKept
<1>2. CASE CompleteEffect
  BY <1>2, <1>s DEF CompleteEffect
<1>3. CASE PartnerReceivesEffect
  <2>1. port' = port /\ pc' = pc /\ InFlight
    BY <1>3 DEF PartnerReceivesEffect
  <2>2. Counted' => Counted
    BY <2>1 DEF Counted
  <2> QED BY <2>1, <2>2 DEF Ids
<1>4. CASE SendsEffect
  <2>1. PICK id, content :
          Sends(id, content) /\ partner'.stored \in {partner.stored, NoId}
    BY <1>4 DEF SendsEffect, PartnerMessageEffect, PartnerRequestEffect, PartnerChunkEffect,
       PartnerAcceptEffect, PartnerSoftResetEffect, PartnerBut, PartnerFields
  <2>2. port' = port \/ StatusSet
    BY <2>1 DEF Sends
  <2> QED BY <1>s, <2>1, <2>2 DEF Sends
<1> QED BY <1>1, <1>2, <1>3, <1>4

-----------------------------------------------------------------------------
\* Agreed is inductive, relative to the invariants before.
LEMMA AgreedStep == ASSUME Core, Fresher, InOrder, Settled, Agreed, [Next]_vars PROVE Agreed'
<1>1. CASE Next
  <2>e. Effect
    BY <1>1, EveryStep DEF Core
  <2>1. SoftReceived'
    BY <1>1, SoftReceivedStep DEF Agreed
  <2>2. ASSUME Intact' PROVE Carried' /\ Resets' /\ Ids'
    <3>1. /\ Intact /\ "unread" \notin port.mishaps
          /\ "unread" \notin port'.mishaps /\ "unsynced" \notin port'.mishaps
      BY <1>1, <2>2, MishapsGrow DEF Intact
    <3>2. /\ InPhy /\ Clean /\ TxSound(port)
          /\ Awaits /\ SoftReceived /\ Carried /\ Resets /\ Ids
      BY <3>1 DEF Settled, InOrder, Plain, Agreed
    <3>3. Carried'
      BY <2>e, <3>1, <3>2, CarriedEarly, CarriedTch, CarriedTx, CarriedExternal
         DEF Effect, TaskEffect
    <3>4. Resets'
      BY <2>e, <3>1, <3>2, ResetsEarly, ResetsLate DEF Effect, TaskEffect
    <3>5. Ids'
      BY <2>e, <2>2, <3>2, IdsPe, IdsRx, IdsRch, IdsTch, IdsTx, IdsExternal
         DEF Effect, TaskEffect
    <3> QED BY <3>3, <3>4, <3>5
  <2> QED BY <2>1, <2>2 DEF Agreed
<1>2. CASE UNCHANGED vars
  BY <1>2 DEF vars, Agreed, SoftReceived, NoSoft, Intact, Carried, Resets, Ids, Counted,
     AwaitsOutcome, Accepted, Busy, Hard, InFlight
<1> QED BY <1>1, <1>2

\* In the first state nothing is sent.
LEMMA InitAgreed == Init => Agreed
<1> SUFFICES ASSUME Init PROVE Agreed
  OBVIOUS
<1>1. /\ port.tx_emsg = NoContent /\ port.n = 0 /\ port.pe = "run" /\ port.init = FALSE
      /\ port.tch = "wait" /\ port.tx = "wait" /\ port.tx_xmit = FALSE /\ port.tch_xmit = FALSE
      /\ port.result = "abandoned" /\ port.counter = 0 /\ partner.stored = NoId
      /\ phy.id = NoId
  BY DEF Init
<1>2. NoContent.n = 0
  BY DEF NoContent, Content
<1> QED BY <1>1, <1>2 DEF Agreed, SoftReceived, Carried, Busy, Resets, Ids, InFlight,
       NoId

\* Sender and receiver agree, in every reachable state.
LEMMA AgreedHolds == Spec => []Agreed
<1>1. Core /\ Fresher /\ InOrder /\ Settled /\ Agreed /\ [Next]_vars => Agreed'
  BY AgreedStep
<1> QED BY <1>1, InitAgreed, CoreHolds, FresherHolds, InOrderHolds, SettledHolds, PTL DEF Spec

\* When the PE is told that a message was sent, the partner has accepted it:
\* GoodCRC of prl_tx_wait_for_phy_response was for that message and not for one
\* whose id the partner had seen, unless a mishap left ids, flags or outcomes wrong.
THEOREM SentIsAccepted == Spec => []SentWasAccepted
<1>1. Agreed => SentWasAccepted
  BY DEF Agreed, Intact, Carried, Accepted, SentWasAccepted
<1> QED BY <1>1, AgreedHolds, PTL
=============================================================================
