----------------------------- MODULE Downstream -----------------------------
(***************************************************************************)
(* The protocol side of thread_down of lora_pkt_fwd.c: PULL_DATA requests   *)
(* and their acknowledgements, auto-quit, the PULL_RESP downlink requests   *)
(* and the TX_ACK each is answered with; and the loop of main that copies   *)
(* and resets the downstream counters.                                      *)
(*                                                                          *)
(* The queue a downlink is put into is JitQueue's business: here it is the  *)
(* answer of jit_enqueue, any of those it can give.  The text of a request  *)
(* is reduced to what decides about it, and to its payload.                 *)
(***************************************************************************)
EXTENDS Base64, FiniteSets

CONSTANTS
  keepalive_time,       \* how long is listened after a PULL_DATA, in time-outs of recv
  autoquit_threshold,   \* 0: no auto-quit
  gps_enabled,
  REQUESTS,             \* the requests the client makes
  PAYLOAD_SIZE,         \* the size of txpkt.payload
  TOKENS,               \* the random tokens of PULL_DATA, and those of the requests
  MAX_PULLS,            \* bound: PULL_DATA sent
  MAX_MESSAGES,         \* bound: messages the client sends
  MAX_REPORTS           \* bound: intervals of main

\* The size of a packet, a uint16_t.
Size == 0 .. 65535

\* Of a request: how its time is given, and what is wrong with the rest: a GPS time
\* that does not convert or a mandatory field ("JSON"), its frequency or its power; the
\* size it gives of its payload, and the text of it.
Content == [time : {"imme", "tmst", "tmms"}, rest : {"OK", "JSON", "TX_FREQ", "TX_POWER"},
            size : Size, data : Seq(Char)]
Request == [kind : {"PULL_RESP"}, token : TOKENS, content : Content]

ASSUME DownConstants ==
  /\ keepalive_time \in Int
  /\ autoquit_threshold \in Nat
  /\ gps_enabled \in BOOLEAN
  /\ REQUESTS \subseteq Request
  /\ PAYLOAD_SIZE \in Nat
  /\ TOKENS # {}
  /\ MAX_PULLS \in Nat
  /\ MAX_MESSAGES \in Nat
  /\ MAX_REPORTS \in Nat

\* What jit_enqueue can answer, and what is found before it is called.
JitError == {"OK", "FULL", "TOO_LATE", "TOO_EARLY", "COLLISION_PACKET", "COLLISION_BEACON"}
Error == JitError \cup {"TX_FREQ", "TX_POWER", "GPS_UNLOCKED"}

\* A message of the client: a request, an acknowledgement, or neither (not of the
\* protocol, not JSON, no txpk object or none of the three ways to give a time).
Ack == [kind : {"PULL_ACK"}, token : TOKENS]
Invalid == [kind : {"INVALID"}]
Message == REQUESTS \cup Ack \cup Invalid
NoMessage == [kind |-> "NONE"]

VARIABLES
  dpc,            \* where thread_down is
  token,          \*   token of the last PULL_DATA
  req_ack,        \*   whether it has been acknowledged
  autoquit_cnt,
  elapsed,        \*   time from the PULL_DATA to the last recv
  msg,            \*   the message received
  txpkt,          \*   the downlink made of it: its size and its payload
  jit_result,
  exit_sig,
  gps_ref_valid,
  meas,           \* the downstream counters
  reports,        \* the copies main has made of them
  inbox,          \* messages of the client not yet received
  nmsgs,          \* bound: messages sent by the client
  pulls,          \* the PULL_DATA sent: token, and whether it was acknowledged
  asked,          \* the requests the gateway has to answer, with what came of each
  answers         \* the TX_ACK sent

down_vars == <<dpc, token, req_ack, autoquit_cnt, elapsed, msg, txpkt, jit_result, exit_sig>>
hist_vars == <<pulls, asked, answers>>
link_vars == <<inbox, nmsgs>>
vars == <<dpc, token, req_ack, autoquit_cnt, elapsed, msg, txpkt, jit_result, exit_sig,
          gps_ref_valid, meas, reports, inbox, nmsgs, pulls, asked, answers>>

Fields == {"pull_sent", "ack_rcv", "dgram_rcv", "requested",
           "collision_packet", "collision_beacon", "too_late", "too_early"}
Counters == [Fields -> Nat]
Zero == [f \in Fields |-> 0]
Increment(f) == [meas EXCEPT ![f] = @ + 1]

\* memset(&txpkt, 0, sizeof txpkt).
NoTxpkt == [size |-> 0, payload |-> [k \in 1 .. PAYLOAD_SIZE |-> 0]]

TypeOK ==
  /\ dpc \in {"loop", "sent", "listen", "handle", "check", "enqueue", "requested", "answer",
              "ended", "exited"}
  /\ token \in TOKENS
  /\ req_ack \in BOOLEAN
  /\ autoquit_cnt \in Nat
  /\ autoquit_threshold > 0 => autoquit_cnt <= autoquit_threshold
  /\ elapsed \in Int
  /\ msg \in Message \cup {NoMessage}
  /\ txpkt \in [size : Size, payload : [1 .. PAYLOAD_SIZE -> Byte]]
  /\ jit_result \in Error
  /\ exit_sig \in BOOLEAN
  /\ gps_ref_valid \in BOOLEAN
  /\ meas \in Counters
  /\ reports \in Seq(Counters)
  /\ inbox \in Seq(Message)
  /\ nmsgs \in Nat
  /\ pulls \in Seq([token : TOKENS, acked : BOOLEAN])
  /\ asked \in Seq([token : TOKENS, result : Error])
  /\ answers \in Seq([token : TOKENS, error : Error])

Init ==
  /\ dpc = "loop" /\ token = CHOOSE t \in TOKENS : TRUE
  /\ req_ack = FALSE /\ autoquit_cnt = 0 /\ elapsed = 0
  /\ msg = NoMessage /\ txpkt = NoTxpkt /\ jit_result = "OK"
  /\ exit_sig = FALSE
  /\ gps_ref_valid = FALSE
  /\ meas = Zero
  /\ reports = <<>>
  /\ inbox = <<>> /\ nmsgs = 0
  /\ pulls = <<>> /\ asked = <<>> /\ answers = <<>>

-----------------------------------------------------------------------------
(* PULL_DATA.                                                              *)

\* The last PULL_DATA were not acknowledged.
Autoquit ==
  /\ dpc = "loop"
  /\ ~exit_sig
  /\ autoquit_threshold > 0 /\ autoquit_cnt >= autoquit_threshold
  /\ exit_sig' = TRUE
  /\ dpc' = "ended"
  /\ UNCHANGED <<token, req_ack, autoquit_cnt, elapsed, msg, txpkt, jit_result, gps_ref_valid,
                 meas, reports, link_vars, hist_vars>>

\* A PULL_DATA is sent with a new random token.
PullSend ==
  /\ dpc = "loop"
  /\ ~exit_sig
  /\ autoquit_threshold = 0 \/ autoquit_cnt < autoquit_threshold
  /\ Len(pulls) < MAX_PULLS
  /\ \E t \in TOKENS : token' = t /\ pulls' = Append(pulls, [token |-> t, acked |-> FALSE])
  /\ dpc' = "sent"
  /\ UNCHANGED <<req_ack, autoquit_cnt, elapsed, msg, txpkt, jit_result, exit_sig, gps_ref_valid,
                 meas, reports, link_vars, asked, answers>>

\* Mutant: the count starts again with every PULL_DATA.
PullCountedAnew ==
  /\ dpc = "sent"
  /\ meas' = Increment("pull_sent")
  /\ req_ack' = FALSE
  /\ autoquit_cnt' = 1
  /\ elapsed' = 0
  /\ dpc' = "listen"
  /\ UNCHANGED <<token, msg, txpkt, jit_result, exit_sig, gps_ref_valid, reports, link_vars, hist_vars>>

\* It is counted, and the thread begins to listen.
PullCounted ==
  /\ dpc = "sent"
  /\ meas' = Increment("pull_sent")
  /\ req_ack' = FALSE
  /\ autoquit_cnt' = autoquit_cnt + 1
  /\ elapsed' = 0
  /\ dpc' = "listen"
  /\ UNCHANGED <<token, msg, txpkt, jit_result, exit_sig, gps_ref_valid, reports, link_vars, hist_vars>>

\* It is time for the next PULL_DATA, or to stop.
ListenOver ==
  /\ dpc = "listen"
  /\ elapsed >= keepalive_time \/ exit_sig
  /\ dpc' = "loop"
  /\ UNCHANGED <<token, req_ack, autoquit_cnt, elapsed, msg, txpkt, jit_result, exit_sig,
                 gps_ref_valid, meas, reports, link_vars, hist_vars>>

\* The thread sees that it has to stop.
Ended ==
  /\ dpc = "loop"
  /\ exit_sig
  /\ dpc' = "ended"
  /\ UNCHANGED <<token, req_ack, autoquit_cnt, elapsed, msg, txpkt, jit_result, exit_sig,
                 gps_ref_valid, meas, reports, link_vars, hist_vars>>

-----------------------------------------------------------------------------
(* Messages.                                                               *)

\* recv gives a message or times out, after some time; the queue is refilled with
\* beacons (JitThreads) and without a message the thread listens on.
Receive ==
  /\ dpc = "listen"
  /\ elapsed < keepalive_time /\ ~exit_sig
  /\ \/ /\ inbox = <<>>
        /\ elapsed' \in elapsed + 1 .. keepalive_time
        /\ UNCHANGED <<msg, inbox, dpc>>
     \/ /\ inbox # <<>>
        /\ elapsed' \in elapsed .. keepalive_time
        /\ msg' = Head(inbox)
        /\ inbox' = Tail(inbox)
        /\ dpc' = "handle"
  /\ UNCHANGED <<token, req_ack, autoquit_cnt, txpkt, jit_result, exit_sig, gps_ref_valid, meas,
                 reports, nmsgs, hist_vars>>

\* The message is done with.
Done ==
  /\ dpc' = "listen"
  /\ msg' = NoMessage
  /\ jit_result' = "OK"

\* Not a message of the protocol, or a request with an error in its JSON text: it
\* is ignored.
Ignore ==
  /\ dpc = "handle"
  /\ \/ msg.kind = "INVALID"
     \/ /\ msg.kind = "PULL_RESP" /\ msg.content.rest = "JSON"
        /\ msg.content.time = "tmms" => gps_enabled /\ gps_ref_valid
  /\ txpkt' = IF msg.kind = "PULL_RESP" THEN NoTxpkt ELSE txpkt
  /\ Done
  /\ UNCHANGED <<token, req_ack, autoquit_cnt, elapsed, exit_sig, gps_ref_valid, meas,
                 reports, link_vars, hist_vars>>

\* Mutant: a duplicate counts again.
PullAckTwice ==
  /\ dpc = "handle"
  /\ msg.kind = "PULL_ACK"
  /\ IF msg.token = token
       THEN /\ req_ack' = TRUE
            /\ autoquit_cnt' = 0
            /\ meas' = Increment("ack_rcv")
            /\ pulls' = [pulls EXCEPT ![Len(pulls)].acked = TRUE]
       ELSE UNCHANGED <<req_ack, autoquit_cnt, meas, pulls>>
  /\ Done
  /\ UNCHANGED <<token, elapsed, txpkt, exit_sig, gps_ref_valid, reports, link_vars, asked, answers>>

\* Mutant: the count goes on over an acknowledgement.
PullAckUncounted ==
  /\ dpc = "handle"
  /\ msg.kind = "PULL_ACK"
  /\ IF msg.token = token /\ ~req_ack
       THEN /\ req_ack' = TRUE
            /\ meas' = Increment("ack_rcv")
            /\ pulls' = [pulls EXCEPT ![Len(pulls)].acked = TRUE]
       ELSE UNCHANGED <<req_ack, meas, pulls>>
  /\ Done
  /\ UNCHANGED <<token, autoquit_cnt, elapsed, txpkt, exit_sig, gps_ref_valid, reports, link_vars,
                 asked, answers>>

\* An acknowledgement counts once and only for the last PULL_DATA.
PullAck ==
  /\ dpc = "handle"
  /\ msg.kind = "PULL_ACK"
  /\ IF msg.token = token /\ ~req_ack
       THEN /\ req_ack' = TRUE
            /\ autoquit_cnt' = 0
            /\ meas' = Increment("ack_rcv")
            /\ pulls' = [pulls EXCEPT ![Len(pulls)].acked = TRUE]
       ELSE UNCHANGED <<req_ack, autoquit_cnt, meas, pulls>>
  /\ Done
  /\ UNCHANGED <<token, elapsed, txpkt, exit_sig, gps_ref_valid, reports, link_vars, asked, answers>>

\* The request is to be answered with `error'.
ToAnswer(error) ==
  /\ jit_result' = error
  /\ asked' = Append(asked, [token |-> msg.token, result |-> error])

\* A GPS time, but no reference to convert it with.
GpsUnlocked ==
  /\ dpc = "handle"
  /\ msg.kind = "PULL_RESP" /\ msg.content.time = "tmms"
  /\ ~gps_enabled \/ ~gps_ref_valid
  /\ ToAnswer("GPS_UNLOCKED")
  /\ txpkt' = NoTxpkt
  /\ dpc' = "answer"
  /\ UNCHANGED <<token, req_ack, autoquit_cnt, elapsed, msg, exit_sig, gps_ref_valid, meas,
                 reports, link_vars, pulls, answers>>

\* The request is complete, to its payload.
Complete ==
  /\ dpc = "handle"
  /\ msg.kind = "PULL_RESP" /\ msg.content.rest # "JSON"
  /\ msg.content.time = "tmms" => gps_enabled /\ gps_ref_valid

\* The payload of the request, written over `payload'; what cannot be decoded, and a
\* size that is not the one of the data, only make a warning.
Decoded(payload) ==
  LET bytes == b64_to_bin(msg.content.data, PAYLOAD_SIZE)
  IN  [size |-> msg.content.size,
       payload |-> [k \in 1 .. PAYLOAD_SIZE |->
                      IF k <= bytes.ret THEN bytes.out[k] ELSE payload[k]]]

\* A character that is none of base64 ends the thread.
DataInvalid ==
  /\ Complete
  /\ b64_to_bin_exits(msg.content.data, PAYLOAD_SIZE)
  /\ dpc' = "exited"
  /\ msg' = NoMessage
  /\ txpkt' = NoTxpkt
  /\ UNCHANGED <<token, req_ack, autoquit_cnt, elapsed, jit_result, exit_sig, gps_ref_valid,
                 meas, reports, link_vars, hist_vars>>

\* Mutant: txpkt is not set to zero first.
ParsedOver ==
  /\ Complete
  /\ ~b64_to_bin_exits(msg.content.data, PAYLOAD_SIZE)
  /\ txpkt' = Decoded(txpkt.payload)
  /\ meas' = Increment("dgram_rcv")
  /\ dpc' = "check"
  /\ UNCHANGED <<token, req_ack, autoquit_cnt, elapsed, msg, jit_result, exit_sig,
                 gps_ref_valid, reports, link_vars, hist_vars>>

\* The request is counted.
Parsed ==
  /\ Complete
  /\ ~b64_to_bin_exits(msg.content.data, PAYLOAD_SIZE)
  /\ txpkt' = Decoded(NoTxpkt.payload)
  /\ meas' = Increment("dgram_rcv")
  /\ dpc' = "check"
  /\ UNCHANGED <<token, req_ack, autoquit_cnt, elapsed, msg, jit_result, exit_sig,
                 gps_ref_valid, reports, link_vars, hist_vars>>

\* Its frequency and its power are looked at, in that order.
Checked ==
  /\ dpc = "check"
  /\ IF msg.content.rest = "OK"
       THEN dpc' = "enqueue" /\ UNCHANGED <<jit_result, asked>>
       ELSE dpc' = "answer" /\ ToAnswer(msg.content.rest)
  /\ UNCHANGED <<token, req_ack, autoquit_cnt, elapsed, msg, txpkt, exit_sig, gps_ref_valid, meas,
                 reports, link_vars, pulls, answers>>

\* jit_enqueue: a request without a time is never too early.
Enqueued ==
  /\ dpc = "enqueue"
  /\ \E error \in JitError :
       /\ error = "TOO_EARLY" => msg.content.time # "imme"
       /\ ToAnswer(error)
  /\ dpc' = "requested"
  /\ UNCHANGED <<token, req_ack, autoquit_cnt, elapsed, msg, txpkt, exit_sig, gps_ref_valid, meas,
                 reports, link_vars, pulls, answers>>

Requested ==
  /\ dpc = "requested"
  /\ meas' = Increment("requested")
  /\ dpc' = "answer"
  /\ UNCHANGED <<token, req_ack, autoquit_cnt, elapsed, msg, txpkt, jit_result, exit_sig,
                 gps_ref_valid, reports, link_vars, hist_vars>>

\* What TX_ACK says, and the counter of refusals it raises.
AckError(error) == IF error = "FULL" THEN "COLLISION_PACKET" ELSE error
Refusal == [COLLISION_PACKET |-> "collision_packet", FULL |-> "collision_packet",
            COLLISION_BEACON |-> "collision_beacon",
            TOO_LATE |-> "too_late", TOO_EARLY |-> "too_early"]

\* Mutant: the token of the last PULL_DATA is sent back.
AnswerPullToken ==
  /\ dpc = "answer"
  /\ meas' = IF jit_result \in DOMAIN Refusal THEN Increment(Refusal[jit_result]) ELSE meas
  /\ answers' = Append(answers, [token |-> token, error |-> AckError(jit_result)])
  /\ Done
  /\ UNCHANGED <<token, req_ack, autoquit_cnt, elapsed, txpkt, exit_sig, gps_ref_valid, reports,
                 link_vars, pulls, asked>>

\* send_tx_ack, with the token of the request.
Answer ==
  /\ dpc = "answer"
  /\ meas' = IF jit_result \in DOMAIN Refusal THEN Increment(Refusal[jit_result]) ELSE meas
  /\ answers' = Append(answers, [token |-> msg.token, error |-> AckError(jit_result)])
  /\ Done
  /\ UNCHANGED <<token, req_ack, autoquit_cnt, elapsed, txpkt, exit_sig, gps_ref_valid, reports,
                 link_vars, pulls, asked>>

DownStep ==
  Autoquit \/ PullSend \/ PullCounted \/ ListenOver \/ Ended \/ Receive \/ Ignore \/ PullAck
  \/ GpsUnlocked \/ DataInvalid \/ Parsed \/ Checked \/ Enqueued \/ Requested \/ Answer

-----------------------------------------------------------------------------
(* main, the other threads and the client.                                 *)

\* main copies the counters and sets them back to zero.
StatCopy ==
  /\ Len(reports) < MAX_REPORTS
  /\ reports' = Append(reports, meas)
  /\ meas' = Zero
  /\ UNCHANGED <<down_vars, gps_ref_valid, link_vars, hist_vars>>

\* thread_valid.
GpsChange ==
  /\ gps_enabled
  /\ gps_ref_valid' = ~gps_ref_valid
  /\ UNCHANGED <<down_vars, meas, reports, link_vars, hist_vars>>

\* stop().
StopSignal ==
  /\ ~exit_sig
  /\ exit_sig' = TRUE
  /\ UNCHANGED <<dpc, token, req_ack, autoquit_cnt, elapsed, msg, txpkt, jit_result, gps_ref_valid,
                 meas, reports, link_vars, hist_vars>>

\* The client sends a request, something else, or an acknowledgement of a
\* PULL_DATA: late, more than once, or never.
ClientSend ==
  /\ nmsgs < MAX_MESSAGES
  /\ nmsgs' = nmsgs + 1
  /\ \E m \in Message :
       /\ m.kind = "PULL_ACK" => \E i \in DOMAIN pulls : pulls[i].token = m.token
       /\ inbox' = Append(inbox, m)
  /\ UNCHANGED <<down_vars, gps_ref_valid, meas, reports, hist_vars>>

Next == DownStep \/ StatCopy \/ GpsChange \/ StopSignal \/ ClientSend

\* thread_down is scheduled, its recv times out and time passes.
Fairness == WF_vars(DownStep)

Spec == Init /\ [][Next]_vars /\ Fairness

-----------------------------------------------------------------------------
(* Properties.                                                             *)

\* The sum of a counter over all copies, and what has not been copied yet.
Total(f) ==
  LET sum[n \in 0 .. Len(reports)] ==
        IF n = 0 THEN meas[f] ELSE sum[n - 1] + reports[n][f]
  IN  sum[Len(reports)]

\* Every request that gets as far as a decision is answered once, in order, with
\* its own token, and with no error exactly when the downlink was queued
\* (lora_pkt_fwd.c:2557; PROTOCOL.TXT, section 5.5).
AnsweredInOrder ==
  /\ Len(answers) = IF dpc \in {"requested", "answer"} THEN Len(asked) - 1 ELSE Len(asked)
  /\ \A i \in DOMAIN answers :
       /\ answers[i].token = asked[i].token
       /\ answers[i].error = "OK" <=> asked[i].result = "OK"

\* A text with padding only where it belongs: at the end of whole blocks.
Proper(text) ==
  \A i \in DOMAIN text :
    text[i] = 61 => Len(text) % 4 = 0 /\ i > Len(text) - 2 /\ text[Len(text)] = 61

\* It without the padding.
Unfilled(text) == SubSeq(text, 1, Len(text) - Cardinality({i \in DOMAIN text : text[i] = 61}))

\* What is about to be queued is the payload of the request and then zeroes, all zeroes
\* if its data has no meaning or does not fit: never anything of an earlier request,
\* however much larger than the data the size is (lora_pkt_fwd.c:2245, 2501-2504).
PayloadOwn ==
  dpc = "check" /\ Proper(msg.content.data) =>
    LET data == Unfilled(msg.content.data)
        whole == (6 * Len(data)) \div 8
        n == IF Len(data) % 4 = 1 \/ whole > PAYLOAD_SIZE THEN 0 ELSE whole
    IN  /\ n > 0 => Denotes(data, SubSeq(txpkt.payload, 1, n))
        /\ \A k \in n + 1 .. PAYLOAD_SIZE : txpkt.payload[k] = 0

\* What main prints as rates, whenever it copies the counters: the intervals are those
\* copied and the one that goes on.  The refusals and the requests, which it adds up over
\* all of them, are a proportion: no more refusals than requests.  Over all of them every
\* PULL_DATA is acknowledged at most once.  The acknowledgements and PULL_DATA it prints
\* are those of one interval, and there the rate can exceed 100%, by a single
\* acknowledgement: that of the last PULL_DATA before the interval
\* (lora_pkt_fwd.c:1336-1340, 1364, 1368-1373).
RatesBounded ==
  /\ Total("collision_packet") + Total("collision_beacon") + Total("too_late")
       + Total("too_early") <= Total("requested")
  /\ Total("ack_rcv") = Cardinality({i \in DOMAIN pulls : pulls[i].acked})
  /\ LET intervals == Append(reports, meas)
     IN  \A n \in DOMAIN intervals :
           intervals[n]["ack_rcv"] <= intervals[n]["pull_sent"] + 1

\* "the last %u PULL_DATA were not ACKed" (lora_pkt_fwd.c:2075): thread_down quits
\* by itself only then, and never sends one more.
AutoquitJustified ==
  [][dpc = "loop" /\ dpc' = "ended" /\ ~exit_sig =>
       /\ Len(pulls) >= autoquit_threshold
       /\ \A i \in Len(pulls) - autoquit_threshold + 1 .. Len(pulls) : ~pulls[i].acked]_vars

\* A server that never acknowledges makes thread_down quit, if a request with invalid
\* data has not ended it before (lora_pkt_fwd.c:2072-2077).
AutoquitHappens ==
  [](\A i \in DOMAIN pulls : ~pulls[i].acked) => <>(dpc \in {"ended", "exited"})
=============================================================================
