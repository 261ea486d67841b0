----------------------------- MODULE DownProofs -----------------------------
(***************************************************************************)
(* What Downstream guarantees for any requests, any messages of the client  *)
(* in any order, and any thresholds: every request is answered, auto-quit   *)
(* has its reason, and the counters main prints fit each other.             *)
(***************************************************************************)
EXTENDS Downstream, DataFacts, FiniteSetTheorems

-----------------------------------------------------------------------------
(* The inductive invariant.                                                *)

\* A request is being decided about; thread_down is in its loop of recv.
Deciding == dpc \in {"check", "enqueue", "requested", "answer"}
Listening == dpc \in {"listen", "handle"} \/ Deciding

MsgInv ==
  /\ dpc = "handle" => msg \in Message
  /\ Deciding => msg \in REQUESTS
  /\ dpc = "check" => msg.content.rest # "JSON"

\* The last request asked is the one still to be answered.
AnswerInv ==
  /\ AnsweredInOrder
  /\ dpc \in {"requested", "answer"} =>
       /\ asked # <<>>
       /\ asked[Len(asked)] = [token |-> msg.token, result |-> jit_result]

\* The PULL_DATA sent since the last one that was acknowledged, the one that is not
\* counted yet included.
Unacked == IF dpc = "sent" THEN autoquit_cnt + 1 ELSE autoquit_cnt

PullInv ==
  /\ Unacked <= Len(pulls)
  /\ \A i \in Len(pulls) - Unacked + 1 .. Len(pulls) : ~pulls[i].acked
  /\ Listening => Len(pulls) > 0 /\ (~req_ack => ~pulls[Len(pulls)].acked)
  /\ autoquit_threshold > 0 => Unacked <= autoquit_threshold

Acked == {i \in DOMAIN pulls : pulls[i].acked}

\* The refusals reported or counted, and the one that is about to be counted.
Refused == Total("collision_packet") + Total("collision_beacon") + Total("too_late")
             + Total("too_early")
Refusing == IF dpc = "answer" /\ jit_result \in DOMAIN Refusal THEN 1 ELSE 0

CountInv ==
  /\ Refused + Refusing <= Total("requested")
  /\ Total("ack_rcv") = Cardinality(Acked)

\* Counters that show at most one acknowledgement more than PULL_DATA.
WithinOne(counters) == counters["ack_rcv"] <= counters["pull_sent"] + 1

\* In the interval that goes on it is one more only if the last PULL_DATA, counted before,
\* was acknowledged: as long as it is not, there is room for its acknowledgement.
RateInv ==
  /\ meas["ack_rcv"] + (IF req_ack THEN 0 ELSE 1) <= meas["pull_sent"] + 1
  /\ \A n \in DOMAIN reports : WithinOne(reports[n])

\* The packet that is about to be looked at is the one of the request at hand.
PacketInv ==
  dpc = "check" => /\ txpkt = Decoded(NoTxpkt.payload)
                   /\ ~b64_to_bin_exits(msg.content.data, PAYLOAD_SIZE)

IInv == TypeOK /\ MsgInv /\ AnswerInv /\ PullInv /\ CountInv /\ RateInv /\ PacketInv

-----------------------------------------------------------------------------
(* Types.                                                                  *)

\* A request has a token, and its content the fields of one.
LEMMA RequestIs ==
  ASSUME NEW m \in REQUESTS
  PROVE  /\ m.kind = "PULL_RESP" /\ m.token \in TOKENS
         /\ m.content.rest \in {"OK", "JSON", "TX_FREQ", "TX_POWER"}
         /\ m.content.size \in Size /\ m.content.data \in Seq(Char)
BY DownConstants DEF Request, Content

\* Only a request is of the kind PULL_RESP.
LEMMA KindOfRequest ==
  ASSUME NEW m \in Message, m.kind = "PULL_RESP"
  PROVE  m \in REQUESTS
BY DEF Message, Ack, Invalid

\* What is left of a text without its padding is a text (b64_to_bin).
LEMMA UnpaddedType ==
  ASSUME NEW in \in Seq(Char)
  PROVE  Unpadded(in) \in Seq(Char)
<1> DEFINE n == Len(in)
<1>1. n \in Nat
  OBVIOUS
<1>2. CASE n % 4 # 0 \/ n < 4
  BY <1>2 DEF Unpadded
<1>3. CASE n % 4 = 0 /\ n >= 4
  <2>1. SubSeq(in, 1, n - 2) \in Seq(Char) /\ SubSeq(in, 1, n - 1) \in Seq(Char)
    BY <1>1, <1>3, SubSeqProperties
  <2> QED BY <1>1, <1>3, <2>1 DEF Unpadded
<1> QED BY <1>1, <1>2, <1>3

\* What b64_to_bin writes are bytes, whatever the text is.
LEMMA DecodedBytes ==
  ASSUME NEW in \in Seq(Char), NEW max_len \in Nat, NEW k \in Nat \ {0},
         k <= b64_to_bin(in, max_len).ret
  PROVE  b64_to_bin(in, max_len).out[k] \in Byte
<1> DEFINE text == Unpadded(in)
           n == BytesFor(Len(text))
<1>1. text \in Seq(Char)
  BY UnpaddedType
<1>2. b64_to_bin(in, max_len) =
        IF Len(text) = 0 THEN Result(0, <<>>)
        ELSE IF Len(text) % 4 = 1 \/ max_len < n THEN Failure
        ELSE Result(n, [i \in 1 .. n |-> ByteOf(Block4(text, (i - 1) \div 3), (i - 1) % 3)])
  BY DEF b64_to_bin, b64_to_bin_nopad
<1> HIDE DEF text, n
<1>3. ~(Len(text) = 0) /\ ~(Len(text) % 4 = 1 \/ max_len < n)
  BY <1>2 DEF Result, Failure
<1>4. /\ b64_to_bin(in, max_len).ret = n
      /\ b64_to_bin(in, max_len).out =
           [i \in 1 .. n |-> ByteOf(Block4(text, (i - 1) \div 3), (i - 1) % 3)]
  BY <1>2, <1>3 DEF Result
<1>5. \A i \in Int : Code(text, i) \in Int
  <2>1. ASSUME NEW i \in DOMAIN text PROVE text[i] \in Int
    <3>1. text[i] \in Char
      BY <1>1
    <3>2. Char \subseteq Int
      BY DEF Char
    <3> QED BY <3>1, <3>2
  <2>2. ASSUME NEW c \in Int PROVE char_to_code(c) \in Int
    BY DEF char_to_code
  <2> QED BY <2>1, <2>2 DEF Code
<1>6. (k - 1) \div 3 \in Int /\ (k - 1) % 3 \in {0, 1, 2}
  OBVIOUS
<1> DEFINE i == (k - 1) \div 3 j == (k - 1) % 3 b == Block4(text, i)
<1>7. b \in Int
  <2>1. i \in Int
    BY <1>6
  <2>2. ASSUME NEW w \in Int, NEW x \in Int, NEW y \in Int, NEW z \in Int
        PROVE  w * 262144 + x * 4096 + y * 64 + z \in Int
    BY SMT
  <2> HIDE DEF i
  <2>3. /\ Code(text, 4 * i + 1) \in Int /\ Code(text, 4 * i + 2) \in Int
        /\ Code(text, 4 * i + 3) \in Int /\ Code(text, 4 * i + 4) \in Int
    <3>1. 4 * i + 1 \in Int /\ 4 * i + 2 \in Int /\ 4 * i + 3 \in Int /\ 4 * i + 4 \in Int
      BY <2>1
    <3> QED BY <1>5, <3>1
  <2> QED BY <2>2, <2>3, SMT DEF Block4
<1>8. n \in Int
  <2>1. Len(text) \in Nat
    BY <1>1
  <2>2. Len(text) % 4 \in 0 .. 3 /\ Len(text) \div 4 \in Int
    BY <2>1
  <2>3. \A x \in 0 .. 3 : <<0, 0, 1, 2>>[x + 1] \in Int
    OBVIOUS
  <2> QED BY <2>2, <2>3 DEF BytesFor, n
<1>9. b64_to_bin(in, max_len).out[k] = ByteOf(b, j)
  BY <1>4, <1>8
<1>10. j \in {0, 1, 2}
  BY <1>6
<1> HIDE DEF b, j
<1>11. \A x \in Int : x % 256 \in Byte
  BY SMT DEF Byte
<1>12. ByteOf(b, j) = (b \div 65536) % 256 \/ ByteOf(b, j) = (b \div 256) % 256
         \/ ByteOf(b, j) = b % 256
  <2>1. CASE j = 0
    BY <1>7, <2>1, SMT DEF ByteOf
  <2>2. CASE j = 1
    BY <1>7, <2>2, SMT DEF ByteOf
  <2>3. CASE j = 2
    BY <1>7, <2>3, SMT DEF ByteOf
  <2> QED BY <1>10, <2>1, <2>2, <2>3
<1>13. (b \div 65536) \in Int /\ (b \div 256) \in Int
  BY <1>7, SMT
<1> QED BY <1>7, <1>9, <1>11, <1>12, <1>13, SMT

\* What is queued is a size and as many bytes as there is room for.
LEMMA DecodedType ==
  ASSUME NEW payload \in [1 .. PAYLOAD_SIZE -> Byte], msg \in REQUESTS
  PROVE  Decoded(payload) \in [size : Size, payload : [1 .. PAYLOAD_SIZE -> Byte]]
<1> DEFINE bytes == b64_to_bin(msg.content.data, PAYLOAD_SIZE)
           new == [k \in 1 .. PAYLOAD_SIZE |-> IF k <= bytes.ret THEN bytes.out[k] ELSE payload[k]]
<1>1. msg.content.size \in Size /\ msg.content.data \in Seq(Char)
  BY RequestIs
<1>2. ASSUME NEW k \in 1 .. PAYLOAD_SIZE PROVE new[k] \in Byte
  <2>1. k \in Nat \ {0} /\ PAYLOAD_SIZE \in Nat
    BY DownConstants
  <2>2. k <= bytes.ret => bytes.out[k] \in Byte
    <3> HIDE DEF bytes
    <3> SUFFICES ASSUME k <= bytes.ret PROVE bytes.out[k] \in Byte
      OBVIOUS
    <3> QED BY <1>1, <2>1, DecodedBytes DEF bytes
  <2> HIDE DEF bytes
  <2> QED BY <2>2
<1>3. new \in [1 .. PAYLOAD_SIZE -> Byte]
  <2> HIDE DEF bytes
  <2> QED BY <1>2
<1>4. Decoded(payload) = [size |-> msg.content.size, payload |-> new]
  BY DEF Decoded
<1> HIDE DEF new
<1> QED BY <1>1, <1>3, <1>4

\* memset gives a downlink of zeroes.
LEMMA NoTxpktType ==
  /\ NoTxpkt \in [size : Size, payload : [1 .. PAYLOAD_SIZE -> Byte]]
  /\ NoTxpkt.payload \in [1 .. PAYLOAD_SIZE -> Byte]
<1>1. 0 \in Size /\ 0 \in Byte
  BY DEF Size, Byte
<1> QED BY <1>1 DEF NoTxpkt

\* A counter counted is a counter.
LEMMA IncrementType ==
  ASSUME meas \in Counters, NEW f \in Fields
  PROVE  /\ Increment(f) \in Counters
         /\ \A g \in Fields : Increment(f)[g] = IF g = f THEN meas[g] + 1 ELSE meas[g]
<1>1. meas \in [Fields -> Nat]
  BY DEF Counters
<1> QED BY <1>1 DEF Counters, Increment

\* A message taken from the inbox, and the rest of it.
LEMMA InboxTaken ==
  ASSUME inbox \in Seq(Message), inbox # <<>>
  PROVE  Head(inbox) \in Message /\ Tail(inbox) \in Seq(Message)
BY HeadTailProperties

\* The last PULL_DATA is marked as acknowledged.
LEMMA MarkedType ==
  ASSUME pulls \in Seq([token : TOKENS, acked : BOOLEAN])
  PROVE  LET new == [pulls EXCEPT ![Len(pulls)].acked = TRUE]
         IN  /\ new \in Seq([token : TOKENS, acked : BOOLEAN])
             /\ Len(new) = Len(pulls) /\ DOMAIN new = DOMAIN pulls
             /\ \A i \in DOMAIN pulls :
                  new[i].acked = IF i = Len(pulls) THEN TRUE ELSE pulls[i].acked
<1> DEFINE P == [token : TOKENS, acked : BOOLEAN]
           n == Len(pulls)
           new == [i \in 1 .. n |-> IF i = n THEN [pulls[n] EXCEPT !.acked = TRUE] ELSE pulls[i]]
<1>1. n \in Nat /\ DOMAIN pulls = 1 .. n
  OBVIOUS
<1>2. ASSUME NEW i \in 1 .. n PROVE pulls[i] \in P
  <2>1. pulls \in Seq(P)
    OBVIOUS
  <2> HIDE DEF P
  <2> QED BY <2>1
<1>3. [pulls EXCEPT ![Len(pulls)].acked = TRUE] = new
  BY <1>1
<1>4. ASSUME NEW i \in 1 .. n
      PROVE  new[i] \in P /\ new[i].acked = IF i = n THEN TRUE ELSE pulls[i].acked
  BY <1>2
<1>5. DOMAIN new = 1 .. n
  OBVIOUS
<1> HIDE DEF new, P
<1>6. new = [i \in 1 .. n |-> new[i]]
  BY DEF new
<1>7. new \in Seq(P) /\ Len(new) = n
  <2>1. new \in [1 .. n -> P]
    BY <1>4, <1>6
  <2>2. new \in Seq(P)
    BY <1>1, <2>1
  <2> QED BY <1>1, <1>5, <2>2
<1> QED BY <1>1, <1>3, <1>4, <1>5, <1>7 DEF P

\* Every step keeps the types.
LEMMA TypeStep == TypeOK /\ MsgInv /\ PullInv /\ [Next]_vars => TypeOK'
<1> SUFFICES ASSUME TypeOK, MsgInv, PullInv, [Next]_vars PROVE TypeOK'
  OBVIOUS
<1> USE DEF link_vars, hist_vars, down_vars
<1>1. CASE Autoquit
  BY <1>1 DEF Autoquit, TypeOK
<1>2. CASE PullSend
  <2>1. PICK t \in TOKENS : token' = t /\ pulls' = Append(pulls, [token |-> t, acked |-> FALSE])
    BY <1>2 DEF PullSend
  <2>2. pulls' \in Seq([token : TOKENS, acked : BOOLEAN])
    BY <2>1 DEF TypeOK
  <2> QED BY <1>2, <2>1, <2>2 DEF PullSend, TypeOK
<1>3. CASE PullCounted
  <2>1. meas' \in Counters
    BY <1>3, IncrementType DEF PullCounted, TypeOK, Fields
  <2>2. autoquit_cnt' \in Nat /\ (autoquit_threshold > 0 => autoquit_cnt' <= autoquit_threshold)
    BY <1>3, DownConstants DEF PullCounted, TypeOK, PullInv, Unacked
  <2>3. elapsed' \in Int /\ dpc' = "listen"
    BY <1>3 DEF PullCounted
  <2>4. req_ack' \in BOOLEAN
    BY <1>3 DEF PullCounted
  <2> QED BY <1>3, <2>1, <2>2, <2>3, <2>4 DEF PullCounted, TypeOK
<1>4. CASE ListenOver
  BY <1>4 DEF ListenOver, TypeOK
<1>5. CASE Ended
  BY <1>5 DEF Ended, TypeOK
<1>6. CASE Receive
  <2>1. elapsed' \in Int
    BY <1>6, DownConstants DEF Receive, TypeOK
  <2>2. CASE inbox = <<>>
    BY <1>6, <2>1, <2>2 DEF Receive, TypeOK
  <2>3. CASE inbox # <<>>
    <3>1. msg' \in Message /\ inbox' \in Seq(Message)
      BY <1>6, <2>3, InboxTaken DEF Receive, TypeOK
    <3> QED BY <1>6, <2>1, <2>3, <3>1 DEF Receive, TypeOK
  <2> QED BY <2>2, <2>3
<1>7. CASE Ignore
  <2>1. txpkt' \in [size : Size, payload : [1 .. PAYLOAD_SIZE -> Byte]]
    BY <1>7, NoTxpktType DEF Ignore, TypeOK
  <2> QED BY <1>7, <2>1 DEF Ignore, Done, TypeOK, Error, JitError
<1>8. CASE PullAck
  <2>1. meas' \in Counters
    BY <1>8, IncrementType DEF PullAck, TypeOK, Fields
  <2>2. pulls' \in Seq([token : TOKENS, acked : BOOLEAN])
    BY <1>8, MarkedType DEF PullAck, TypeOK
  <2>3. autoquit_cnt' \in Nat /\ (autoquit_threshold > 0 => autoquit_cnt' <= autoquit_threshold)
    BY <1>8, DownConstants DEF PullAck, TypeOK
  <2> QED BY <1>8, <2>1, <2>2, <2>3 DEF PullAck, Done, TypeOK, Error, JitError
<1>9. CASE GpsUnlocked
  <2>1. msg \in REQUESTS
    BY <1>9, KindOfRequest DEF GpsUnlocked, MsgInv
  <2>2. asked' \in Seq([token : TOKENS, result : Error]) /\ jit_result' \in Error
    BY <1>9, <2>1, RequestIs DEF GpsUnlocked, ToAnswer, TypeOK, Error
  <2> QED BY <1>9, <2>2, NoTxpktType DEF GpsUnlocked, TypeOK
<1>10. CASE DataInvalid
  BY <1>10, NoTxpktType DEF DataInvalid, Complete, TypeOK
<1>11. CASE Parsed
  <2>1. msg \in REQUESTS
    BY <1>11, KindOfRequest DEF Parsed, Complete, MsgInv
  <2>2. txpkt' \in [size : Size, payload : [1 .. PAYLOAD_SIZE -> Byte]]
    BY <1>11, <2>1, DecodedType, NoTxpktType DEF Parsed
  <2>3. meas' \in Counters
    BY <1>11, IncrementType DEF Parsed, TypeOK, Fields
  <2> QED BY <1>11, <2>2, <2>3 DEF Parsed, Complete, TypeOK
<1>12. CASE Checked
  <2>1. msg \in REQUESTS
    BY <1>12 DEF Checked, MsgInv, Deciding
  <2>2. msg.token \in TOKENS /\ msg.content.rest \in {"OK", "TX_FREQ", "TX_POWER"}
    BY <1>12, <2>1, RequestIs DEF Checked, MsgInv
  <2>3. asked' \in Seq([token : TOKENS, result : Error]) /\ jit_result' \in Error
    <3>1. CASE msg.content.rest = "OK"
      BY <1>12, <3>1 DEF Checked, TypeOK
    <3>2. CASE msg.content.rest # "OK"
      <4>1. msg.content.rest \in Error
        BY <2>2, <3>2 DEF Error
      <4>2. /\ jit_result' = msg.content.rest
            /\ asked' = Append(asked, [token |-> msg.token, result |-> msg.content.rest])
        BY <1>12, <3>2 DEF Checked, ToAnswer
      <4>3. [token |-> msg.token, result |-> msg.content.rest] \in [token : TOKENS, result : Error]
        BY <2>2, <4>1
      <4> QED BY <4>1, <4>2, <4>3 DEF TypeOK
    <3> QED BY <3>1, <3>2
  <2> QED BY <1>12, <2>3 DEF Checked, TypeOK
<1>13. CASE Enqueued
  <2>1. msg.token \in TOKENS
    BY <1>13, RequestIs DEF Enqueued, MsgInv, Deciding
  <2>2. asked' \in Seq([token : TOKENS, result : Error]) /\ jit_result' \in Error
    BY <1>13, <2>1 DEF Enqueued, ToAnswer, TypeOK, Error
  <2> QED BY <1>13, <2>2 DEF Enqueued, TypeOK
<1>14. CASE Requested
  <2>1. meas' \in Counters
    BY <1>14, IncrementType DEF Requested, TypeOK, Fields
  <2> QED BY <1>14, <2>1 DEF Requested, TypeOK
<1>15. CASE Answer
  <2>1. meas' \in Counters
    <3>1. CASE jit_result \in DOMAIN Refusal
      <4>1. Refusal[jit_result] \in Fields
        BY <3>1 DEF Refusal, Fields
      <4> QED BY <1>15, <3>1, <4>1, IncrementType DEF Answer, TypeOK
    <3>2. CASE jit_result \notin DOMAIN Refusal
      BY <1>15, <3>2 DEF Answer, TypeOK
    <3> QED BY <3>1, <3>2
  <2>2. msg.token \in TOKENS
    BY <1>15, RequestIs DEF Answer, MsgInv, Deciding
  <2>3. AckError(jit_result) \in Error
    BY DEF TypeOK, AckError, Error, JitError
  <2>4. answers' \in Seq([token : TOKENS, error : Error])
    BY <1>15, <2>2, <2>3 DEF Answer, TypeOK
  <2> QED BY <1>15, <2>1, <2>4 DEF Answer, Done, TypeOK, Error, JitError
<1>16. CASE StatCopy
  <2>1. Zero \in Counters
    BY DEF Zero, Counters
  <2>2. reports' \in Seq(Counters)
    BY <1>16 DEF StatCopy, TypeOK
  <2> QED BY <1>16, <2>1, <2>2 DEF StatCopy, TypeOK
<1>17. CASE GpsChange
  BY <1>17 DEF GpsChange, TypeOK
<1>18. CASE StopSignal
  BY <1>18 DEF StopSignal, TypeOK
<1>19. CASE ClientSend
  <2>1. inbox' \in Seq(Message)
    BY <1>19 DEF ClientSend, TypeOK
  <2> QED BY <1>19, <2>1 DEF ClientSend, TypeOK
<1>20. CASE UNCHANGED vars
  BY <1>20 DEF vars, TypeOK
<1> QED BY <1>1, <1>2, <1>3, <1>4, <1>5, <1>6, <1>7, <1>8, <1>9, <1>10, <1>11, <1>12, <1>13,
           <1>14, <1>15, <1>16, <1>17, <1>18, <1>19, <1>20 DEF Next, DownStep

-----------------------------------------------------------------------------
(* Answers.                                                                *)

\* Every step keeps what is known of the message.
LEMMA MsgStep == TypeOK /\ MsgInv /\ [Next]_vars => MsgInv'
<1> SUFFICES ASSUME TypeOK, MsgInv, [Next]_vars PROVE MsgInv'
  OBVIOUS
<1> USE DEF link_vars, hist_vars, down_vars
<1>1. CASE Autoquit
  BY <1>1 DEF Autoquit, MsgInv, Deciding
<1>2. CASE PullSend
  BY <1>2 DEF PullSend, MsgInv, Deciding
<1>3. CASE PullCounted
  BY <1>3 DEF PullCounted, MsgInv, Deciding
<1>4. CASE ListenOver
  BY <1>4 DEF ListenOver, MsgInv, Deciding
<1>5. CASE Ended
  BY <1>5 DEF Ended, MsgInv, Deciding
<1>6. CASE Receive
  <2>1. CASE inbox = <<>>
    BY <1>6, <2>1 DEF Receive, MsgInv, Deciding
  <2>2. CASE inbox # <<>>
    BY <1>6, <2>2, InboxTaken DEF Receive, TypeOK, MsgInv, Deciding
  <2> QED BY <2>1, <2>2
<1>7. CASE Ignore
  BY <1>7 DEF Ignore, Done, MsgInv, Deciding
<1>8. CASE PullAck
  BY <1>8 DEF PullAck, Done, MsgInv, Deciding
<1>9. CASE GpsUnlocked
  <2>1. msg \in REQUESTS
    BY <1>9, KindOfRequest DEF GpsUnlocked, MsgInv
  <2> QED BY <1>9, <2>1 DEF GpsUnlocked, MsgInv, Deciding
<1>10. CASE DataInvalid
  BY <1>10 DEF DataInvalid, MsgInv, Deciding
<1>11. CASE Parsed
  <2>1. msg \in REQUESTS /\ msg.content.rest # "JSON"
    BY <1>11, KindOfRequest DEF Parsed, Complete, MsgInv
  <2> QED BY <1>11, <2>1 DEF Parsed, MsgInv, Deciding
<1>12. CASE Checked
  BY <1>12 DEF Checked, MsgInv, Deciding
<1>13. CASE Enqueued
  BY <1>13 DEF Enqueued, MsgInv, Deciding
<1>14. CASE Requested
  BY <1>14 DEF Requested, MsgInv, Deciding
<1>15. CASE Answer
  BY <1>15 DEF Answer, Done, MsgInv, Deciding
<1>16. CASE StatCopy \/ GpsChange \/ StopSignal \/ ClientSend \/ UNCHANGED vars
  BY <1>16 DEF StatCopy, GpsChange, StopSignal, ClientSend, vars, MsgInv, Deciding
<1> QED BY <1>1, <1>2, <1>3, <1>4, <1>5, <1>6, <1>7, <1>8, <1>9, <1>10, <1>11, <1>12, <1>13,
           <1>14, <1>15, <1>16 DEF Next, DownStep

\* A request that is to be answered is the last one asked, and all before it have their
\* answers (the error paths of thread_down up to send_tx_ack).
LEMMA AskedNow ==
  ASSUME TypeOK, AnswerInv, dpc \notin {"requested", "answer"},
         NEW error, msg.token \in TOKENS, error \in Error, ToAnswer(error),
         UNCHANGED <<msg, answers>>, dpc' \in {"requested", "answer"}
  PROVE  AnswerInv'
<1> DEFINE entry == [token |-> msg.token, result |-> error]
<1>1. entry \in [token : TOKENS, result : Error] /\ asked' = Append(asked, entry)
  BY DEF ToAnswer
<1> HIDE DEF entry
<1>2. asked \in Seq([token : TOKENS, result : Error]) /\ answers \in Seq([token : TOKENS, error : Error])
  BY DEF TypeOK
<1>3. /\ Len(asked') = Len(asked) + 1 /\ asked'[Len(asked')] = entry
      /\ \A i \in 1 .. Len(asked) : asked'[i] = asked[i]
      /\ Len(asked) \in Nat /\ asked' # <<>>
  BY <1>1, <1>2
<1>4. Len(answers) = Len(asked) /\ DOMAIN answers = 1 .. Len(asked)
  BY <1>2 DEF AnswerInv, AnsweredInOrder
<1>5. Len(answers') = Len(asked') - 1
  BY <1>3, <1>4
<1>6. ASSUME NEW i \in DOMAIN answers'
      PROVE  /\ answers'[i].token = asked'[i].token
             /\ answers'[i].error = "OK" <=> asked'[i].result = "OK"
  BY <1>3, <1>4 DEF AnswerInv, AnsweredInOrder
<1>7. AnsweredInOrder'
  BY <1>5, <1>6 DEF AnsweredInOrder
<1>8. asked'[Len(asked')] = [token |-> msg'.token, result |-> jit_result']
  BY <1>3 DEF entry, ToAnswer
<1> QED BY <1>3, <1>7, <1>8 DEF AnswerInv

\* send_tx_ack answers the last request asked.
LEMMA AnswerKeeps == TypeOK /\ MsgInv /\ AnswerInv /\ Answer => AnswerInv'
<1> SUFFICES ASSUME TypeOK, MsgInv, AnswerInv, Answer PROVE AnswerInv'
  OBVIOUS
<1> DEFINE entry == [token |-> msg.token, error |-> AckError(jit_result)]
           n == Len(asked)
<1>1. msg.token \in TOKENS
  BY RequestIs DEF Answer, MsgInv, Deciding
<1>2. AckError(jit_result) \in Error
  BY DEF TypeOK, AckError, Error, JitError
<1>3. entry \in [token : TOKENS, error : Error] /\ answers' = Append(answers, entry)
  BY <1>1, <1>2 DEF Answer
<1>4. asked \in Seq([token : TOKENS, result : Error]) /\ answers \in Seq([token : TOKENS, error : Error])
  BY DEF TypeOK
<1>5. /\ n \in Nat /\ asked # <<>> /\ Len(answers) = n - 1
      /\ asked[n].token = msg.token /\ asked[n].result = jit_result
  BY <1>4 DEF AnswerInv, AnsweredInOrder, Answer
<1>6. entry.token = msg.token /\ (entry.error = "OK" <=> jit_result = "OK")
  BY DEF AckError
<1> HIDE DEF entry
<1>7. /\ Len(answers') = n /\ answers'[n] = entry /\ DOMAIN answers' = 1 .. n
      /\ \A i \in 1 .. n - 1 : answers'[i] = answers[i]
  BY <1>3, <1>4, <1>5
<1>8. ASSUME NEW i \in 1 .. n
      PROVE  /\ answers'[i].token = asked[i].token
             /\ answers'[i].error = "OK" <=> asked[i].result = "OK"
  <2>1. CASE i = n
    BY <1>5, <1>6, <1>7, <2>1
  <2>2. CASE i # n
    <3>1. i \in 1 .. n - 1 /\ i \in DOMAIN answers
      BY <1>4, <1>5, <2>2
    <3> QED BY <1>7, <3>1 DEF AnswerInv, AnsweredInOrder
  <2> QED BY <2>1, <2>2
<1>9. asked' = asked /\ dpc' = "listen"
  BY DEF Answer, Done
<1> QED BY <1>7, <1>8, <1>9 DEF AnswerInv, AnsweredInOrder

\* Every step keeps the order of the answers.
LEMMA AnswerStep == TypeOK /\ MsgInv /\ AnswerInv /\ [Next]_vars => AnswerInv'
<1> SUFFICES ASSUME TypeOK, MsgInv, AnswerInv, [Next]_vars PROVE AnswerInv'
  OBVIOUS
<1> USE DEF link_vars, hist_vars, down_vars
<1>1. CASE GpsUnlocked
  <2>1. msg.token \in TOKENS
    BY <1>1, KindOfRequest, RequestIs DEF GpsUnlocked, MsgInv
  <2>2. "GPS_UNLOCKED" \in Error
    BY DEF Error
  <2> QED BY <1>1, <2>1, <2>2, AskedNow DEF GpsUnlocked
<1>2. CASE Checked
  <2>1. msg.token \in TOKENS /\ msg.content.rest \in {"OK", "TX_FREQ", "TX_POWER"}
    BY <1>2, RequestIs DEF Checked, MsgInv, Deciding
  <2>2. CASE msg.content.rest = "OK"
    BY <1>2, <2>2 DEF Checked, AnswerInv, AnsweredInOrder
  <2>3. CASE msg.content.rest # "OK"
    <3>1. msg.content.rest \in Error
      BY <2>1, <2>3 DEF Error
    <3> QED BY <1>2, <2>1, <2>3, <3>1, AskedNow DEF Checked
  <2> QED BY <2>2, <2>3
<1>3. CASE Enqueued
  <2>1. msg.token \in TOKENS
    BY <1>3, RequestIs DEF Enqueued, MsgInv, Deciding
  <2>2. PICK error \in JitError : ToAnswer(error)
    BY <1>3 DEF Enqueued
  <2>3. error \in Error
    BY DEF Error
  <2> QED BY <1>3, <2>1, <2>2, <2>3, AskedNow DEF Enqueued
<1>4. CASE Requested
  BY <1>4 DEF Requested, AnswerInv, AnsweredInOrder
<1>5. CASE Answer
  BY <1>5, AnswerKeeps
<1>6. ASSUME UNCHANGED <<asked, answers>>, dpc \notin {"requested", "answer"},
             dpc' \notin {"requested", "answer"}
      PROVE  AnswerInv'
  BY <1>6 DEF AnswerInv, AnsweredInOrder
<1>7. CASE Autoquit \/ PullSend \/ PullCounted \/ ListenOver \/ Ended
  BY <1>6, <1>7 DEF Autoquit, PullSend, PullCounted, ListenOver, Ended
<1>8. CASE Receive \/ Ignore \/ PullAck \/ DataInvalid \/ Parsed
  BY <1>6, <1>8 DEF Receive, Ignore, PullAck, DataInvalid, Parsed, Complete, Done
<1>9. CASE StatCopy \/ GpsChange \/ StopSignal \/ ClientSend \/ UNCHANGED vars
  BY <1>9 DEF StatCopy, GpsChange, StopSignal, ClientSend, vars, AnswerInv, AnsweredInOrder
<1> QED BY <1>1, <1>2, <1>3, <1>4, <1>5, <1>7, <1>8, <1>9 DEF Next, DownStep

-----------------------------------------------------------------------------
(* Auto-quit.                                                              *)

\* Every step keeps the count of the PULL_DATA that are not acknowledged.
LEMMA PullStep == TypeOK /\ PullInv /\ [Next]_vars => PullInv'
<1> SUFFICES ASSUME TypeOK, PullInv, [Next]_vars PROVE PullInv'
  OBVIOUS
<1> USE DEF link_vars, hist_vars, down_vars
<1>0. /\ Len(pulls) \in Nat /\ DOMAIN pulls = 1 .. Len(pulls)
      /\ autoquit_cnt \in Nat /\ autoquit_threshold \in Nat
  BY DownConstants DEF TypeOK
<1>1. CASE PullSend
  <2>1. PICK t \in TOKENS : pulls' = Append(pulls, [token |-> t, acked |-> FALSE])
    BY <1>1 DEF PullSend
  <2> DEFINE entry == [token |-> t, acked |-> FALSE]
             n == Len(pulls)
  <2>2. entry \in [token : TOKENS, acked : BOOLEAN] /\ ~entry.acked
    OBVIOUS
  <2> HIDE DEF entry
  <2>3. /\ Len(pulls') = n + 1 /\ pulls'[n + 1] = entry
        /\ \A i \in 1 .. n : pulls'[i] = pulls[i]
    BY <2>1, <2>2 DEF TypeOK, entry
  <2>4. Unacked' = autoquit_cnt + 1 /\ Unacked = autoquit_cnt
    BY <1>1 DEF PullSend, Unacked
  <2>5. ASSUME NEW i \in n + 1 - (autoquit_cnt + 1) + 1 .. n + 1 PROVE ~pulls'[i].acked
    <3>1. CASE i = n + 1
      BY <2>2, <2>3, <3>1
    <3>2. CASE i # n + 1
      <4>1. i \in n - autoquit_cnt + 1 .. n /\ autoquit_cnt <= n
        BY <1>0, <2>4, <3>2 DEF PullInv
      <4>2. i \in 1 .. n
        BY <1>0, <4>1
      <4> QED BY <2>3, <2>4, <4>1, <4>2 DEF PullInv
    <3> QED BY <3>1, <3>2
  <2>6. Len(pulls') - Unacked' + 1 = n + 1 - (autoquit_cnt + 1) + 1
    BY <2>3, <2>4
  <2>7. Unacked' <= Len(pulls')
    BY <1>0, <2>3, <2>4 DEF PullInv
  <2>8. autoquit_threshold > 0 => Unacked' <= autoquit_threshold
    BY <1>0, <1>1, <2>4 DEF PullSend
  <2>9. ~Listening'
    BY <1>1 DEF PullSend, Listening, Deciding
  <2> QED BY <2>3, <2>5, <2>6, <2>7, <2>8, <2>9 DEF PullInv
<1>2. CASE PullCounted
  <2>1. Unacked' = autoquit_cnt + 1 /\ Unacked = autoquit_cnt + 1 /\ pulls' = pulls
    BY <1>2 DEF PullCounted, Unacked
  <2>2. Len(pulls) > 0 /\ ~pulls[Len(pulls)].acked
    <3>1. Len(pulls) \in Len(pulls) - Unacked + 1 .. Len(pulls) /\ Len(pulls) > 0
      BY <1>0, <2>1 DEF PullInv
    <3> QED BY <3>1 DEF PullInv
  <2> QED BY <2>1, <2>2 DEF PullInv
<1>3. CASE PullAck
  <2>1. Unacked = autoquit_cnt /\ Unacked' = autoquit_cnt' /\ Listening /\ Listening'
    BY <1>3 DEF PullAck, Done, Unacked, Listening
  <2>2. CASE msg.token = token /\ ~req_ack
    <3>1. autoquit_cnt' = 0 /\ req_ack'
      BY <1>3, <2>2 DEF PullAck
    <3>2. Len(pulls') = Len(pulls)
      BY <1>3, <2>2, MarkedType DEF PullAck, TypeOK
    <3>3. \A i \in Len(pulls') - 0 + 1 .. Len(pulls') : ~pulls'[i].acked
      BY <1>0, <3>2
    <3> QED BY <1>0, <2>1, <3>1, <3>2, <3>3 DEF PullInv
  <2>3. CASE ~(msg.token = token /\ ~req_ack)
    <3>1. UNCHANGED <<req_ack, autoquit_cnt, pulls>>
      BY <1>3, <2>3 DEF PullAck
    <3> QED BY <2>1, <3>1 DEF PullInv
  <2> QED BY <2>2, <2>3
<1>4. ASSUME UNCHANGED <<req_ack, autoquit_cnt, pulls>>, dpc # "sent", dpc' # "sent",
             Listening' => Listening
      PROVE  PullInv'
  BY <1>4 DEF PullInv, Unacked
<1>5. CASE Autoquit \/ ListenOver \/ Ended
  BY <1>4, <1>5 DEF Autoquit, ListenOver, Ended, Listening, Deciding
<1>6. CASE Receive \/ Ignore
  BY <1>4, <1>6 DEF Receive, Ignore, Done, Listening, Deciding
<1>7. CASE GpsUnlocked \/ DataInvalid \/ Parsed
  BY <1>4, <1>7 DEF GpsUnlocked, DataInvalid, Parsed, Complete, Listening, Deciding
<1>8. CASE Checked \/ Enqueued \/ Requested \/ Answer
  BY <1>4, <1>8 DEF Checked, Enqueued, Requested, Answer, Done, Listening, Deciding
<1>9. CASE StatCopy \/ GpsChange \/ StopSignal \/ ClientSend \/ UNCHANGED vars
  <2>1. UNCHANGED <<req_ack, autoquit_cnt, pulls, dpc>>
    BY <1>9 DEF StatCopy, GpsChange, StopSignal, ClientSend, vars
  <2> QED BY <2>1 DEF PullInv, Unacked, Listening, Deciding
<1> QED BY <1>1, <1>2, <1>3, <1>5, <1>6, <1>7, <1>8, <1>9 DEF Next, DownStep

-----------------------------------------------------------------------------
(* The counters.                                                           *)

\* Reports and counters have the fields of Counters.
LEMMA ReportsAre ==
  ASSUME TypeOK, NEW f \in Fields
  PROVE  /\ \A c \in Counters : c[f] \in Int
         /\ meas[f] \in Int
         /\ reports \in Seq(Counters) /\ Len(reports) \in Nat
         /\ \A k \in 1 .. Len(reports) : reports[k][f] \in Int
<1>1. \A c \in Counters : c[f] \in Int
  BY DEF Counters
<1>2. meas \in Counters /\ reports \in Seq(Counters)
  BY DEF TypeOK
<1>3. \A k \in 1 .. Len(reports) : reports[k] \in Counters
  BY <1>2
<1> QED BY <1>1, <1>2, <1>3

\* A total is a sum over the reports, now and after a step.
LEMMA TotalIs ==
  ASSUME NEW f
  PROVE  /\ Total(f) = FieldSum(reports, meas[f], f)
         /\ Total(f)' = FieldSum(reports', meas'[f], f)
BY DEF Total, FieldSum

\* The totals are numbers.
LEMMA TotalType == TypeOK => \A f \in Fields : Total(f) \in Int
<1> SUFFICES ASSUME TypeOK, NEW f \in Fields PROVE Total(f) \in Int
  OBVIOUS
<1> QED BY ReportsAre, SumType, TotalIs

\* A counter counted raises its total by one and leaves the others.
LEMMA TotalStep ==
  ASSUME TypeOK, NEW g \in Fields, meas' = Increment(g), reports' = reports
  PROVE  \A f \in Fields : Total(f)' = IF f = g THEN Total(f) + 1 ELSE Total(f)
<1> SUFFICES ASSUME NEW f \in Fields
             PROVE  Total(f)' = IF f = g THEN Total(f) + 1 ELSE Total(f)
  OBVIOUS
<1>1. meas'[f] = IF f = g THEN meas[f] + 1 ELSE meas[f]
  BY IncrementType DEF TypeOK
<1>2. FieldSum(reports, meas[f] + 1, f) = FieldSum(reports, meas[f], f) + 1
  BY ReportsAre, SumShift
<1> QED BY <1>1, <1>2, TotalIs

\* main's copying and resetting keeps the totals.
LEMMA TotalCopied ==
  ASSUME TypeOK, StatCopy
  PROVE  \A f \in Fields : Total(f)' = Total(f)
<1> SUFFICES ASSUME NEW f \in Fields PROVE Total(f)' = Total(f)
  OBVIOUS
<1>1. reports' = Append(reports, meas) /\ meas'[f] = 0
  BY DEF StatCopy, Zero
<1>2. FieldSum(Append(reports, meas), 0, f) = FieldSum(reports, meas[f], f)
  <2>1. meas \in Counters
    BY DEF TypeOK
  <2> QED BY <2>1, ReportsAre, SumMoved
<1> QED BY <1>1, <1>2, TotalIs

\* Without a change of counters and reports the totals stay.
LEMMA TotalKept ==
  ASSUME UNCHANGED <<meas, reports>>
  PROVE  \A f \in Fields : Total(f)' = Total(f)
BY TotalIs

\* The first acknowledgement of the last PULL_DATA is one more.
LEMMA AckedOneMore ==
  ASSUME TypeOK, Len(pulls) > 0, ~pulls[Len(pulls)].acked,
         pulls' = [pulls EXCEPT ![Len(pulls)].acked = TRUE]
  PROVE  Cardinality(Acked') = Cardinality(Acked) + 1
<1> DEFINE n == Len(pulls)
<1>1. n \in Nat /\ DOMAIN pulls = 1 .. n
  BY DEF TypeOK
<1>2. /\ DOMAIN pulls' = DOMAIN pulls
      /\ \A i \in DOMAIN pulls : pulls'[i].acked = IF i = n THEN TRUE ELSE pulls[i].acked
  BY MarkedType DEF TypeOK
<1>3. Acked' = Acked \cup {n}
  BY <1>1, <1>2 DEF Acked
<1>4. n \notin Acked
  BY DEF Acked
<1>5. IsFiniteSet(Acked)
  <2>1. IsFiniteSet(1 .. n)
    <3>1. 1 \in Int /\ n \in Int
      BY <1>1
    <3> HIDE DEF n
    <3> QED BY <3>1, FS_Interval
  <2>2. Acked \in SUBSET (1 .. n)
    BY <1>1 DEF Acked
  <2> QED BY <2>1, <2>2, FS_Subset
<1> QED BY <1>3, <1>4, <1>5, FS_AddElement

\* Unacknowledged or not, a PULL_DATA just sent is not acknowledged yet.
LEMMA AckedSame ==
  ASSUME TypeOK, NEW t \in TOKENS, pulls' = Append(pulls, [token |-> t, acked |-> FALSE])
  PROVE  Acked' = Acked
<1> DEFINE n == Len(pulls)
<1>1. n \in Nat /\ DOMAIN pulls = 1 .. n
  BY DEF TypeOK
<1>2. /\ DOMAIN pulls' = 1 .. n + 1 /\ ~pulls'[n + 1].acked
      /\ \A i \in 1 .. n : pulls'[i] = pulls[i]
  BY DEF TypeOK
<1>3. \A i \in 1 .. n + 1 : i \in 1 .. n \/ i = n + 1
  BY <1>1
<1>4. \A i \in 1 .. n : i \in 1 .. n + 1
  BY <1>1
<1> HIDE DEF n
<1> QED BY <1>1, <1>2, <1>3, <1>4 DEF Acked

\* The counters CountInv is about.
LEMMA FieldsAre ==
  /\ "pull_sent" \in Fields /\ "ack_rcv" \in Fields /\ "dgram_rcv" \in Fields
  /\ "requested" \in Fields /\ "collision_packet" \in Fields
  /\ "collision_beacon" \in Fields /\ "too_late" \in Fields /\ "too_early" \in Fields
BY DEF Fields

\* The invariant stays where its totals stay and no refusal is about to be counted.
LEMMA CountSame ==
  ASSUME CountInv, \A f \in Fields : Total(f)' = Total(f), Acked' = Acked, TypeOK,
         Refusing' = 0 \/ Refusing' = Refusing
  PROVE  CountInv'
<1>1. Refusing \in {0, 1}
  BY DEF Refusing
<1>2. Refused' = Refused
  BY FieldsAre DEF Refused
<1>3. Refused \in Int /\ Total("requested") \in Int
  BY FieldsAre, TotalType DEF Refused
<1>4. Total("requested")' = Total("requested") /\ Total("ack_rcv")' = Total("ack_rcv")
  BY FieldsAre
<1>5. Refused' + Refusing' <= Total("requested")'
  <2>1. Refused + Refusing' <= Total("requested")
    <3>1. PICK r \in {0, 1} : r = Refusing'
      BY <1>1
    <3>2. Refused + r <= Total("requested")
      BY <1>1, <1>3, <3>1 DEF CountInv
    <3> QED BY <3>1, <3>2
  <2> QED BY <1>2, <1>4, <2>1
<1>6. Cardinality(Acked') = Cardinality(Acked)
  OBVIOUS
<1> QED BY <1>4, <1>5, <1>6 DEF CountInv

\* A counter that is neither of requests nor of refusals nor of acknowledgements is of no
\* consequence.
LEMMA CountOther ==
  ASSUME TypeOK, CountInv, NEW g \in {"pull_sent", "dgram_rcv"}, meas' = Increment(g),
         reports' = reports, pulls' = pulls, dpc' # "answer"
  PROVE  CountInv'
<1>1. \A f \in Fields : Total(f)' = IF f = g THEN Total(f) + 1 ELSE Total(f)
  BY FieldsAre, TotalStep
<1>2. /\ Total("requested")' = Total("requested") /\ Total("ack_rcv")' = Total("ack_rcv")
      /\ Refused' = Refused
  BY <1>1, FieldsAre DEF Refused
<1>3. Refusing' = 0 /\ Refusing \in {0, 1} /\ Acked' = Acked
  BY DEF Refusing, Acked
<1>4. Refused \in Int /\ Total("requested") \in Int
  BY FieldsAre, TotalType DEF Refused
<1>5. Refused + 0 <= Total("requested")
  BY <1>3, <1>4 DEF CountInv
<1>6. Refused' + Refusing' <= Total("requested")'
  BY <1>2, <1>3, <1>5
<1>7. Cardinality(Acked') = Cardinality(Acked)
  BY <1>3
<1> QED BY <1>2, <1>6, <1>7 DEF CountInv

\* A request counted makes room for its refusal.
LEMMA CountRequested == TypeOK /\ CountInv /\ Requested => CountInv'
<1> SUFFICES ASSUME TypeOK, CountInv, Requested PROVE CountInv'
  OBVIOUS
<1>1. \A f \in Fields : Total(f)' = IF f = "requested" THEN Total(f) + 1 ELSE Total(f)
  BY FieldsAre, TotalStep DEF Requested
<1>2. /\ Total("requested")' = Total("requested") + 1 /\ Total("ack_rcv")' = Total("ack_rcv")
      /\ Refused' = Refused
  BY <1>1, FieldsAre DEF Refused
<1>3. Refusing = 0 /\ Acked' = Acked
  BY DEF Refusing, Acked, Requested, hist_vars
<1>4. Refused \in Int /\ Total("requested") \in Int
  BY FieldsAre, TotalType DEF Refused
<1>5. PICK r \in {0, 1} : r = Refusing'
  BY DEF Refusing
<1>6. Refused + r <= Total("requested") + 1
  BY <1>3, <1>4 DEF CountInv
<1>7. Refused' + Refusing' <= Total("requested")'
  BY <1>2, <1>5, <1>6
<1>8. Cardinality(Acked') = Cardinality(Acked)
  BY <1>3
<1> QED BY <1>2, <1>7, <1>8 DEF CountInv

\* A refusal counted is one that was about to be.
LEMMA CountAnswer == TypeOK /\ CountInv /\ Answer => CountInv'
<1> SUFFICES ASSUME TypeOK, CountInv, Answer PROVE CountInv'
  OBVIOUS
<1>1. Refusing' = 0 /\ Acked' = Acked /\ reports' = reports /\ dpc = "answer"
  BY DEF Answer, Done, Refusing, Acked
<1>2. CASE jit_result \notin DOMAIN Refusal
  <2>1. meas' = meas
    BY <1>2 DEF Answer
  <2> QED BY <1>1, <2>1, TotalKept, CountSame
<1>3. CASE jit_result \in DOMAIN Refusal
  <2> DEFINE g == Refusal[jit_result]
  <2>1. g \in {"collision_packet", "collision_beacon", "too_late", "too_early"}
    BY <1>3 DEF Refusal
  <2>2. meas' = Increment(g) /\ Refusing = 1
    BY <1>1, <1>3 DEF Answer, Refusing
  <2> HIDE DEF g
  <2>3. \A f \in Fields : Total(f)' = IF f = g THEN Total(f) + 1 ELSE Total(f)
    BY <1>1, <2>1, <2>2, FieldsAre, TotalStep
  <2>4. \A f \in Fields : Total(f) \in Int
    BY TotalType
  <2>5. Refused' = Refused + 1
    <3>1. CASE g = "collision_packet"
      BY <2>3, <2>4, <3>1, FieldsAre DEF Refused
    <3>2. CASE g = "collision_beacon"
      BY <2>3, <2>4, <3>2, FieldsAre DEF Refused
    <3>3. CASE g = "too_late"
      BY <2>3, <2>4, <3>3, FieldsAre DEF Refused
    <3>4. CASE g = "too_early"
      BY <2>3, <2>4, <3>4, FieldsAre DEF Refused
    <3> QED BY <2>1, <3>1, <3>2, <3>3, <3>4
  <2>6. Total("requested")' = Total("requested") /\ Total("ack_rcv")' = Total("ack_rcv")
    BY <2>1, <2>3, FieldsAre
  <2>7. Refused \in Int
    BY <2>4, FieldsAre DEF Refused
  <2>8. (Refused + 1) + 0 <= Total("requested")
    BY <2>2, <2>7 DEF CountInv
  <2>9. Refused' + Refusing' <= Total("requested")'
    BY <1>1, <2>5, <2>6, <2>8
  <2>10. Cardinality(Acked') = Cardinality(Acked)
    BY <1>1
  <2> QED BY <2>6, <2>9, <2>10 DEF CountInv
<1> QED BY <1>2, <1>3

\* An acknowledgement counted is that of a PULL_DATA that had none.
LEMMA CountAck == TypeOK /\ PullInv /\ CountInv /\ PullAck => CountInv'
<1> SUFFICES ASSUME TypeOK, PullInv, CountInv, PullAck PROVE CountInv'
  OBVIOUS
<1>1. Refusing' = 0 /\ Refusing = 0 /\ reports' = reports
  BY DEF PullAck, Done, Refusing
<1>2. CASE msg.token = token /\ ~req_ack
  <2>1. /\ meas' = Increment("ack_rcv")
        /\ pulls' = [pulls EXCEPT ![Len(pulls)].acked = TRUE]
    BY <1>2 DEF PullAck
  <2>2. Len(pulls) > 0 /\ ~pulls[Len(pulls)].acked
    BY <1>2 DEF PullInv, PullAck, Listening
  <2>3. Cardinality(Acked') = Cardinality(Acked) + 1
    BY <2>1, <2>2, AckedOneMore
  <2>4. \A f \in Fields : Total(f)' = IF f = "ack_rcv" THEN Total(f) + 1 ELSE Total(f)
    BY <1>1, <2>1, FieldsAre, TotalStep
  <2>5. /\ Total("ack_rcv")' = Total("ack_rcv") + 1 /\ Total("requested")' = Total("requested")
        /\ Refused' = Refused
    BY <2>4, FieldsAre DEF Refused
  <2> QED BY <1>1, <2>3, <2>5 DEF CountInv
<1>3. CASE ~(msg.token = token /\ ~req_ack)
  <2>1. meas' = meas /\ Acked' = Acked
    BY <1>3 DEF PullAck, Acked
  <2> QED BY <1>1, <2>1, TotalKept, CountSame
<1> QED BY <1>2, <1>3

\* Every step keeps the totals in their relation.
LEMMA CountStep == TypeOK /\ MsgInv /\ PullInv /\ CountInv /\ [Next]_vars => CountInv'
<1> SUFFICES ASSUME TypeOK, MsgInv, PullInv, CountInv, [Next]_vars PROVE CountInv'
  OBVIOUS
<1> USE DEF link_vars, hist_vars, down_vars
<1>1. CASE PullSend
  <2>1. Acked' = Acked /\ \A f \in Fields : Total(f)' = Total(f)
    BY <1>1, AckedSame, TotalKept DEF PullSend
  <2>2. Refusing' = 0
    BY <1>1 DEF PullSend, Refusing
  <2> QED BY <2>1, <2>2, CountSame
<1>2. CASE PullCounted
  BY <1>2, CountOther DEF PullCounted
<1>3. CASE PullAck
  BY <1>3, CountAck
<1>4. CASE Parsed
  BY <1>4, CountOther DEF Parsed, Complete
<1>5. CASE Requested
  BY <1>5, CountRequested
<1>6. CASE Answer
  BY <1>6, CountAnswer
<1>7. CASE StatCopy
  <2>1. Acked' = Acked /\ Refusing' = Refusing
    BY <1>7 DEF StatCopy, Acked, Refusing
  <2> QED BY <1>7, <2>1, TotalCopied, CountSame
<1>8. ASSUME UNCHANGED <<meas, reports, pulls>>,
             Refusing' = 0 \/ Refusing' = Refusing
      PROVE  CountInv'
  <2>1. Acked' = Acked
    BY <1>8 DEF Acked
  <2> QED BY <1>8, <2>1, TotalKept, CountSame
<1>9. CASE GpsUnlocked
  BY <1>8, <1>9 DEF GpsUnlocked, ToAnswer, Refusing, Refusal
<1>10. CASE Checked
  <2>1. Refusing' = 0
    <3>1. msg.content.rest \in {"OK", "TX_FREQ", "TX_POWER"}
      BY <1>10, RequestIs DEF Checked, MsgInv, Deciding
    <3> QED BY <1>10, <3>1 DEF Checked, ToAnswer, Refusing, Refusal
  <2> QED BY <1>8, <1>10, <2>1 DEF Checked
<1>11. CASE Enqueued
  BY <1>8, <1>11 DEF Enqueued, Refusing
<1>12. CASE Autoquit \/ ListenOver \/ Ended
  BY <1>8, <1>12 DEF Autoquit, ListenOver, Ended, Refusing
<1>13. CASE Receive \/ Ignore \/ DataInvalid
  BY <1>8, <1>13 DEF Receive, Ignore, Done, DataInvalid, Complete, Refusing
<1>14. CASE GpsChange \/ StopSignal \/ ClientSend \/ UNCHANGED vars
  <2>1. UNCHANGED <<meas, reports, pulls, dpc, jit_result>>
    BY <1>14 DEF GpsChange, StopSignal, ClientSend, vars
  <2> QED BY <1>8, <2>1 DEF Refusing
<1> QED BY <1>1, <1>2, <1>3, <1>4, <1>5, <1>6, <1>7, <1>9, <1>10, <1>11, <1>12, <1>13, <1>14
     DEF Next, DownStep

\* Every step keeps the acknowledgements of an interval within one of its PULL_DATA.
LEMMA RateStep == TypeOK /\ RateInv /\ [Next]_vars => RateInv'
<1> SUFFICES ASSUME TypeOK, RateInv, [Next]_vars PROVE RateInv'
  OBVIOUS
<1> USE DEF link_vars, hist_vars, down_vars
<1>1. /\ meas["ack_rcv"] \in Nat /\ meas["pull_sent"] \in Nat /\ req_ack \in BOOLEAN
      /\ meas \in Counters
  BY FieldsAre DEF TypeOK, Counters
<1>2. meas["ack_rcv"] + (IF req_ack THEN 0 ELSE 1) <= meas["pull_sent"] + 1
  BY DEF RateInv
<1>3. ASSUME NEW g \in Fields
      PROVE  /\ Increment(g)["ack_rcv"] = IF g = "ack_rcv" THEN meas["ack_rcv"] + 1
                                                          ELSE meas["ack_rcv"]
             /\ Increment(g)["pull_sent"] = IF g = "pull_sent" THEN meas["pull_sent"] + 1
                                                              ELSE meas["pull_sent"]
  BY <1>1, FieldsAre, IncrementType
<1>4. ASSUME reports' = reports,
             meas'["ack_rcv"] + (IF req_ack' THEN 0 ELSE 1) <= meas'["pull_sent"] + 1
      PROVE  RateInv'
  BY <1>4 DEF RateInv, WithinOne
<1>5. ASSUME NEW g \in Fields \ {"ack_rcv", "pull_sent"}, meas' = Increment(g) \/ meas' = meas,
             UNCHANGED <<reports, req_ack>>
      PROVE  RateInv'
  BY <1>2, <1>3, <1>4, <1>5
<1>6. CASE PullCounted
  <2>1. meas' = Increment("pull_sent") /\ req_ack' = FALSE /\ reports' = reports
    BY <1>6 DEF PullCounted
  <2>2. meas'["ack_rcv"] = meas["ack_rcv"] /\ meas'["pull_sent"] = meas["pull_sent"] + 1
    BY <1>3, <2>1, FieldsAre
  <2> QED BY <1>1, <1>2, <1>4, <2>1, <2>2
<1>7. CASE PullAck
  <2>1. CASE msg.token = token /\ ~req_ack
    <3>1. meas' = Increment("ack_rcv") /\ req_ack' = TRUE /\ reports' = reports
      BY <1>7, <2>1 DEF PullAck
    <3>2. meas'["ack_rcv"] = meas["ack_rcv"] + 1 /\ meas'["pull_sent"] = meas["pull_sent"]
      BY <1>3, <3>1, FieldsAre
    <3> QED BY <1>1, <1>2, <1>4, <2>1, <3>1, <3>2
  <2>2. CASE ~(msg.token = token /\ ~req_ack)
    BY <1>2, <1>4, <1>7, <2>2 DEF PullAck
  <2> QED BY <2>1, <2>2
<1>8. CASE StatCopy
  <2>1. reports' = Append(reports, meas) /\ meas' = Zero /\ req_ack' = req_ack
    BY <1>8 DEF StatCopy
  <2>2. WithinOne(meas)
    BY <1>1, <1>2 DEF WithinOne
  <2>3. \A n \in DOMAIN reports' : WithinOne(reports'[n])
    <3>1. reports \in Seq(Counters)
      BY DEF TypeOK
    <3>2. TAKE n \in DOMAIN reports'
    <3>3. CASE n \in DOMAIN reports
      BY <1>1, <2>1, <3>1, <3>3 DEF RateInv
    <3>4. CASE n = Len(reports) + 1
      BY <1>1, <2>1, <2>2, <3>1, <3>4
    <3> QED BY <1>1, <2>1, <3>1, <3>2, <3>3, <3>4
  <2>4. meas'["ack_rcv"] = 0 /\ meas'["pull_sent"] = 0
    BY <2>1, FieldsAre DEF Zero
  <2> QED BY <1>1, <2>1, <2>3, <2>4 DEF RateInv
<1>9. CASE Parsed
  BY <1>5, <1>9, FieldsAre DEF Parsed, Complete
<1>10. CASE Requested
  BY <1>5, <1>10, FieldsAre DEF Requested
<1>11. CASE Answer
  <2>1. \A e \in DOMAIN Refusal : Refusal[e] \in Fields \ {"ack_rcv", "pull_sent"}
    BY DEF Refusal, Fields
  <2>2. "requested" \in Fields \ {"ack_rcv", "pull_sent"}
    BY FieldsAre
  <2>3. UNCHANGED <<reports, req_ack>>
    BY <1>11 DEF Answer
  <2>4. CASE jit_result \in DOMAIN Refusal
    BY <1>5, <1>11, <2>1, <2>3, <2>4 DEF Answer
  <2>5. CASE jit_result \notin DOMAIN Refusal
    BY <1>5, <1>11, <2>2, <2>3, <2>5 DEF Answer
  <2> QED BY <2>4, <2>5
<1>12. ASSUME UNCHANGED <<meas, reports, req_ack>> PROVE RateInv'
  BY <1>2, <1>4, <1>12
<1>13. CASE Autoquit \/ PullSend \/ ListenOver \/ Ended \/ Receive \/ Ignore
  BY <1>12, <1>13 DEF Autoquit, PullSend, ListenOver, Ended, Receive, Ignore, Done
<1>14. CASE GpsUnlocked \/ DataInvalid \/ Checked \/ Enqueued
  BY <1>12, <1>14 DEF GpsUnlocked, DataInvalid, Checked, Enqueued
<1>15. CASE GpsChange \/ StopSignal \/ ClientSend \/ UNCHANGED vars
  BY <1>12, <1>15 DEF GpsChange, StopSignal, ClientSend, vars
<1> QED BY <1>6, <1>7, <1>8, <1>9, <1>10, <1>11, <1>13, <1>14, <1>15 DEF Next, DownStep

\* Every step keeps the packet with its request.
LEMMA PacketStep == PacketInv /\ [Next]_vars => PacketInv'
<1> SUFFICES ASSUME PacketInv, [Next]_vars PROVE PacketInv'
  OBVIOUS
<1>1. CASE Parsed
  <2>1. /\ txpkt' = Decoded(NoTxpkt.payload) /\ msg' = msg
        /\ ~b64_to_bin_exits(msg.content.data, PAYLOAD_SIZE)
    BY <1>1 DEF Parsed
  <2>2. Decoded(NoTxpkt.payload)' = Decoded(NoTxpkt.payload)
    BY <2>1 DEF Decoded, NoTxpkt
  <2> QED BY <2>1, <2>2 DEF PacketInv
<1>2. CASE Autoquit \/ PullSend \/ PullCounted \/ ListenOver \/ Ended \/ Receive
  BY <1>2 DEF PacketInv, Autoquit, PullSend, PullCounted, ListenOver, Ended, Receive
<1>3. CASE Ignore \/ PullAck \/ GpsUnlocked \/ DataInvalid
  BY <1>3 DEF PacketInv, Ignore, PullAck, Done, GpsUnlocked, DataInvalid
<1>4. CASE Checked \/ Enqueued \/ Requested \/ Answer
  BY <1>4 DEF PacketInv, Checked, Enqueued, Requested, Answer, Done
<1>5. CASE StatCopy \/ GpsChange \/ StopSignal \/ ClientSend \/ UNCHANGED vars
  <2>1. dpc' = dpc /\ msg' = msg /\ txpkt' = txpkt
    BY <1>5 DEF StatCopy, GpsChange, StopSignal, ClientSend, vars, down_vars
  <2>2. Decoded(NoTxpkt.payload)' = Decoded(NoTxpkt.payload)
    BY <2>1 DEF Decoded, NoTxpkt
  <2> QED BY <2>1, <2>2 DEF PacketInv
<1> QED BY <1>1, <1>2, <1>3, <1>4, <1>5 DEF Next, DownStep

-----------------------------------------------------------------------------
(* The payload of a request.                                               *)

\* Of a proper text b64_to_bin takes off the padding, all of it and nothing else.
LEMMA UnfilledIs ==
  ASSUME NEW text \in Seq(Char), Proper(text)
  PROVE  Unfilled(text) = Unpadded(text)
<1> DEFINE n == Len(text)
           pads == {i \in DOMAIN text : text[i] = 61}
<1>1. n \in Nat /\ DOMAIN text = 1 .. n
  OBVIOUS
<1>2. Unfilled(text) = SubSeq(text, 1, n - Cardinality(pads))
  BY DEF Unfilled
<1>3. SubSeq(text, 1, n) = text
  OBVIOUS
<1>4. CASE n % 4 # 0 \/ n < 4
  <2>1. n % 4 = 0 => n = 0
    BY <1>1, <1>4
  <2>2. pads = {}
    BY <1>1, <2>1 DEF Proper
  <2>3. Cardinality(pads) = 0
    BY <2>2, FS_EmptySet
  <2>4. n - 0 = n
    BY <1>1
  <2>5. Unpadded(text) = text
    BY <1>4 DEF Unpadded
  <2> HIDE DEF n, pads
  <2> QED BY <1>2, <1>3, <2>3, <2>4, <2>5
<1>5. CASE n % 4 = 0 /\ n >= 4
  <2>1. \A i \in 1 .. n : text[i] = 61 => i > n - 2 /\ text[n] = 61
    BY Zenon, <1>1 DEF Proper
  <2>2. pads = {i \in 1 .. n : text[i] = 61}
    BY Zenon, <1>1
  <2> HIDE DEF n, pads
  <2>3. n - 1 \in 1 .. n /\ n \in 1 .. n /\ n - 1 # n
    BY <1>1, <1>5
  <2>4. \A i \in 1 .. n : text[i] = 61 => (i = n - 1 \/ i = n) /\ text[n] = 61
    <3>1. \A i \in 1 .. n : i > n - 2 => i = n - 1 \/ i = n
      BY <1>1
    <3> QED BY Zenon, <2>1, <3>1
  <2>5. CASE text[n - 1] = 61
    <3>1. text[n] = 61
      BY <2>3, <2>4, <2>5
    <3>2. pads = {n - 1, n}
      BY Zenon, <2>2, <2>3, <2>4, <2>5, <3>1
    <3>3. Cardinality(pads) = 2
      <4>1. Cardinality({n - 1}) = 1 /\ IsFiniteSet({n - 1})
        BY FS_Singleton
      <4>2. Cardinality({n - 1} \cup {n}) = Cardinality({n - 1}) + 1
        <5>1. n \notin {n - 1}
          BY <2>3
        <5> QED BY Zenon, <4>1, <5>1, FS_AddElement
      <4>3. {n - 1} \cup {n} = {n - 1, n}
        OBVIOUS
      <4>4. Cardinality({n - 1} \cup {n}) = 2
        <5>1. 1 + 1 = 2
          OBVIOUS
        <5>2. Cardinality({n - 1} \cup {n}) = 1 + 1
          BY Zenon, <4>1, <4>2
        <5> QED BY Zenon, <5>1, <5>2
      <4> QED BY Zenon, <3>2, <4>3, <4>4
    <3>4. Unpadded(text) = SubSeq(text, 1, n - 2)
      BY <1>5, <2>5 DEF Unpadded, code_pad, n
    <3> HIDE DEF n, pads
    <3> QED BY <1>2, <3>3, <3>4
  <2>6. CASE text[n - 1] # 61 /\ text[n] = 61
    <3>1. pads = {n}
      <4>1. \A i \in 1 .. n : text[i] = 61 <=> i = n
        BY Zenon, <2>3, <2>4, <2>6
      <4> QED BY <2>2, <2>3, <4>1
    <3>2. Cardinality(pads) = 1
      BY <3>1, FS_Singleton
    <3>3. Unpadded(text) = SubSeq(text, 1, n - 1)
      BY <1>5, <2>6 DEF Unpadded, code_pad, n
    <3> HIDE DEF n, pads
    <3> QED BY <1>2, <3>2, <3>3
  <2>7. CASE text[n - 1] # 61 /\ text[n] # 61
    <3>1. pads = {}
      BY Zenon, <2>2, <2>4, <2>7
    <3>2. Cardinality(pads) = 0
      BY <3>1, FS_EmptySet
    <3>3. n - 0 = n
      BY <1>1
    <3>4. Unpadded(text) = text
      BY <1>5, <2>7 DEF Unpadded, code_pad, n
    <3> HIDE DEF n, pads
    <3> QED BY <1>2, <1>3, <3>2, <3>3, <3>4
  <2> QED BY <2>5, <2>6, <2>7
<1> QED BY <1>1, <1>4, <1>5

\* What b64_to_bin_nopad gives of a text it does not end in exit on: as many bytes as the
\* text has whole ones, if these fit and the text has a meaning, and no byte otherwise.
LEMMA ReadIs ==
  ASSUME NEW data \in Seq(Char), NEW room \in Nat, ~Exits(data, room)
  PROVE  LET read == b64_to_bin_nopad(data, room)
             whole == (6 * Len(data)) \div 8
             n == IF Len(data) % 4 = 1 \/ whole > room THEN 0 ELSE whole
         IN  /\ n \in Nat /\ n <= room
             /\ n = 0 => read.ret \in {-1, 0}
             /\ n > 0 => /\ read.ret = n /\ Denotes(data, read.out)
                         /\ read.out = [k \in 1 .. n |-> read.out[k]]
<1> DEFINE m == Len(data)
           read == b64_to_bin_nopad(data, room)
           whole == (6 * m) \div 8
           n == IF m % 4 = 1 \/ whole > room THEN 0 ELSE whole
<1>1. m \in Nat
  OBVIOUS
<1>2. whole \in Nat /\ BytesFor(m) = whole
  <2>1. BytesFor(m) \in Nat /\ BytesFor(m) = (6 * m) \div 8
    BY Zenon, <1>1, WholeBytes
  <2> QED BY <2>1
<1>3. n \in Nat /\ n <= room
  BY <1>2
<1>4. CASE n > 0
  <2>1. m % 4 # 1 /\ ~(whole > room) /\ n = whole /\ m # 0
    BY <1>1, <1>2, <1>4
  <2>2. BytesFor(m) <= room
    BY <1>2, <2>1
  <2>3. data \in Seq(CodeChar)
    <3>1. \A k \in DOMAIN data : data[k] \in CodeChar
      BY Zenon, <2>1, <2>2 DEF Exits
    <3> QED BY <3>1
  <2>4. read.ret = whole /\ Denotes(data, read.out)
    BY Zenon, <2>1, <2>2, <2>3, DataRead
  <2>5. read = Result(BytesFor(m), [k \in 1 .. BytesFor(m) |->
                                      ByteOf(Block4(data, (k - 1) \div 3), (k - 1) % 3)])
    <3>1. ~(m % 4 = 1 \/ room < BytesFor(m))
      BY <1>2, <2>1
    <3> QED BY Zenon, <2>1, <3>1 DEF b64_to_bin_nopad
  <2>6. read.out = [k \in 1 .. n |-> read.out[k]]
    <3> DEFINE byte(k) == ByteOf(Block4(data, (k - 1) \div 3), (k - 1) % 3)
    <3>1. read.out = [k \in 1 .. BytesFor(m) |-> byte(k)]
      <4> HIDE DEF byte
      <4> QED BY <2>5 DEF Result, byte
    <3> HIDE DEF byte, n, whole
    <3> QED BY <1>2, <2>1, <3>1
  <2> HIDE DEF n, whole
  <2> QED BY <1>3, <1>4, <2>1, <2>4, <2>6 DEF n, whole
<1>5. CASE n = 0
  <2>1. CASE m = 0
    <3>1. read.ret = 0
      BY <2>1 DEF b64_to_bin_nopad, Result
    <3> QED BY <1>3, <1>5, <3>1
  <2>2. CASE m # 0 /\ (m % 4 = 1 \/ room < BytesFor(m))
    <3>1. read.ret = -1
      BY <2>2 DEF b64_to_bin_nopad, Result, Failure
    <3> QED BY <1>3, <1>5, <3>1
  <2>3. CASE m # 0 /\ ~(m % 4 = 1 \/ room < BytesFor(m))
    <3>1. read.ret = BytesFor(m)
      BY <2>3 DEF b64_to_bin_nopad, Result
    <3>2. BytesFor(m) = 0
      BY <1>2, <1>5, <2>3
    <3> QED BY <1>3, <1>5, <3>1, <3>2
  <2> QED BY <2>1, <2>2, <2>3
<1> QED BY <1>3, <1>4, <1>5

-----------------------------------------------------------------------------
(* The theorems.                                                           *)

\* The invariant holds when thread_down starts.
LEMMA InitIInv == Init => IInv
<1> SUFFICES ASSUME Init PROVE IInv
  OBVIOUS
<1>1. TypeOK
  <2>1. Zero \in Counters
    BY DEF Zero, Counters
  <2>2. token \in TOKENS
    BY DownConstants DEF Init
  <2>3. autoquit_cnt \in Nat /\ (autoquit_threshold > 0 => autoquit_cnt <= autoquit_threshold)
    BY DownConstants DEF Init
  <2>4. req_ack \in BOOLEAN /\ exit_sig \in BOOLEAN /\ gps_ref_valid \in BOOLEAN
    BY DEF Init
  <2>5. /\ inbox \in Seq(Message) /\ reports \in Seq(Counters)
        /\ pulls \in Seq([token : TOKENS, acked : BOOLEAN])
        /\ asked \in Seq([token : TOKENS, result : Error])
        /\ answers \in Seq([token : TOKENS, error : Error])
    BY DEF Init
  <2>6. jit_result \in Error
    BY DEF Init, Error, JitError
  <2>7. /\ dpc = "loop" /\ elapsed = 0 /\ msg = NoMessage /\ txpkt = NoTxpkt /\ meas = Zero
        /\ nmsgs = 0
    BY DEF Init
  <2> QED BY <2>1, <2>2, <2>3, <2>4, <2>5, <2>6, <2>7, NoTxpktType DEF TypeOK
<1>2. MsgInv /\ AnswerInv
  BY DEF Init, MsgInv, Deciding, AnswerInv, AnsweredInOrder
<1>3. PullInv
  <2>1. Unacked = 0 /\ Len(pulls) = 0 /\ ~Listening
    BY DEF Init, Unacked, Listening, Deciding
  <2> QED BY <2>1, DownConstants DEF PullInv
<1>4. CountInv
  <2>1. ASSUME NEW f \in Fields PROVE Total(f) = 0
    <3> DEFINE g == [k \in 0 .. 0 |-> 0]
    <3>1. Sums(g, reports, 0, f, 0) /\ Len(reports) = 0 /\ g[0] = 0
      BY DEF Init, Sums
    <3>2. FieldSum(reports, 0, f) = g[0]
      <4> HIDE DEF g
      <4> QED BY <3>1, SumIs
    <3> QED BY <3>1, <3>2, TotalIs DEF Init, Zero
  <2>2. Refusing = 0 /\ Acked = {}
    BY DEF Init, Refusing, Acked
  <2>3. Refused = 0 /\ Total("requested") = 0 /\ Total("ack_rcv") = 0
    BY <2>1, FieldsAre DEF Refused
  <2> QED BY <2>2, <2>3, FS_EmptySet DEF CountInv
<1>5. RateInv
  BY FieldsAre DEF Init, RateInv, Zero
<1>6. PacketInv
  BY DEF Init, PacketInv
<1> QED BY <1>1, <1>2, <1>3, <1>4, <1>5, <1>6 DEF IInv

\* The invariant holds in every state of thread_down, main and the client.
THEOREM DownInvariance == Spec => []IInv
<1>1. IInv /\ [Next]_vars => IInv'
  BY TypeStep, MsgStep, AnswerStep, PullStep, CountStep, RateStep, PacketStep DEF IInv
<1> QED BY InitIInv, <1>1, PTL DEF Spec

\* The variables of thread_down and of main's copies keep their types; whatever text a
\* request has, no payload is longer than the room for it (lora_pkt_fwd.c:2026-2571).
THEOREM TypeCorrect == Spec => []TypeOK
<1>1. IInv => TypeOK
  BY DEF IInv
<1> QED BY DownInvariance, <1>1, PTL

\* Every request is answered once, in order, with its own token, and without an error
\* exactly when its downlink was queued, for every client (lora_pkt_fwd.c:2557).
THEOREM RequestsAnswered == Spec => []AnsweredInOrder
<1>1. IInv => AnsweredInOrder
  BY DEF IInv, AnswerInv
<1> QED BY DownInvariance, <1>1, PTL

\* However often main copies the counters and whichever acknowledgements come twice or
\* late: over all intervals no more refusals than requests and no PULL_DATA acknowledged
\* twice, and in each interval at most one acknowledgement more than PULL_DATA
\* (lora_pkt_fwd.c:1336-1340, 1364, 1368-1373).
THEOREM RatesSound == Spec => []RatesBounded
<1>1. IInv => RatesBounded
  <2> SUFFICES ASSUME IInv PROVE RatesBounded
    OBVIOUS
  <2>1. Refused \in Int /\ Total("requested") \in Int
    BY FieldsAre, TotalType DEF Refused, IInv
  <2>2. Refusing \in {0, 1}
    BY DEF Refusing
  <2>3. Refused <= Total("requested")
    BY <2>1, <2>2 DEF IInv, CountInv
  <2>4. WithinOne(meas)
    BY FieldsAre DEF IInv, RateInv, WithinOne, TypeOK, Counters
  <2>5. DEFINE intervals == Append(reports, meas)
  <2>6. ASSUME NEW n \in DOMAIN intervals
        PROVE  intervals[n]["ack_rcv"] <= intervals[n]["pull_sent"] + 1
    <3>1. reports \in Seq(Counters) /\ meas \in Counters
      BY DEF IInv, TypeOK
    <3>2. \/ n \in DOMAIN reports /\ intervals[n] = reports[n]
          \/ n = Len(reports) + 1 /\ intervals[n] = meas
      BY <2>6, <3>1
    <3> QED BY <2>4, <3>2 DEF IInv, RateInv, WithinOne
  <2> QED BY <2>3, <2>6 DEF RatesBounded, Refused, IInv, CountInv, Acked
<1> QED BY DownInvariance, <1>1, PTL

\* thread_down quits by itself only when as many PULL_DATA as the threshold says, the
\* last ones, were not acknowledged (lora_pkt_fwd.c:2072-2077).
THEOREM AutoquitEarned == Spec => AutoquitJustified
<1> DEFINE Quit == dpc = "loop" /\ dpc' = "ended" /\ ~exit_sig
           Reason == /\ Len(pulls) >= autoquit_threshold
                     /\ \A i \in Len(pulls) - autoquit_threshold + 1 .. Len(pulls) : ~pulls[i].acked
<1>1. ASSUME IInv, [Next]_vars, Quit PROVE Reason
  <2>1. Autoquit
    <3>1. CASE DownStep
      <4>1. dpc = "loop" /\ dpc' = "ended" /\ ~exit_sig
        BY <1>1
      <4>2. ~PullSend /\ ~PullCounted /\ ~ListenOver /\ ~Ended /\ ~Receive /\ ~Ignore
        BY <4>1 DEF PullSend, PullCounted, ListenOver, Ended, Receive, Ignore
      <4>3. ~PullAck /\ ~GpsUnlocked /\ ~DataInvalid /\ ~Parsed /\ ~Checked
        BY <4>1 DEF PullAck, GpsUnlocked, DataInvalid, Parsed, Complete, Checked
      <4>4. ~Enqueued /\ ~Requested /\ ~Answer
        BY <4>1 DEF Enqueued, Requested, Answer
      <4> QED BY <3>1, <4>2, <4>3, <4>4 DEF DownStep
    <3>2. CASE StatCopy \/ GpsChange \/ StopSignal \/ ClientSend \/ UNCHANGED vars
      <4>1. dpc' = dpc
        BY <3>2 DEF StatCopy, GpsChange, StopSignal, ClientSend, vars, down_vars
      <4> QED BY <1>1, <4>1
    <3> QED BY <1>1, <3>1, <3>2 DEF Next
  <2>2. /\ autoquit_threshold > 0 /\ autoquit_cnt >= autoquit_threshold
        /\ Unacked = autoquit_cnt
    BY <2>1 DEF Autoquit, Unacked
  <2>3. /\ Len(pulls) \in Nat /\ autoquit_cnt \in Nat /\ autoquit_threshold \in Nat
        /\ autoquit_cnt <= Len(pulls)
        /\ \A i \in Len(pulls) - autoquit_cnt + 1 .. Len(pulls) : ~pulls[i].acked
    BY <1>1, <2>2, DownConstants DEF IInv, TypeOK, PullInv
  <2>4. ASSUME NEW i \in Len(pulls) - autoquit_threshold + 1 .. Len(pulls) PROVE ~pulls[i].acked
    <3>1. i \in Len(pulls) - autoquit_cnt + 1 .. Len(pulls)
      BY <2>2, <2>3
    <3> QED BY <2>3, <3>1
  <2> QED BY <2>2, <2>3, <2>4
<1>2. IInv /\ [Next]_vars => [Quit => Reason]_vars
  BY <1>1
<1> HIDE DEF Quit, Reason
<1>3. Spec => [][Quit => Reason]_vars
  BY DownInvariance, <1>2, PTL DEF Spec
<1> QED BY <1>3 DEF AutoquitJustified, Quit, Reason

\* What is about to be queued is what the text of the request says by RFC 4648 and then
\* zeroes, for requests of any size with data of any length, and never anything of a request
\* before it (lora_pkt_fwd.c:2245, 2501-2504).
THEOREM PayloadsOwn == Spec => []PayloadOwn
<1>1. IInv => PayloadOwn
  <2> DEFINE text == msg.content.data
             data == Unfilled(text)
             whole == (6 * Len(data)) \div 8
             n == IF Len(data) % 4 = 1 \/ whole > PAYLOAD_SIZE THEN 0 ELSE whole
             read == b64_to_bin_nopad(data, PAYLOAD_SIZE)
             payload == txpkt.payload
  <2> SUFFICES ASSUME IInv, dpc = "check", Proper(text)
               PROVE  /\ n > 0 => Denotes(data, SubSeq(payload, 1, n))
                      /\ \A k \in n + 1 .. PAYLOAD_SIZE : payload[k] = 0
    BY Zenon DEF PayloadOwn
  <2>1. text \in Seq(Char) /\ PAYLOAD_SIZE \in Nat
    BY RequestIs, DownConstants DEF IInv, MsgInv, Deciding
  <2>2. data = Unpadded(text)
    BY Zenon, <2>1, UnfilledIs
  <2>3. data \in Seq(Char)
    BY Zenon, <2>1, <2>2, UnpaddedType
  <2>4. ~Exits(data, PAYLOAD_SIZE)
    BY Zenon, <2>2 DEF IInv, PacketInv, b64_to_bin_exits
  <2>5. payload = [k \in 1 .. PAYLOAD_SIZE |-> IF k <= read.ret THEN read.out[k] ELSE 0]
    <3>1. read = b64_to_bin(text, PAYLOAD_SIZE)
      BY Zenon, <2>2 DEF b64_to_bin
    <3> HIDE DEF read, text
    <3>2. payload = [k \in 1 .. PAYLOAD_SIZE |->
                       IF k <= read.ret THEN read.out[k] ELSE NoTxpkt.payload[k]]
      BY <3>1 DEF IInv, PacketInv, Decoded, text
    <3>3. \A k \in 1 .. PAYLOAD_SIZE : NoTxpkt.payload[k] = 0
      BY DEF NoTxpkt
    <3> HIDE DEF payload
    <3> QED BY <3>2, <3>3
  <2>6. /\ n \in Nat /\ n <= PAYLOAD_SIZE
        /\ n = 0 => read.ret \in {-1, 0}
        /\ n > 0 => /\ read.ret = n /\ Denotes(data, read.out)
                    /\ read.out = [k \in 1 .. n |-> read.out[k]]
    BY <2>1, <2>3, <2>4, ReadIs
  <2> HIDE DEF text, data, whole, n, read, payload
  <2>7. ASSUME NEW k \in n + 1 .. PAYLOAD_SIZE PROVE payload[k] = 0
    <3>1. k \in 1 .. PAYLOAD_SIZE /\ ~(k <= n) /\ ~(k <= 0) /\ ~(k <= -1)
      BY <2>1, <2>6
    <3>2. ~(k <= read.ret)
      BY <2>6, <3>1
    <3> QED BY <2>5, <3>1, <3>2
  <2>8. ASSUME n > 0 PROVE Denotes(data, SubSeq(payload, 1, n))
    <3>1. SubSeq(payload, 1, n) = [k \in 1 .. n |-> payload[k]]
      <4>1. payload \in Seq({payload[k] : k \in 1 .. PAYLOAD_SIZE}) /\ Len(payload) = PAYLOAD_SIZE
        BY <2>1, <2>5
      <4> QED BY <2>6, <4>1, <2>1
    <3>2. \A k \in 1 .. n : payload[k] = read.out[k]
      <4>1. \A k \in 1 .. n : k \in 1 .. PAYLOAD_SIZE /\ k <= read.ret
        BY <2>1, <2>6, <2>8
      <4> QED BY Zenon, <2>5, <4>1
    <3>3. SubSeq(payload, 1, n) = read.out
      BY <2>6, <2>8, <3>1, <3>2
    <3> QED BY Zenon, <2>6, <2>8, <3>3
  <2> QED BY <2>7, <2>8
<1> QED BY DownInvariance, <1>1, PTL
=============================================================================
