------------------------------ MODULE UpProofs ------------------------------
(***************************************************************************)
(* What Upstream guarantees for any packets, any reports and any            *)
(* acknowledgements of the client: the reports account for every packet and *)
(* datagram, and packets and reports are sent once and in order.            *)
(***************************************************************************)
EXTENDS Upstream, DataFacts, FiniteSetTheorems

-----------------------------------------------------------------------------
(* The inductive invariant.                                                *)

\* The packets at hand are in the datagram being composed; a datagram is composed.
Composing == upc \in {"count", "pack", "report", "send"}

\* A packet is composed only while there is one, and counted only as part of a datagram.
PacketsInv ==
  /\ Len(received) <= MAX_PACKETS
  /\ upc \in {"report", "send"} => counted = Len(received)
  /\ upc = "pack" => counted > 0 /\ received[counted] \in FORWARDED
  /\ upc = "meas" => sent # <<>>

\* thread_up holds the mutex exactly while it waits, and the counters fit each other
\* at any time, one datagram ahead of its acknowledgement.
Awaited == IF upc = "ack" THEN 1 ELSE 0
MeasInv ==
  /\ mx_meas_up = "up" <=> upc = "ack"
  /\ meas.ack + Awaited <= meas.dgrams
  /\ meas.fwd <= meas.rcv
  /\ meas.ok + meas.bad + meas.nocrc <= meas.rcv

\* The number of the report in status_report.
Current == IF mpc = "report" THEN Len(reports) - 1 ELSE Len(reports)

\* A report that is ready is newer than all that were sent, and only thread_up takes it.
ReportInv ==
  /\ mpc = "report" => Len(reports) > 0
  /\ report_ready => Current > 0
  /\ upc \in {"count", "pack"} /\ send_report => report_ready
  /\ upc = "report" => report_ready
  /\ upc \in {"count", "pack", "report"} => dgram.report = 0
  /\ \A d \in DOMAIN sent : sent[d].report <= Current /\ (report_ready => sent[d].report < Current)
  /\ upc = "send" =>
       /\ dgram.report <= Current /\ (report_ready => dgram.report < Current)
       /\ dgram.report # 0 => \A d \in DOMAIN sent : sent[d].report < dgram.report
  /\ ReportsOnce

\* The packets of a list are in order, are among the first n, and passed the filter; their
\* text is that of their payload.
Rightful(pkts, n, crcs) ==
  /\ \A k \in DOMAIN pkts :
       /\ pkts[k].pkt \in 1 .. n /\ crcs[pkts[k].pkt] \in FORWARDED
       /\ pkts[k].data = bin_to_b64(PAYLOAD[pkts[k].pkt], 341).out
  /\ \A k, l \in DOMAIN pkts : k < l => pkts[k].pkt < pkts[l].pkt
  /\ Len(pkts) <= n

\* The packets of one list come before those of another.
Before(pkts, later) ==
  \A k \in DOMAIN pkts, l \in DOMAIN later : pkts[k].pkt < later[l].pkt

\* Packet i is in a list, or in a datagram that was sent.
In(i, pkts) == \E k \in DOMAIN pkts : pkts[k].pkt = i
Sent(i) == \E d \in DOMAIN sent : In(i, sent[d].pkts)

SentInv ==
  /\ \A d \in DOMAIN sent : Rightful(sent[d].pkts, counted, received)
                          /\ (sent[d].pkts # <<>> \/ sent[d].report # 0)
  /\ \A d, e \in DOMAIN sent : d < e => Before(sent[d].pkts, sent[e].pkts)

DgramInv ==
  /\ Composing => /\ Rightful(dgram.pkts, counted, received)
                  /\ \A d \in DOMAIN sent : Before(sent[d].pkts, dgram.pkts)
  /\ upc = "pack" =>
       /\ Len(dgram.pkts) < counted
       /\ \A k \in DOMAIN dgram.pkts : dgram.pkts[k].pkt < counted
       /\ \A d \in DOMAIN sent : \A k \in DOMAIN sent[d].pkts : sent[d].pkts[k].pkt < counted
  /\ upc = "send" => dgram.pkts # <<>> \/ dgram.report # 0

\* No packet that passed the filter is missing.
KeptInv ==
  upc # "exited" =>
    \A i \in 1 .. counted :
      received[i] \in FORWARDED =>
        \/ Sent(i)
        \/ Composing /\ In(i, dgram.pkts)
        \/ upc = "pack" /\ i = counted

IInv == /\ TypeOK /\ PacketsInv /\ MeasInv /\ AddUp /\ ReportConsistent
        /\ ReportInv /\ SentInv /\ DgramInv /\ KeptInv

-----------------------------------------------------------------------------
(* Types.                                                                  *)

Status == CrcStatus \cup {"UNKNOWN"}

\* What bin_to_b64 writes is text.
LEMMA TextType ==
  ASSUME NEW in \in Seq(Byte), Len(in) <= 255
  PROVE  bin_to_b64(in, 341).out \in Seq(Char)
<1> DEFINE n == Len(in)
           c == CharsFor(n)
           nopad == bin_to_b64_nopad(in, 341)
           full == 4 * ((n + 2) \div 3)
           pads == <<0, 0, 2, 1>>[(nopad.ret % 4) + 1]
<1>1. n \in Nat /\ n <= 255
  OBVIOUS
<1>4. bin_to_b64(in, 341) =
        IF nopad.ret = -1 \/ nopad.ret % 4 = 0 THEN nopad
        ELSE IF 341 >= nopad.ret + pads + 1
               THEN Result(nopad.ret + pads, nopad.out \o Padding(pads)) ELSE Failure
  BY DEF bin_to_b64
<1>2. CASE n = 0
  <2>1. nopad = Result(0, <<>>)
    BY <1>2 DEF bin_to_b64_nopad
  <2>2. nopad.ret = 0 /\ nopad.out = <<>> /\ 0 % 4 = 0
    BY <2>1 DEF Result
  <2>3. bin_to_b64(in, 341) = nopad
    <3>1. nopad.ret % 4 = 0
      BY <2>2
    <3> HIDE DEF nopad, pads
    <3> QED BY <1>4, <2>2, <3>1
  <2>4. <<>> \in Seq(Char)
    OBVIOUS
  <2> HIDE DEF nopad
  <2> QED BY <2>2, <2>3, <2>4
<1>3. CASE n > 0
  <2>1. /\ c \in Nat /\ c <= full /\ c % 4 \in {0, 2, 3}
        /\ c % 4 = 0 => c = full
        /\ c % 4 = 2 => c + 2 = full
        /\ c % 4 = 3 => c + 1 = full
    BY <1>1, CharsBlocks
  <2>2. full <= 340
    BY <1>1
  <2> HIDE DEF full
  <2>3. nopad.out \in Seq(CodeChar) /\ nopad.ret = c
    <3>1. 341 >= c + 1 /\ 341 \in Nat
      BY <2>1, <2>2
    <3> QED BY <1>3, <3>1, TextCodes
  <2>4. CodeChar \subseteq Char /\ code_pad \in Char
    BY DEF CodeChar, Char, code_62, code_63, code_pad
  <2>5. nopad.out \in Seq(Char)
    BY <2>3, <2>4
  <2>6. CASE c % 4 = 0
    <3>1. bin_to_b64(in, 341) = nopad
      BY <2>3, <2>6 DEF bin_to_b64
    <3> QED BY <2>5, <3>1
  <2>7. ASSUME NEW k \in {1, 2} PROVE nopad.out \o Padding(k) \in Seq(Char)
    <3>1. Padding(k) \in [1 .. k -> Char] /\ k \in Nat
      BY <2>4 DEF Padding
    <3>2. Padding(k) \in Seq(Char)
      BY <3>1
    <3> QED BY <2>5, <3>2, ConcatProperties
  <2>8. CASE c % 4 = 2
    <3>1. c + 3 <= 341
      BY <2>1, <2>2, <2>8
    <3>2. bin_to_b64(in, 341).out = nopad.out \o Padding(2)
      <4>1. pads = 2
        BY <2>3, <2>8, PadsIs
      <4> HIDE DEF nopad, pads, c
      <4> QED BY <1>4, <2>1, <2>3, <2>8, <3>1, <4>1 DEF Result
    <3> QED BY <2>7, <3>2
  <2>9. CASE c % 4 = 3
    <3>1. c + 2 <= 341
      BY <2>1, <2>2, <2>9
    <3>2. bin_to_b64(in, 341).out = nopad.out \o Padding(1)
      <4>1. pads = 1
        BY <2>3, <2>9, PadsIs
      <4> HIDE DEF nopad, pads, c
      <4> QED BY <1>4, <2>1, <2>3, <2>9, <3>1, <4>1 DEF Result
    <3> QED BY <2>7, <3>2
  <2> QED BY <2>1, <2>6, <2>8, <2>9
<1> QED BY <1>1, <1>2, <1>3

\* The counters after a packet (the filter of thread_up).
LEMMA CountedIs ==
  ASSUME NEW c \in Counters, NEW crc
  PROVE  LET n == Counted(c, crc)
         IN  /\ n \in Counters
             /\ n.rcv = c.rcv + 1 /\ n.dgrams = c.dgrams /\ n.ack = c.ack
             /\ n.ok = IF crc = "OK" THEN c.ok + 1 ELSE c.ok
             /\ n.bad = IF crc = "BAD" THEN c.bad + 1 ELSE c.bad
             /\ n.nocrc = IF crc = "NOCRC" THEN c.nocrc + 1 ELSE c.nocrc
             /\ n.fwd = IF crc \in FORWARDED THEN c.fwd + 1 ELSE c.fwd
<1> DEFINE new == [rcv |-> c.rcv + 1,
                   ok |-> IF crc = "OK" THEN c.ok + 1 ELSE c.ok,
                   bad |-> IF crc = "BAD" THEN c.bad + 1 ELSE c.bad,
                   nocrc |-> IF crc = "NOCRC" THEN c.nocrc + 1 ELSE c.nocrc,
                   fwd |-> IF crc \in FORWARDED THEN c.fwd + 1 ELSE c.fwd,
                   dgrams |-> c.dgrams, ack |-> c.ack]
<1>1. /\ c.rcv \in Nat /\ c.ok \in Nat /\ c.bad \in Nat /\ c.nocrc \in Nat /\ c.fwd \in Nat
      /\ c.dgrams \in Nat /\ c.ack \in Nat
  BY DEF Counters
<1>2. Counted(c, crc) = new
  <2>1. c = [rcv |-> c.rcv, ok |-> c.ok, bad |-> c.bad, nocrc |-> c.nocrc, fwd |-> c.fwd,
             dgrams |-> c.dgrams, ack |-> c.ack]
    BY DEF Counters
  <2>2. DOMAIN c = {"rcv", "ok", "bad", "nocrc", "fwd", "dgrams", "ack"}
    BY <2>1
  <2>3. DOMAIN Counted(c, crc) = DOMAIN c /\ DOMAIN new = DOMAIN c
    BY <2>2 DEF Counted
  <2>4. /\ Counted(c, crc).rcv = new.rcv /\ Counted(c, crc).ok = new.ok
        /\ Counted(c, crc).bad = new.bad /\ Counted(c, crc).nocrc = new.nocrc
        /\ Counted(c, crc).fwd = new.fwd /\ Counted(c, crc).dgrams = new.dgrams
        /\ Counted(c, crc).ack = new.ack
    BY <2>2 DEF Counted
  <2> QED BY <2>1, <2>2, <2>3, <2>4 DEF Counted
<1>3. new \in Counters
  BY <1>1 DEF Counters
<1> QED BY <1>2, <1>3

\* The counters after a datagram, and after an acknowledgement.
LEMMA RaisedType ==
  ASSUME NEW c \in Counters
  PROVE  [c EXCEPT !.dgrams = @ + 1] \in Counters /\ [c EXCEPT !.ack = @ + 1] \in Counters
<1>1. c.dgrams + 1 \in Nat /\ c.ack + 1 \in Nat
  BY DEF Counters
<1> QED BY <1>1 DEF Counters

\* An empty datagram.
LEMMA EmptyIs ==
  ASSUME NEW tok \in TOKENS
  PROVE  Empty(tok) \in Datagram /\ Empty(tok).pkts = <<>> /\ Empty(tok).report = 0
BY DEF Empty, Datagram

\* lgw_receive adds packets behind those already received.
LEMMA Fetched ==
  ASSUME TypeOK, PacketsInv, UpFetch
  PROVE  /\ received' \in Seq(Status) /\ Len(received') \in Nat
         /\ Len(received) <= Len(received') /\ Len(received') <= MAX_PACKETS
         /\ \A i \in 1 .. Len(received) : received'[i] = received[i]
<1>1. PICK n \in 0 .. NB_PKT_MAX :
        /\ Len(received) + n <= MAX_PACKETS
        /\ \E new \in [1 .. n -> Status] : received' = received \o new
  BY DEF UpFetch, Status
<1>2. PICK new \in [1 .. n -> Status] : received' = received \o new
  BY <1>1
<1>3. n \in Nat
  BY <1>1, UpConstants
<1>4. new \in Seq(Status) /\ Len(new) = n
  BY <1>2, <1>3
<1>5. received \in Seq(Status)
  BY DEF TypeOK, Status
<1>6. Len(received) \in Nat
  BY <1>5
<1>7. received' \in Seq(Status) /\ Len(received') = Len(received) + n
  BY <1>2, <1>4, <1>5, ConcatProperties
<1>8. ASSUME NEW i \in 1 .. Len(received) PROVE received'[i] = received[i]
  BY <1>2, <1>4, <1>5, <1>6
<1> QED BY <1>1, <1>3, <1>6, <1>7, <1>8

\* What a packet that is packed adds to the datagram.
LEMMA Packed ==
  ASSUME TypeOK, PacketsInv, UpPack
  PROVE  LET entry == [pkt |-> counted, data |-> bin_to_b64(PAYLOAD[counted], 341).out]
         IN  /\ entry \in Rxpk
             /\ dgram' \in Datagram /\ dgram'.pkts = Append(dgram.pkts, entry)
             /\ dgram'.report = dgram.report
<1> DEFINE text == bin_to_b64(PAYLOAD[counted], 341)
           entry == [pkt |-> counted, data |-> text.out]
<1>1. counted \in 1 .. MAX_PACKETS
  <2>1. Len(received) \in Nat
    BY DEF TypeOK
  <2> QED BY <2>1, UpConstants DEF TypeOK, PacketsInv, UpPack
<1>2. PAYLOAD[counted] \in Seq(Byte) /\ Len(PAYLOAD[counted]) <= 255
  BY <1>1, UpConstants
<1>3. text.out \in Seq(Char)
  BY <1>2, TextType
<1>4. dgram' = [dgram EXCEPT !.pkts = Append(@, entry)]
  BY DEF UpPack
<1>5. entry \in Rxpk
  <2> HIDE DEF text
  <2> QED BY <1>1, <1>3 DEF Rxpk
<1> HIDE DEF entry
<1>6. dgram.pkts \in Seq(Rxpk) /\ dgram \in Datagram
  BY DEF TypeOK, Datagram
<1>7. Append(dgram.pkts, entry) \in Seq(Rxpk)
  BY <1>5, <1>6
<1>8. /\ dgram' \in Datagram /\ dgram'.pkts = Append(dgram.pkts, entry)
      /\ dgram'.report = dgram.report
  BY <1>4, <1>6, <1>7 DEF Datagram
<1> QED BY <1>5, <1>8 DEF entry

\* A datagram with the number of a report (UpReport).
LEMMA ReportNumber ==
  ASSUME TypeOK, PacketsInv, UpReport, ReportInv
  PROVE  /\ dgram' \in Datagram /\ dgram'.pkts = dgram.pkts
         /\ dgram'.report = Current /\ Current \in Nat
<1>1. Current \in Nat
  <2>1. Len(reports) \in Nat
    BY DEF TypeOK
  <2> QED BY <2>1 DEF Current, ReportInv
<1>2. dgram' = [dgram EXCEPT !.report = Current]
  BY DEF UpReport, Current
<1>3. dgram \in Datagram
  BY DEF TypeOK
<1> HIDE DEF Current
<1> QED BY <1>1, <1>2, <1>3 DEF Datagram

\* Every step keeps the types.
LEMMA TypeStep == TypeOK /\ PacketsInv /\ ReportInv /\ [Next]_vars => TypeOK'
<1> SUFFICES ASSUME TypeOK, PacketsInv, ReportInv, [Next]_vars PROVE TypeOK'
  OBVIOUS
<1> USE DEF up_vars, main_vars, link_vars
<1>0. received \in Seq(Status) /\ Len(received) \in Nat /\ counted \in 0 .. Len(received)
  BY DEF TypeOK, Status
<1>1. CASE UpFetch
  <2>1. /\ received' \in Seq(Status) /\ Len(received') \in Nat /\ Len(received) <= Len(received')
    BY <1>1, Fetched
  <2>2. counted' \in 0 .. Len(received')
    BY <1>0, <1>1, <2>1 DEF UpFetch
  <2>3. dgram' \in Datagram /\ upc' \in {"fetch", "count"}
    BY <1>1, EmptyIs DEF UpFetch, TypeOK
  <2>4. send_report' \in BOOLEAN
    BY <1>1 DEF UpFetch, TypeOK
  <2> QED BY <1>1, <2>1, <2>2, <2>3, <2>4 DEF UpFetch, TypeOK, Status
<1>2. CASE UpExit
  BY <1>2 DEF UpExit, TypeOK
<1>3. CASE UpCount
  <2>1. counted' \in 0 .. Len(received')
    BY <1>0, <1>3 DEF UpCount
  <2>2. meas' \in Counters
    BY <1>3, CountedIs DEF UpCount, TypeOK
  <2>3. upc' \in {"pack", "count"}
    BY <1>3 DEF UpCount
  <2> QED BY <1>3, <2>1, <2>2, <2>3 DEF UpCount, TypeOK
<1>4. CASE UpPack
  <2>1. dgram' \in Datagram
    BY <1>4, Packed
  <2> QED BY <1>4, <2>1 DEF UpPack, TypeOK
<1>5. CASE UpCompose
  BY <1>5 DEF UpCompose, TypeOK
<1>6. CASE UpReport
  <2>2. upc = "report" /\ upc' = "send" /\ report_ready' = FALSE
    BY <1>6 DEF UpReport
  <2>3. dgram' \in Datagram
    BY <1>6, ReportNumber
  <2>4. report_ready' \in BOOLEAN
    BY <2>2
  <2> QED BY <1>6, <2>2, <2>3, <2>4 DEF UpReport, TypeOK
<1>7. CASE UpSend
  <2>1. sent' \in Seq(Datagram)
    BY <1>7 DEF UpSend, TypeOK
  <2> QED BY <1>7, <2>1 DEF UpSend, TypeOK
<1>8. CASE UpMeas
  <2>1. meas' \in Counters
    BY <1>8, RaisedType DEF UpMeas, TypeOK
  <2> QED BY <1>8, <2>1 DEF UpMeas, TypeOK
<1>9. CASE UpAck
  <2>1. meas' \in Counters
    BY <1>9, RaisedType DEF UpAck, TypeOK
  <2>2. acks' \in Seq(TOKENS)
    BY <1>9, HeadTailProperties DEF UpAck, TypeOK
  <2>3. dgram' \in Datagram
    <3>1. NoToken \in TOKENS
      BY UpConstants DEF NoToken
    <3> QED BY <1>9, <3>1, EmptyIs DEF UpAck, TypeOK
  <2>4. tries' \in 0 .. 1
    BY <1>9 DEF UpAck, TypeOK
  <2>5. upc' \in {"fetch", "ack"} /\ mx_meas_up' \in {"free", "up"}
    BY <1>9 DEF UpAck, TypeOK
  <2> QED BY <1>9, <2>1, <2>2, <2>3, <2>4, <2>5 DEF UpAck, TypeOK
<1>10. CASE StatCopy
  <2>1. Zero \in Counters
    BY DEF Zero, Counters
  <2>2. reports' \in Seq(Counters)
    BY <1>10 DEF StatCopy, TypeOK
  <2> QED BY <1>10, <2>1, <2>2 DEF StatCopy, TypeOK
<1>11. CASE StatReport
  BY <1>11 DEF StatReport, TypeOK
<1>12. CASE Acknowledge
  <2>1. acks' \in Seq(TOKENS)
    <3>1. PICK i \in DOMAIN sent : acks' = Append(acks, sent[i].token)
      BY <1>12 DEF Acknowledge
    <3>2. sent[i] \in Datagram
      BY DEF TypeOK
    <3>3. sent[i].token \in TOKENS
      BY <3>2 DEF Datagram
    <3> QED BY <3>1, <3>3 DEF TypeOK
  <2> QED BY <1>12, <2>1 DEF Acknowledge, TypeOK
<1>13. CASE UNCHANGED vars
  BY <1>13 DEF vars, TypeOK
<1> QED BY <1>1, <1>2, <1>3, <1>4, <1>5, <1>6, <1>7, <1>8, <1>9, <1>10, <1>11, <1>12, <1>13
     DEF Next, UpStep

-----------------------------------------------------------------------------
(* Counters and reports.                                                   *)

\* Every step keeps the bounds of the packets.
LEMMA PacketsStep == TypeOK /\ PacketsInv /\ [Next]_vars => PacketsInv'
<1> SUFFICES ASSUME TypeOK, PacketsInv, [Next]_vars PROVE PacketsInv'
  OBVIOUS
<1> USE DEF up_vars, main_vars, link_vars
<1>0. Len(received) \in Nat /\ counted \in 0 .. Len(received)
  BY DEF TypeOK
<1>1. CASE UpFetch
  BY <1>1, Fetched DEF UpFetch, PacketsInv
<1>2. CASE UpCount
  <2>1. received' = received /\ counted' = counted + 1 /\ upc' \in {"pack", "count"}
    BY <1>2 DEF UpCount
  <2>2. upc' = "pack" => received[counted + 1] \in FORWARDED
    BY <1>2 DEF UpCount
  <2>3. counted + 1 > 0
    BY <1>0
  <2> QED BY <2>1, <2>2, <2>3 DEF PacketsInv
<1>3. CASE UpCompose
  BY <1>3 DEF UpCompose, PacketsInv
<1>4. CASE UpExit \/ UpPack \/ UpReport \/ UpMeas \/ UpAck
  BY <1>4 DEF UpExit, UpPack, UpReport, UpMeas, UpAck, PacketsInv
<1>5. CASE UpSend
  <2>1. sent' # <<>>
    BY <1>5 DEF UpSend, TypeOK
  <2> QED BY <1>5, <2>1 DEF UpSend, PacketsInv
<1>6. CASE StatCopy \/ StatReport \/ Acknowledge \/ UNCHANGED vars
  BY <1>6 DEF StatCopy, StatReport, Acknowledge, vars, PacketsInv
<1> QED BY <1>1, <1>2, <1>3, <1>4, <1>5, <1>6 DEF Next, UpStep

\* Every step keeps the counters in their relation, and the mutex with the wait.
LEMMA MeasStep == TypeOK /\ MeasInv /\ [Next]_vars => MeasInv'
<1> SUFFICES ASSUME TypeOK, MeasInv, [Next]_vars PROVE MeasInv'
  OBVIOUS
<1> USE DEF up_vars, main_vars, link_vars
<1>0. /\ meas \in Counters
      /\ meas.rcv \in Nat /\ meas.ok \in Nat /\ meas.bad \in Nat /\ meas.nocrc \in Nat
      /\ meas.fwd \in Nat /\ meas.dgrams \in Nat /\ meas.ack \in Nat
  BY DEF TypeOK, Counters
<1>1. CASE UpCount
  <2> DEFINE n == Counted(meas, received[counted + 1])
  <2>1. /\ n.rcv = meas.rcv + 1 /\ n.dgrams = meas.dgrams /\ n.ack = meas.ack
        /\ n.fwd = meas.fwd \/ n.fwd = meas.fwd + 1
        /\ \/ n.ok = meas.ok /\ n.bad = meas.bad /\ n.nocrc = meas.nocrc
           \/ n.ok = meas.ok + 1 /\ n.bad = meas.bad /\ n.nocrc = meas.nocrc
           \/ n.ok = meas.ok /\ n.bad = meas.bad + 1 /\ n.nocrc = meas.nocrc
           \/ n.ok = meas.ok /\ n.bad = meas.bad /\ n.nocrc = meas.nocrc + 1
    BY <1>0, CountedIs
  <2>2. meas' = n /\ mx_meas_up' = mx_meas_up /\ upc = "count" /\ upc' # "ack"
    BY <1>1 DEF UpCount
  <2> HIDE DEF n
  <2>3. n.ack + 0 <= n.dgrams /\ n.fwd <= n.rcv /\ n.ok + n.bad + n.nocrc <= n.rcv
    BY <1>0, <2>1, <2>2 DEF MeasInv, Awaited
  <2> QED BY <2>2, <2>3 DEF MeasInv, Awaited
<1>2. CASE UpMeas
  <2> DEFINE n == [meas EXCEPT !.dgrams = @ + 1]
  <2>1. /\ n.rcv = meas.rcv /\ n.dgrams = meas.dgrams + 1 /\ n.ack = meas.ack
        /\ n.fwd = meas.fwd /\ n.ok = meas.ok /\ n.bad = meas.bad /\ n.nocrc = meas.nocrc
    BY <1>0 DEF Counters
  <2>2. meas' = n /\ mx_meas_up' = "up" /\ upc = "meas" /\ upc' = "ack"
    BY <1>2 DEF UpMeas
  <2> HIDE DEF n
  <2>3. n.ack + 1 <= n.dgrams
    BY <1>0, <2>1, <2>2 DEF MeasInv, Awaited
  <2> QED BY <2>1, <2>2, <2>3 DEF MeasInv, Awaited
<1>3. CASE UpAck
  <2> DEFINE n == [meas EXCEPT !.ack = @ + 1]
  <2>1. /\ n.rcv = meas.rcv /\ n.dgrams = meas.dgrams /\ n.ack = meas.ack + 1
        /\ n.fwd = meas.fwd /\ n.ok = meas.ok /\ n.bad = meas.bad /\ n.nocrc = meas.nocrc
    BY <1>0 DEF Counters
  <2>2. /\ upc = "ack" /\ meas.ack + 1 <= meas.dgrams
    BY <1>3 DEF UpAck, MeasInv, Awaited
  <2> HIDE DEF n
  <2>3. CASE upc' = "ack"
    <3>1. meas' = meas /\ mx_meas_up' = mx_meas_up
      BY <1>3, <2>3 DEF UpAck
    <3> QED BY <2>2, <2>3, <3>1 DEF MeasInv, Awaited
  <2>4. CASE upc' # "ack"
    <3>1. mx_meas_up' = "free" /\ (meas' = meas \/ meas' = n)
      BY <1>3, <2>4 DEF UpAck, n
    <3>2. CASE meas' = meas
      <4>1. meas.ack + 0 <= meas.dgrams
        BY <1>0, <2>2
      <4> QED BY <2>4, <3>1, <3>2, <4>1 DEF MeasInv, Awaited
    <3>3. CASE meas' = n
      <4>1. n.ack + 0 <= n.dgrams
        BY <1>0, <2>1, <2>2
      <4> QED BY <2>1, <2>4, <3>1, <3>3, <4>1 DEF MeasInv, Awaited
    <3> QED BY <3>1, <3>2, <3>3
  <2> QED BY <2>3, <2>4
<1>4. CASE StatCopy
  <2>1. meas' = Zero /\ upc' = upc /\ mx_meas_up' = mx_meas_up /\ upc # "ack"
    BY <1>4 DEF StatCopy, MeasInv
  <2> QED BY <2>1 DEF MeasInv, Awaited, Zero
<1>5. ASSUME UNCHANGED <<meas, mx_meas_up>>, upc = "ack" <=> upc' = "ack"
      PROVE  MeasInv'
  BY <1>5 DEF MeasInv, Awaited
<1>6. CASE UpFetch \/ UpExit \/ UpPack \/ UpCompose \/ UpReport \/ UpSend
  BY <1>5, <1>6 DEF UpFetch, UpExit, UpPack, UpCompose, UpReport, UpSend
<1>7. CASE StatReport \/ Acknowledge \/ UNCHANGED vars
  BY <1>5, <1>7 DEF StatReport, Acknowledge, vars
<1> QED BY <1>1, <1>2, <1>3, <1>4, <1>6, <1>7 DEF Next, UpStep

\* The counters that were copied fit each other.
LEMMA ReportConsistentStep ==
  TypeOK /\ MeasInv /\ ReportConsistent /\ [Next]_vars => ReportConsistent'
<1> SUFFICES ASSUME TypeOK, MeasInv, ReportConsistent, [Next]_vars PROVE ReportConsistent'
  OBVIOUS
<1> USE DEF up_vars, main_vars, link_vars
<1>1. CASE StatCopy
  <2>1. reports' = Append(reports, meas) /\ upc # "ack"
    BY <1>1 DEF StatCopy, MeasInv
  <2>2. meas \in Counters /\ reports \in Seq(Counters) /\ Len(reports) \in Nat
    BY DEF TypeOK
  <2>3. meas.ack <= meas.dgrams
    <3>1. meas.ack + 0 = meas.ack
      BY <2>2 DEF Counters
    <3> QED BY <2>1, <3>1 DEF MeasInv, Awaited
  <2>4. ASSUME NEW n \in DOMAIN reports'
        PROVE  /\ reports'[n].ack <= reports'[n].dgrams
               /\ reports'[n].fwd <= reports'[n].rcv
               /\ reports'[n].ok + reports'[n].bad + reports'[n].nocrc <= reports'[n].rcv
    <3>1. n \in 1 .. Len(reports) + 1
      BY <2>1, <2>2
    <3>2. CASE n = Len(reports) + 1
      <4>1. reports'[n] = meas
        BY <2>1, <2>2, <3>2
      <4> QED BY <2>3, <4>1 DEF MeasInv
    <3>3. CASE n # Len(reports) + 1
      <4>1. n \in DOMAIN reports /\ reports'[n] = reports[n]
        BY <2>1, <2>2, <3>1, <3>3
      <4> QED BY <4>1 DEF ReportConsistent
    <3> QED BY <3>2, <3>3
  <2> QED BY <2>4 DEF ReportConsistent
<1>2. ASSUME reports' = reports PROVE ReportConsistent'
  BY <1>2 DEF ReportConsistent
<1>3. CASE UpFetch \/ UpExit \/ UpCount \/ UpPack \/ UpCompose \/ UpReport
  BY <1>2, <1>3 DEF UpFetch, UpExit, UpCount, UpPack, UpCompose, UpReport
<1>4. CASE UpSend \/ UpMeas \/ UpAck \/ StatReport \/ Acknowledge \/ UNCHANGED vars
  BY <1>2, <1>4 DEF UpSend, UpMeas, UpAck, StatReport, Acknowledge, vars
<1> QED BY <1>1, <1>3, <1>4 DEF Next, UpStep

\* The counters AddUp is about.
Fields == {"rcv", "ok", "fwd", "dgrams"}

\* Reports and counters have the fields of Counters.
LEMMA ReportsAre ==
  ASSUME TypeOK, NEW f \in Fields
  PROVE  /\ \A c \in Counters : c[f] \in Int
         /\ meas[f] \in Int
         /\ reports \in Seq(Counters) /\ Len(reports) \in Nat
         /\ \A k \in 1 .. Len(reports) : reports[k][f] \in Int
<1>1. \A c \in Counters : c[f] \in Int
  BY DEF Counters, Fields
<1>2. meas \in Counters /\ reports \in Seq(Counters)
  BY DEF TypeOK
<1>3. \A k \in 1 .. Len(reports) : reports[k] \in Counters
  BY <1>2
<1> QED BY <1>1, <1>2, <1>3

\* A total is a sum over the reports, now and after a step.
LEMMA TotalIs ==
  ASSUME NEW f
  PROVE  /\ Total(f) = FieldSum(reports, meas[f], f)
         /\ Total(f)' = FieldSum(reports', meas'[f], f)
BY DEF Total, FieldSum

\* What is counted is added to the total.
LEMMA TotalStep ==
  ASSUME TypeOK, NEW f \in Fields, NEW d \in Int, reports' = reports, meas'[f] = meas[f] + d
  PROVE  Total(f)' = Total(f) + d /\ Total(f) \in Int
<1>1. FieldSum(reports, meas[f] + d, f) = FieldSum(reports, meas[f], f) + d
  BY ReportsAre, SumShift
<1>2. FieldSum(reports, meas[f], f) \in Int
  BY ReportsAre, SumType
<1> QED BY <1>1, <1>2, TotalIs

\* Without a change of the counter and the reports a total stays.
LEMMA TotalKept ==
  ASSUME NEW f, reports' = reports, meas'[f] = meas[f]
  PROVE  Total(f)' = Total(f)
BY TotalIs

\* main's copying and resetting keeps the totals.
LEMMA TotalCopied ==
  ASSUME TypeOK, StatCopy
  PROVE  \A f \in Fields : Total(f)' = Total(f)
<1> SUFFICES ASSUME NEW f \in Fields PROVE Total(f)' = Total(f)
  OBVIOUS
<1>1. reports' = Append(reports, meas) /\ meas'[f] = 0
  BY DEF StatCopy, Zero, Fields
<1>2. FieldSum(Append(reports, meas), 0, f) = FieldSum(reports, meas[f], f)
  <2>1. meas \in Counters
    BY DEF TypeOK
  <2> QED BY <2>1, ReportsAre, SumMoved
<1> QED BY <1>1, <1>2, TotalIs

\* The packets processed are a set of as many as there are, and the next one is one more
\* where it has one of the statuses.
LEMMA ProcessedNext ==
  ASSUME TypeOK, NEW crcs, counted' = counted + 1, received' = received
  PROVE  Processed(crcs)' = Processed(crcs) + IF received[counted + 1] \in crcs THEN 1 ELSE 0
<1> DEFINE P == {i \in 1 .. counted : received[i] \in crcs}
           Q == {i \in 1 .. counted + 1 : received[i] \in crcs}
           next == counted + 1
<1>1. counted \in Nat
  BY DEF TypeOK
<1>2. Processed(crcs) = Cardinality(P) /\ Processed(crcs)' = Cardinality(Q)
  BY DEF Processed
<1>3. IsFiniteSet(P)
  <2>1. IsFiniteSet(1 .. counted)
    BY <1>1, FS_Interval
  <2> QED BY <2>1, FS_Subset
<1>4. Cardinality(P) \in Nat
  BY <1>3, FS_CardinalityType
<1>5. CASE received[next] \in crcs
  <2>1. Q = P \cup {next} /\ next \notin P
    BY <1>1, <1>5
  <2> HIDE DEF P, Q, next
  <2>2. Cardinality(Q) = Cardinality(P) + 1
    BY <1>3, <2>1, FS_AddElement
  <2> QED BY <1>2, <1>5, <2>2 DEF next
<1>6. CASE received[next] \notin crcs
  <2>1. Q = P
    BY <1>1, <1>6
  <2> HIDE DEF P, Q
  <2> QED BY <1>2, <1>4, <1>6, <2>1
<1> QED BY <1>5, <1>6

\* The packets already processed stay processed when new ones come.
LEMMA ProcessedKept ==
  ASSUME NEW crcs, counted' = counted, \A i \in 1 .. counted : received'[i] = received[i]
  PROVE  Processed(crcs)' = Processed(crcs)
<1>1. {i \in 1 .. counted' : received'[i] \in crcs} = {i \in 1 .. counted : received[i] \in crcs}
  OBVIOUS
<1> QED BY <1>1 DEF Processed

\* AddUp stays where packets, totals and datagrams do.
LEMMA AddUpSame ==
  ASSUME AddUp, counted' = counted, \A i \in 1 .. counted : received'[i] = received[i],
         \A f \in Fields : Total(f)' = Total(f), sent' = sent, upc' = "meas" <=> upc = "meas"
  PROVE  AddUp'
<1>1. Processed({"OK"})' = Processed({"OK"}) /\ Processed(FORWARDED)' = Processed(FORWARDED)
  BY ProcessedKept
<1>2. /\ Total("rcv")' = Total("rcv") /\ Total("ok")' = Total("ok")
      /\ Total("fwd")' = Total("fwd") /\ Total("dgrams")' = Total("dgrams")
  BY DEF Fields
<1> QED BY <1>1, <1>2 DEF AddUp

\* A packet is counted once.
LEMMA AddUpCount == TypeOK /\ AddUp /\ UpCount => AddUp'
<1> SUFFICES ASSUME TypeOK, AddUp, UpCount PROVE AddUp'
  OBVIOUS
<1> DEFINE crc == received[counted + 1]
           n == Counted(meas, crc)
<1>1. /\ n.rcv = meas.rcv + 1 /\ n.dgrams = meas.dgrams
      /\ n.ok = IF crc = "OK" THEN meas.ok + 1 ELSE meas.ok
      /\ n.fwd = IF crc \in FORWARDED THEN meas.fwd + 1 ELSE meas.fwd
  BY CountedIs DEF TypeOK
<1>2. /\ meas' = n /\ reports' = reports /\ sent' = sent /\ upc # "meas" /\ upc' # "meas"
      /\ counted' = counted + 1 /\ received' = received
  BY DEF UpCount, main_vars, link_vars
<1> HIDE DEF n
<1>3. Total("rcv")' = Total("rcv") + 1
  BY <1>1, <1>2, TotalStep DEF Fields
<1>4. Total("ok")' = Total("ok") + IF crc \in {"OK"} THEN 1 ELSE 0
  <2>1. CASE crc = "OK"
    BY <1>1, <1>2, <2>1, TotalStep DEF Fields
  <2>2. CASE crc # "OK"
    <3>1. meas'["ok"] = meas["ok"] + 0
      BY <1>1, <1>2, <2>2, ReportsAre DEF Fields
    <3> QED BY <1>2, <2>2, <3>1, TotalStep DEF Fields
  <2> QED BY <2>1, <2>2
<1>5. Total("fwd")' = Total("fwd") + IF crc \in FORWARDED THEN 1 ELSE 0
  <2>1. CASE crc \in FORWARDED
    BY <1>1, <1>2, <2>1, TotalStep DEF Fields
  <2>2. CASE crc \notin FORWARDED
    <3>1. meas'["fwd"] = meas["fwd"] + 0
      BY <1>1, <1>2, <2>2, ReportsAre DEF Fields
    <3> QED BY <1>2, <2>2, <3>1, TotalStep DEF Fields
  <2> QED BY <2>1, <2>2
<1>6. Total("dgrams")' = Total("dgrams")
  BY <1>1, <1>2, TotalKept
<1>7. /\ Processed({"OK"})' = Processed({"OK"}) + IF crc \in {"OK"} THEN 1 ELSE 0
      /\ Processed(FORWARDED)' = Processed(FORWARDED) + IF crc \in FORWARDED THEN 1 ELSE 0
  BY <1>2, ProcessedNext
<1> HIDE DEF crc
<1> QED BY <1>2, <1>3, <1>4, <1>5, <1>6, <1>7 DEF AddUp

\* Every step keeps the reports complete.
LEMMA AddUpStep == TypeOK /\ PacketsInv /\ AddUp /\ [Next]_vars => AddUp'
<1> SUFFICES ASSUME TypeOK, PacketsInv, AddUp, [Next]_vars PROVE AddUp'
  OBVIOUS
<1> USE DEF up_vars, main_vars, link_vars
<1>0. Len(sent) \in Nat /\ sent \in Seq(Datagram) /\ dgram \in Datagram /\ counted \in 0 .. Len(received)
  BY DEF TypeOK
<1>1. CASE UpCount
  BY <1>1, AddUpCount
<1>2. CASE UpFetch
  <2>1. /\ counted' = counted /\ reports' = reports /\ meas' = meas /\ sent' = sent
        /\ upc # "meas" /\ upc' # "meas"
    BY <1>2 DEF UpFetch
  <2>2. \A i \in 1 .. counted : received'[i] = received[i]
    BY <1>0, <1>2, Fetched DEF TypeOK
  <2> QED BY <2>1, <2>2, TotalKept, AddUpSame
<1>3. CASE UpSend
  <2>1. /\ UNCHANGED <<counted, received, meas, reports>>
        /\ upc = "send" /\ upc' = "meas" /\ sent' = Append(sent, dgram)
    BY <1>3 DEF UpSend
  <2>2. Len(sent') - 1 = Len(sent)
    BY <1>0, <2>1
  <2>3. Processed({"OK"})' = Processed({"OK"}) /\ Processed(FORWARDED)' = Processed(FORWARDED)
    BY <2>1, ProcessedKept
  <2>4. /\ Total("rcv")' = Total("rcv") /\ Total("ok")' = Total("ok")
        /\ Total("fwd")' = Total("fwd") /\ Total("dgrams")' = Total("dgrams")
    BY <2>1, TotalKept
  <2> QED BY <2>1, <2>2, <2>3, <2>4 DEF AddUp
<1>4. CASE UpMeas
  <2>1. /\ UNCHANGED <<counted, received, reports, sent>>
        /\ upc = "meas" /\ upc' = "ack" /\ meas' = [meas EXCEPT !.dgrams = @ + 1]
    BY <1>4 DEF UpMeas
  <2>2. /\ meas'["rcv"] = meas["rcv"] /\ meas'["ok"] = meas["ok"] /\ meas'["fwd"] = meas["fwd"]
        /\ meas'["dgrams"] = meas["dgrams"] + 1
    BY <2>1 DEF TypeOK, Counters
  <2>3. Processed({"OK"})' = Processed({"OK"}) /\ Processed(FORWARDED)' = Processed(FORWARDED)
    BY <2>1, ProcessedKept
  <2>4. /\ Total("rcv")' = Total("rcv") /\ Total("ok")' = Total("ok")
        /\ Total("fwd")' = Total("fwd")
    BY <2>1, <2>2, TotalKept
  <2>5. Total("dgrams")' = Total("dgrams") + 1
    BY <2>1, <2>2, TotalStep DEF Fields
  <2>6. (Len(sent) - 1) + 1 = Len(sent)
    BY <1>0
  <2> QED BY <2>1, <2>3, <2>4, <2>5, <2>6 DEF AddUp
<1>5. CASE UpAck
  <2>1. /\ UNCHANGED <<counted, received, reports, sent>> /\ upc # "meas" /\ upc' # "meas"
        /\ meas' = meas \/ meas' = [meas EXCEPT !.ack = @ + 1]
    BY <1>5 DEF UpAck
  <2>2. /\ meas'["rcv"] = meas["rcv"] /\ meas'["ok"] = meas["ok"] /\ meas'["fwd"] = meas["fwd"]
        /\ meas'["dgrams"] = meas["dgrams"]
    BY <2>1 DEF TypeOK, Counters
  <2>3. \A f \in Fields : Total(f)' = Total(f)
    <3>1. \A f \in Fields : meas'[f] = meas[f]
      BY <2>2 DEF Fields
    <3> QED BY <2>1, <3>1, TotalKept
  <2> QED BY <2>1, <2>3, AddUpSame
<1>6. CASE StatCopy
  <2>1. UNCHANGED <<counted, received, sent, upc>>
    BY <1>6 DEF StatCopy
  <2> QED BY <1>6, <2>1, TotalCopied, AddUpSame
<1>7. ASSUME UNCHANGED <<counted, received, meas, reports, sent>>, upc' = "meas" <=> upc = "meas"
      PROVE  AddUp'
  BY <1>7, TotalKept, AddUpSame
<1>8. CASE UpExit \/ UpPack \/ UpCompose \/ UpReport
  BY <1>7, <1>8 DEF UpExit, UpPack, UpCompose, UpReport
<1>9. CASE StatReport \/ Acknowledge \/ UNCHANGED vars
  BY <1>7, <1>9 DEF StatReport, Acknowledge, vars
<1> QED BY <1>1, <1>2, <1>3, <1>4, <1>5, <1>6, <1>8, <1>9 DEF Next, UpStep

\* Every step keeps the order of the reports.
LEMMA ReportStep == TypeOK /\ PacketsInv /\ ReportInv /\ [Next]_vars => ReportInv'
<1> SUFFICES ASSUME TypeOK, PacketsInv, ReportInv, [Next]_vars PROVE ReportInv'
  OBVIOUS
<1> USE DEF up_vars, main_vars, link_vars
<1>0. /\ Len(reports) \in Nat /\ Current \in Nat
      /\ sent \in Seq(Datagram) /\ Len(sent) \in Nat /\ DOMAIN sent = 1 .. Len(sent)
      /\ dgram \in Datagram /\ dgram.report \in Nat
      /\ \A d \in DOMAIN sent : sent[d].report \in Nat
  <2>1. Len(reports) \in Nat /\ sent \in Seq(Datagram) /\ dgram \in Datagram
    BY DEF TypeOK
  <2>2. Current \in Nat
    BY <2>1 DEF Current, ReportInv
  <2>3. \A d \in DOMAIN sent : sent[d] \in Datagram
    BY <2>1
  <2> QED BY <2>1, <2>2, <2>3 DEF Datagram
<1>1. CASE UpFetch
  <2>1. /\ UNCHANGED <<report_ready, mpc, reports, sent>> /\ send_report' = report_ready
        /\ \/ upc' = "fetch"
           \/ upc' = "count" /\ dgram'.report = 0
    BY <1>1, EmptyIs DEF UpFetch
  <2> QED BY <2>1 DEF ReportInv, ReportsOnce, Current
<1>2. CASE UpPack
  <2>1. dgram'.report = dgram.report
    BY <1>2, Packed
  <2> QED BY <1>2, <2>1 DEF UpPack, ReportInv, ReportsOnce, Current
<1>3. CASE UpCompose
  <2>1. /\ UNCHANGED <<report_ready, mpc, reports, sent, dgram, send_report>> /\ upc = "count"
        /\ upc' = IF send_report THEN "report" ELSE IF dgram.pkts = <<>> THEN "fetch" ELSE "send"
    BY <1>3 DEF UpCompose
  <2>2. dgram.report = 0 /\ Current' = Current /\ (report_ready => 0 < Current) /\ 0 <= Current
    BY <1>0, <2>1 DEF ReportInv, Current
  <2> QED BY <2>1, <2>2 DEF ReportInv, ReportsOnce
<1>4. CASE UpReport
  <2>1. /\ UNCHANGED <<mpc, reports, sent, send_report>> /\ upc = "report" /\ upc' = "send"
        /\ ~report_ready' /\ dgram'.report = Current
    BY <1>4, ReportNumber DEF UpReport
  <2>2. Current' = Current
    BY <2>1 DEF Current
  <2>3. Current <= Current
    BY <1>0
  <2> QED BY <2>1, <2>2, <2>3 DEF ReportInv, ReportsOnce
<1>5. CASE UpSend
  <2>1. /\ UNCHANGED <<report_ready, mpc, reports, dgram, send_report>>
        /\ upc = "send" /\ upc' = "meas" /\ sent' = Append(sent, dgram)
    BY <1>5 DEF UpSend
  <2> DEFINE n == Len(sent)
  <2>2. /\ DOMAIN sent' = 1 .. n + 1 /\ sent'[n + 1] = dgram
        /\ \A d \in 1 .. n : sent'[d] = sent[d]
    BY <1>0, <2>1
  <2>3. \A d \in 1 .. n + 1 : d \in 1 .. n \/ d = n + 1
    BY <1>0
  <2>4. Current' = Current
    BY <2>1 DEF Current
  <2>5. ASSUME NEW d \in DOMAIN sent'
        PROVE  sent'[d].report <= Current /\ (report_ready => sent'[d].report < Current)
    BY <1>0, <2>1, <2>2, <2>3 DEF ReportInv
  <2>6. ReportsOnce'
    <3> SUFFICES ASSUME NEW d \in DOMAIN sent', NEW e \in DOMAIN sent', d < e,
                        sent'[d].report # 0, sent'[e].report # 0
                 PROVE  sent'[d].report < sent'[e].report
      BY DEF ReportsOnce
    <3>1. d \in 1 .. n
      BY <1>0, <2>2
    <3>2. CASE e = n + 1
      BY <1>0, <2>1, <2>2, <3>1, <3>2 DEF ReportInv
    <3>3. CASE e \in 1 .. n
      BY <1>0, <2>2, <3>1, <3>3 DEF ReportInv, ReportsOnce
    <3> QED BY <2>2, <2>3, <3>2, <3>3
  <2> QED BY <2>1, <2>4, <2>5, <2>6 DEF ReportInv
<1>6. CASE UpMeas \/ UpAck \/ UpExit
  <2>1. /\ UNCHANGED <<report_ready, mpc, reports, sent, send_report>>
        /\ upc' \notin {"count", "pack", "report", "send"}
    BY <1>6 DEF UpMeas, UpAck, UpExit
  <2> QED BY <2>1 DEF ReportInv, ReportsOnce, Current
<1>7. CASE UpCount
  <2>1. /\ UNCHANGED <<report_ready, mpc, reports, sent, send_report, dgram>>
        /\ upc = "count" /\ upc' \in {"count", "pack"}
    BY <1>7 DEF UpCount
  <2> QED BY <2>1 DEF ReportInv, ReportsOnce, Current
<1>8. CASE StatCopy
  <2>1. /\ UNCHANGED <<report_ready, sent, send_report, dgram, upc>>
        /\ mpc = "wait" /\ mpc' = "report" /\ reports' = Append(reports, meas)
    BY <1>8 DEF StatCopy
  <2>2. Len(reports') = Len(reports) + 1
    BY <2>1 DEF TypeOK
  <2>3. Current' = Current /\ Len(reports') > 0
    BY <1>0, <2>1, <2>2 DEF Current
  <2> QED BY <2>1, <2>3 DEF ReportInv, ReportsOnce
<1>9. CASE StatReport
  <2>1. /\ UNCHANGED <<reports, sent, send_report, dgram, upc>>
        /\ mpc = "report" /\ mpc' = "wait" /\ report_ready' = TRUE
    BY <1>9 DEF StatReport
  <2>2. Current' = Len(reports) /\ Current = Len(reports) - 1 /\ Len(reports) > 0
    BY <2>1 DEF Current, ReportInv
  <2>3. \A r \in Nat : r <= Current => r <= Len(reports) /\ r < Len(reports)
    BY <1>0, <2>2
  <2>4. Len(reports') > 0 /\ Current' > 0
    BY <2>1, <2>2
  <2>5. \A d \in DOMAIN sent : sent[d].report <= Current' /\ sent[d].report < Current'
    BY <1>0, <2>2, <2>3 DEF ReportInv
  <2>6. upc = "send" => dgram.report <= Current' /\ dgram.report < Current'
    BY <1>0, <2>2, <2>3 DEF ReportInv
  <2> QED BY <2>1, <2>4, <2>5, <2>6 DEF ReportInv, ReportsOnce
<1>10. CASE Acknowledge \/ UNCHANGED vars
  <2>1. UNCHANGED <<report_ready, sent, send_report, dgram, upc, mpc, reports>>
    BY <1>10 DEF Acknowledge, vars
  <2> QED BY <2>1 DEF ReportInv, ReportsOnce, Current
<1> QED BY <1>1, <1>2, <1>3, <1>4, <1>5, <1>6, <1>7, <1>8, <1>9, <1>10 DEF Next, UpStep

-----------------------------------------------------------------------------
(* Packets.                                                                *)

\* What is rightful stays so when packets are received and go through the filter.
LEMMA RightfulKept ==
  ASSUME NEW pkts, NEW n \in Nat, NEW m \in Nat, NEW crcs, NEW later,
         Rightful(pkts, n, crcs), n <= m, \A i \in 1 .. n : later[i] = crcs[i], Len(pkts) \in Nat
  PROVE  Rightful(pkts, m, later)
<1>1. ASSUME NEW k \in DOMAIN pkts
      PROVE  /\ pkts[k].pkt \in 1 .. m /\ later[pkts[k].pkt] \in FORWARDED
             /\ pkts[k].data = bin_to_b64(PAYLOAD[pkts[k].pkt], 341).out
  BY DEF Rightful
<1>2. Len(pkts) <= m
  BY DEF Rightful
<1> QED BY <1>1, <1>2 DEF Rightful

\* A datagram without packets.
LEMMA RightfulEmpty ==
  ASSUME NEW n \in Nat, NEW crcs
  PROVE  Rightful(<<>>, n, crcs) /\ \A pkts : Before(pkts, <<>>)
BY DEF Rightful, Before

\* A packet added behind the others (UpPack).
LEMMA RightfulAppend ==
  ASSUME NEW pkts \in Seq(Rxpk), NEW n \in Nat, n > 0, NEW crcs, NEW entry \in Rxpk,
         Rightful(pkts, n, crcs), Len(pkts) < n, \A k \in DOMAIN pkts : pkts[k].pkt < n,
         entry.pkt = n, crcs[n] \in FORWARDED, entry.data = bin_to_b64(PAYLOAD[n], 341).out
  PROVE  Rightful(Append(pkts, entry), n, crcs)
<1> DEFINE m == Len(pkts)
           new == Append(pkts, entry)
<1>1. m \in Nat /\ DOMAIN pkts = 1 .. m
  OBVIOUS
<1>2. /\ DOMAIN new = 1 .. m + 1 /\ Len(new) = m + 1 /\ new[m + 1] = entry
      /\ \A k \in 1 .. m : new[k] = pkts[k]
  OBVIOUS
<1> HIDE DEF new, m
<1>3. \A k \in 1 .. m + 1 : k = m + 1 \/ k \in 1 .. m
  BY <1>1
<1>4. ASSUME NEW k \in DOMAIN new
      PROVE  /\ new[k].pkt \in 1 .. n /\ crcs[new[k].pkt] \in FORWARDED
             /\ new[k].data = bin_to_b64(PAYLOAD[new[k].pkt], 341).out
  <2>1. CASE k = m + 1
    <3>1. n \in 1 .. n
      OBVIOUS
    <3> QED BY <1>2, <2>1, <3>1
  <2>2. CASE k \in 1 .. m
    BY <1>1, <1>2, <2>2 DEF Rightful
  <2> QED BY <1>2, <1>3, <2>1, <2>2
<1>5. ASSUME NEW k \in DOMAIN new, NEW l \in DOMAIN new, k < l PROVE new[k].pkt < new[l].pkt
  <2>1. k \in 1 .. m
    BY <1>1, <1>2, <1>5
  <2>2. CASE l = m + 1
    BY <1>1, <1>2, <2>1, <2>2
  <2>3. CASE l \in 1 .. m
    BY <1>1, <1>2, <1>5, <2>1, <2>3 DEF Rightful
  <2> QED BY <1>2, <1>3, <2>2, <2>3
<1>6. Len(new) <= n
  BY <1>1, <1>2 DEF m
<1> QED BY <1>4, <1>5, <1>6 DEF Rightful, new

\* The lists of packets are lists.
LEMMA ListsAre ==
  ASSUME TypeOK
  PROVE  /\ dgram.pkts \in Seq(Rxpk) /\ Len(dgram.pkts) \in Nat
         /\ \A k \in DOMAIN dgram.pkts : dgram.pkts[k].pkt \in Nat
         /\ sent \in Seq(Datagram) /\ Len(sent) \in Nat /\ DOMAIN sent = 1 .. Len(sent)
         /\ \A d \in DOMAIN sent :
              /\ sent[d].pkts \in Seq(Rxpk) /\ Len(sent[d].pkts) \in Nat
              /\ \A k \in DOMAIN sent[d].pkts : sent[d].pkts[k].pkt \in Nat
         /\ counted \in Nat /\ Len(received) \in Nat /\ counted <= Len(received)
<1>1. /\ dgram \in Datagram /\ sent \in Seq(Datagram)
      /\ counted \in 0 .. Len(received) /\ Len(received) \in Nat
  BY DEF TypeOK
<1>2. ASSUME NEW g \in Datagram
      PROVE  /\ g.pkts \in Seq(Rxpk) /\ Len(g.pkts) \in Nat
             /\ \A k \in DOMAIN g.pkts : g.pkts[k].pkt \in Nat
  <2>1. g.pkts \in Seq(Rxpk)
    BY DEF Datagram
  <2>2. ASSUME NEW k \in DOMAIN g.pkts PROVE g.pkts[k] \in Rxpk
    BY <2>1
  <2> QED BY <2>1, <2>2 DEF Rxpk
<1>3. \A d \in DOMAIN sent : sent[d] \in Datagram
  BY <1>1
<1> QED BY <1>1, <1>2, <1>3

\* The packets stay in their places where neither the link nor thread_up's datagram
\* changes, nor the part of it that thread_up is in.
LEMMA PlacesSame ==
  ASSUME SentInv, DgramInv, KeptInv,
         UNCHANGED <<sent, counted, received, dgram, upc>>
  PROVE  SentInv' /\ DgramInv' /\ KeptInv'
BY DEF SentInv, DgramInv, KeptInv, Sent, Composing

\* Packets are received behind those already received, and a new datagram is begun.
LEMMA PlacesFetch ==
  TypeOK /\ PacketsInv /\ SentInv /\ KeptInv /\ UpFetch => SentInv' /\ DgramInv' /\ KeptInv'
<1> SUFFICES ASSUME TypeOK, PacketsInv, SentInv, KeptInv, UpFetch
             PROVE  SentInv' /\ DgramInv' /\ KeptInv'
  OBVIOUS
<1>1. /\ sent' = sent /\ counted' = counted /\ upc = "fetch" /\ upc' \in {"fetch", "count"}
      /\ upc' = "count" => dgram'.pkts = <<>>
  BY EmptyIs DEF UpFetch, link_vars
<1>2. \A i \in 1 .. counted : received'[i] = received[i]
  BY Fetched, ListsAre
<1>3. SentInv'
  <2>1. \A d \in DOMAIN sent : Rightful(sent[d].pkts, counted, received')
    <3>1. counted <= counted
      BY ListsAre
    <3> QED BY <1>2, <3>1, ListsAre, RightfulKept DEF SentInv
  <2> QED BY <1>1, <2>1 DEF SentInv
<1>4. DgramInv'
  BY <1>1, RightfulEmpty, ListsAre DEF DgramInv, Composing
<1>5. KeptInv'
  <2>1. \A i \in 1 .. counted : received[i] \in FORWARDED => Sent(i)
    BY <1>1 DEF KeptInv, Composing
  <2>2. \A i \in 1 .. counted : Sent(i)' <=> Sent(i)
    BY <1>1 DEF Sent
  <2> QED BY <1>1, <1>2, <2>1, <2>2 DEF KeptInv
<1> QED BY <1>3, <1>4, <1>5

\* The next packet is dropped or is to be packed.
LEMMA PlacesCount ==
  TypeOK /\ SentInv /\ DgramInv /\ KeptInv /\ UpCount => SentInv' /\ DgramInv' /\ KeptInv'
<1> SUFFICES ASSUME TypeOK, SentInv, DgramInv, KeptInv, UpCount
             PROVE  SentInv' /\ DgramInv' /\ KeptInv'
  OBVIOUS
<1> DEFINE n == counted
<1>1. /\ UNCHANGED <<sent, received, dgram>> /\ counted' = n + 1 /\ upc = "count"
      /\ upc' = IF received[n + 1] \in FORWARDED THEN "pack" ELSE "count"
  BY DEF UpCount, link_vars
<1>2. n \in Nat /\ n + 1 \in Nat /\ n <= n + 1
  BY ListsAre
<1> HIDE DEF n
<1>3. \A d \in DOMAIN sent : Rightful(sent[d].pkts, n, received)
  BY DEF SentInv, n
<1>4. Rightful(dgram.pkts, n, received) /\ \A d \in DOMAIN sent : Before(sent[d].pkts, dgram.pkts)
  BY <1>1 DEF DgramInv, Composing, n
<1>5. SentInv'
  <2>1. \A d \in DOMAIN sent : Rightful(sent[d].pkts, n + 1, received)
    BY <1>2, <1>3, ListsAre, RightfulKept
  <2> QED BY <1>1, <2>1 DEF SentInv
<1>6. DgramInv'
  <2>1. Rightful(dgram.pkts, n + 1, received)
    BY <1>2, <1>4, ListsAre, RightfulKept
  <2>2. Len(dgram.pkts) < n + 1 /\ \A k \in DOMAIN dgram.pkts : dgram.pkts[k].pkt < n + 1
    BY <1>2, <1>4, ListsAre DEF Rightful
  <2>3. \A d \in DOMAIN sent : \A k \in DOMAIN sent[d].pkts : sent[d].pkts[k].pkt < n + 1
    BY <1>2, <1>3 DEF Rightful
  <2>4. upc' # "send"
    BY <1>1
  <2> QED BY <1>1, <1>4, <2>1, <2>2, <2>3, <2>4 DEF DgramInv
<1>7. KeptInv'
  <2>1. \A i : Sent(i)' <=> Sent(i)
    BY <1>1 DEF Sent
  <2>2. Composing'
    BY <1>1 DEF Composing
  <2>3. ASSUME NEW i \in 1 .. n + 1, received[i] \in FORWARDED
        PROVE  Sent(i) \/ In(i, dgram.pkts) \/ (upc' = "pack" /\ i = n + 1)
    <3>1. CASE i = n + 1
      BY <1>1, <2>3, <3>1
    <3>2. CASE i # n + 1
      <4>1. i \in 1 .. n
        BY <1>2, <3>2
      <4> QED BY <1>1, <2>3, <4>1 DEF KeptInv, n
    <3> QED BY <3>1, <3>2
  <2> QED BY <1>1, <2>1, <2>2, <2>3 DEF KeptInv
<1> QED BY <1>5, <1>6, <1>7

\* The packet that passed the filter comes last into the datagram.
LEMMA PlacesPack ==
  TypeOK /\ PacketsInv /\ SentInv /\ DgramInv /\ KeptInv /\ UpPack
    => SentInv' /\ DgramInv' /\ KeptInv'
<1> SUFFICES ASSUME TypeOK, PacketsInv, SentInv, DgramInv, KeptInv, UpPack
             PROVE  SentInv' /\ DgramInv' /\ KeptInv'
  OBVIOUS
<1> DEFINE entry == [pkt |-> counted, data |-> bin_to_b64(PAYLOAD[counted], 341).out]
           m == Len(dgram.pkts)
<1>1. UNCHANGED <<sent, received, counted>> /\ upc = "pack" /\ upc' = "count"
  BY DEF UpPack, link_vars
<1>2. /\ entry \in Rxpk /\ dgram'.pkts = Append(dgram.pkts, entry)
      /\ entry.pkt = counted /\ entry.data = bin_to_b64(PAYLOAD[counted], 341).out
  BY Packed
<1> HIDE DEF entry
<1>3. /\ counted > 0 /\ received[counted] \in FORWARDED
      /\ Rightful(dgram.pkts, counted, received) /\ m < counted
      /\ \A k \in DOMAIN dgram.pkts : dgram.pkts[k].pkt < counted
      /\ \A d \in DOMAIN sent : Before(sent[d].pkts, dgram.pkts)
      /\ \A d \in DOMAIN sent : \A k \in DOMAIN sent[d].pkts : sent[d].pkts[k].pkt < counted
  BY <1>1 DEF PacketsInv, DgramInv, Composing
<1>4. dgram.pkts \in Seq(Rxpk) /\ m \in Nat /\ DOMAIN dgram.pkts = 1 .. m /\ counted \in Nat
  BY ListsAre
<1>5. Rightful(dgram'.pkts, counted, received)
  BY <1>2, <1>3, <1>4, RightfulAppend
<1>6. /\ DOMAIN dgram'.pkts = 1 .. m + 1 /\ dgram'.pkts[m + 1] = entry
      /\ \A k \in 1 .. m : dgram'.pkts[k] = dgram.pkts[k]
  BY <1>2, <1>4
<1>7. (\A k \in 1 .. m + 1 : k = m + 1 \/ k \in 1 .. m) /\ (\A k \in 1 .. m : k \in 1 .. m + 1)
      /\ m + 1 \in 1 .. m + 1
  BY <1>4
<1> HIDE DEF m
<1>8. SentInv'
  BY <1>1 DEF SentInv
<1>9. DgramInv'
  <2>1. ASSUME NEW d \in DOMAIN sent PROVE Before(sent[d].pkts, dgram'.pkts)
    <3> SUFFICES ASSUME NEW k \in DOMAIN sent[d].pkts, NEW l \in DOMAIN dgram'.pkts
                 PROVE  sent[d].pkts[k].pkt < dgram'.pkts[l].pkt
      BY DEF Before
    <3>1. CASE l = m + 1
      BY <1>2, <1>3, <1>6, <3>1
    <3>2. CASE l \in 1 .. m
      BY <1>3, <1>4, <1>6, <3>2 DEF Before
    <3> QED BY <1>6, <1>7, <3>1, <3>2
  <2> QED BY <1>1, <1>5, <2>1 DEF DgramInv
<1>10. KeptInv'
  <2>1. \A i : Sent(i)' <=> Sent(i)
    BY <1>1 DEF Sent
  <2>2. Composing' /\ Composing
    BY <1>1 DEF Composing
  <2>3. ASSUME NEW i \in 1 .. counted, received[i] \in FORWARDED
        PROVE  Sent(i) \/ In(i, dgram'.pkts)
    <3>1. CASE i = counted
      BY <1>2, <1>6, <1>7, <3>1 DEF In
    <3>2. CASE In(i, dgram.pkts)
      BY <1>4, <1>6, <1>7, <3>2 DEF In
    <3> QED BY <1>1, <2>3, <3>1, <3>2 DEF KeptInv
  <2> QED BY <1>1, <2>1, <2>2, <2>3 DEF KeptInv
<1> QED BY <1>8, <1>9, <1>10

\* The datagram is complete: it has a packet or gets a report, or nothing is sent.
LEMMA PlacesCompose ==
  TypeOK /\ PacketsInv /\ ReportInv /\ SentInv /\ DgramInv /\ KeptInv /\ (UpCompose \/ UpReport)
    => SentInv' /\ DgramInv' /\ KeptInv'
<1> SUFFICES ASSUME TypeOK, PacketsInv, ReportInv, SentInv, DgramInv, KeptInv, UpCompose \/ UpReport
             PROVE  SentInv' /\ DgramInv' /\ KeptInv'
  OBVIOUS
<1>1. /\ UNCHANGED <<sent, received, counted>> /\ dgram'.pkts = dgram.pkts
      /\ upc \in {"count", "report"} /\ upc' \in {"fetch", "report", "send"}
      /\ upc' = "fetch" => dgram.pkts = <<>>
  BY ReportNumber DEF UpCompose, UpReport, link_vars
<1>2. upc' = "send" => dgram'.pkts # <<>> \/ dgram'.report # 0
  <2>1. CASE UpCompose
    BY <2>1 DEF UpCompose
  <2>2. CASE UpReport
    <3>1. Current > 0 /\ dgram'.report = Current /\ Current \in Nat
      BY <2>2, ReportNumber DEF ReportInv, UpReport
    <3> QED BY <3>1
  <2> QED BY <2>1, <2>2
<1>3. SentInv'
  BY <1>1 DEF SentInv
<1>4. DgramInv'
  BY <1>1, <1>2 DEF DgramInv, Composing
<1>5. KeptInv'
  <2>1. \A i : Sent(i)' <=> Sent(i)
    BY <1>1 DEF Sent
  <2>2. ASSUME NEW i \in 1 .. counted, received[i] \in FORWARDED
        PROVE  Sent(i) \/ In(i, dgram.pkts)
    BY <1>1, <2>2 DEF KeptInv
  <2>3. CASE upc' = "fetch"
    <3>1. \A i : ~In(i, dgram.pkts)
      BY <1>1, <2>3 DEF In
    <3> QED BY <1>1, <2>1, <2>2, <3>1 DEF KeptInv
  <2>4. CASE upc' # "fetch"
    <3>1. Composing'
      BY <1>1, <2>4 DEF Composing
    <3> QED BY <1>1, <2>1, <2>2, <3>1 DEF KeptInv
  <2> QED BY <2>3, <2>4
<1> QED BY <1>3, <1>4, <1>5

\* The datagram joins those that were sent.
LEMMA PlacesSend ==
  TypeOK /\ SentInv /\ DgramInv /\ KeptInv /\ UpSend => SentInv' /\ DgramInv' /\ KeptInv'
<1> SUFFICES ASSUME TypeOK, SentInv, DgramInv, KeptInv, UpSend
             PROVE  SentInv' /\ DgramInv' /\ KeptInv'
  OBVIOUS
<1> DEFINE n == Len(sent)
<1>1. /\ UNCHANGED <<received, counted>> /\ upc = "send" /\ upc' = "meas"
      /\ sent' = Append(sent, dgram)
  BY DEF UpSend
<1>2. n \in Nat /\ DOMAIN sent = 1 .. n /\ sent \in Seq(Datagram) /\ dgram \in Datagram
  BY ListsAre DEF TypeOK
<1>3. /\ DOMAIN sent' = 1 .. n + 1 /\ sent'[n + 1] = dgram
      /\ \A d \in 1 .. n : sent'[d] = sent[d]
  BY <1>1, <1>2
<1>4. (\A d \in 1 .. n + 1 : d \in 1 .. n \/ d = n + 1) /\ (\A d \in 1 .. n : d \in 1 .. n + 1)
      /\ n + 1 \in 1 .. n + 1
  BY <1>2
<1> HIDE DEF n
<1>5. SentInv'
  <2>1. ASSUME NEW d \in DOMAIN sent'
        PROVE  /\ Rightful(sent'[d].pkts, counted, received)
               /\ sent'[d].pkts # <<>> \/ sent'[d].report # 0
    <3>1. CASE d = n + 1
      BY <1>1, <1>3, <3>1 DEF DgramInv, Composing
    <3>2. CASE d \in 1 .. n
      BY <1>2, <1>3, <3>2 DEF SentInv
    <3> QED BY <1>3, <1>4, <3>1, <3>2
  <2>2. ASSUME NEW d \in DOMAIN sent', NEW e \in DOMAIN sent', d < e
        PROVE  Before(sent'[d].pkts, sent'[e].pkts)
    <3>1. d \in 1 .. n
      BY <1>2, <1>3, <2>2
    <3>2. CASE e = n + 1
      BY <1>1, <1>2, <1>3, <3>1, <3>2 DEF DgramInv, Composing
    <3>3. CASE e \in 1 .. n
      BY <1>2, <1>3, <2>2, <3>1, <3>3 DEF SentInv
    <3> QED BY <1>3, <1>4, <3>2, <3>3
  <2> QED BY <1>1, <2>1, <2>2 DEF SentInv
<1>6. DgramInv'
  BY <1>1 DEF DgramInv, Composing
<1>7. KeptInv'
  <2>1. \A i : Sent(i) \/ In(i, dgram.pkts) => Sent(i)'
    <3> SUFFICES ASSUME NEW i, Sent(i) \/ In(i, dgram.pkts)
                 PROVE  \E d \in DOMAIN sent' : In(i, sent'[d].pkts)
      BY DEF Sent
    <3>1. CASE In(i, dgram.pkts)
      BY <1>3, <1>4, <3>1
    <3>2. CASE Sent(i)
      BY <1>2, <1>3, <1>4, <3>2 DEF Sent
    <3> QED BY <3>1, <3>2
  <2> QED BY <1>1, <2>1 DEF KeptInv
<1> QED BY <1>5, <1>6, <1>7

\* Every step keeps every packet in its place.
LEMMA PlacesStep ==
  TypeOK /\ PacketsInv /\ ReportInv /\ SentInv /\ DgramInv /\ KeptInv /\ [Next]_vars
    => SentInv' /\ DgramInv' /\ KeptInv'
<1> SUFFICES ASSUME TypeOK, PacketsInv, ReportInv, SentInv, DgramInv, KeptInv, [Next]_vars
             PROVE  SentInv' /\ DgramInv' /\ KeptInv'
  OBVIOUS
<1> USE DEF up_vars, main_vars, link_vars
<1>1. CASE UpFetch
  BY <1>1, PlacesFetch
<1>2. CASE UpCount
  BY <1>2, PlacesCount
<1>3. CASE UpPack
  BY <1>3, PlacesPack
<1>4. CASE UpCompose \/ UpReport
  BY <1>4, PlacesCompose
<1>5. CASE UpSend
  BY <1>5, PlacesSend
<1>6. CASE UpExit \/ UpMeas \/ UpAck
  <2>1. /\ UNCHANGED <<sent, counted, received>>
        /\ \/ upc' = "exited"
           \/ upc \in {"meas", "ack"} /\ upc' \in {"ack", "fetch"}
    BY <1>6 DEF UpExit, UpMeas, UpAck
  <2>2. SentInv'
    BY <2>1 DEF SentInv
  <2>3. DgramInv'
    BY <2>1 DEF DgramInv, Composing
  <2>4. KeptInv'
    <3>1. \A i : Sent(i)' <=> Sent(i)
      BY <2>1 DEF Sent
    <3> QED BY <2>1, <3>1 DEF KeptInv, Composing
  <2> QED BY <2>2, <2>3, <2>4
<1>7. CASE StatCopy \/ StatReport \/ Acknowledge \/ UNCHANGED vars
  <2>1. UNCHANGED <<sent, counted, received, dgram, upc>>
    BY <1>7 DEF StatCopy, StatReport, Acknowledge, vars
  <2> QED BY <2>1, PlacesSame
<1> QED BY <1>1, <1>2, <1>3, <1>4, <1>5, <1>6, <1>7 DEF Next, UpStep

-----------------------------------------------------------------------------
(* The theorems.                                                           *)

\* The invariant holds when thread_up starts.
LEMMA InitIInv == Init => IInv
<1> SUFFICES ASSUME Init PROVE IInv
  OBVIOUS
<1>1. TypeOK
  <2>1. Zero \in Counters
    BY DEF Zero, Counters
  <2>2. dgram \in Datagram
    <3>1. NoToken \in TOKENS
      BY UpConstants DEF NoToken
    <3> QED BY <3>1, EmptyIs DEF Init
  <2>3. received = <<>> /\ counted = 0 /\ sent = <<>> /\ acks = <<>> /\ reports = <<>>
    BY DEF Init
  <2>4. counted \in 0 .. Len(received) /\ received \in Seq(CrcStatus \cup {"UNKNOWN"})
    BY <2>3
  <2>5. send_report \in BOOLEAN /\ report_ready \in BOOLEAN
    BY DEF Init
  <2>6. /\ upc = "fetch" /\ tries = 0 /\ meas = Zero /\ mx_meas_up = "free" /\ mpc = "wait"
        /\ nacks = 0
    BY DEF Init
  <2>7. sent \in Seq(Datagram) /\ acks \in Seq(TOKENS) /\ reports \in Seq(Counters)
    BY <2>3
  <2> QED BY <2>1, <2>2, <2>4, <2>5, <2>6, <2>7 DEF TypeOK
<1>2. PacketsInv /\ MeasInv
  BY UpConstants DEF Init, PacketsInv, MeasInv, Awaited, Zero
<1>3. ReportConsistent /\ ReportInv
  BY DEF Init, ReportConsistent, ReportInv, ReportsOnce, Current
<1>4. AddUp
  <2>1. ASSUME NEW f \in Fields PROVE Total(f) = 0
    <3> DEFINE g == [k \in 0 .. 0 |-> 0]
    <3>1. Sums(g, reports, 0, f, 0) /\ Len(reports) = 0 /\ g[0] = 0
      BY DEF Init, Sums
    <3>2. FieldSum(reports, 0, f) = g[0]
      <4> HIDE DEF g
      <4> QED BY <3>1, SumIs
    <3>3. meas[f] = 0
      BY DEF Init, Zero, Fields
    <3> QED BY <3>1, <3>2, <3>3, TotalIs
  <2>2. /\ Total("rcv") = 0 /\ Total("ok") = 0 /\ Total("fwd") = 0 /\ Total("dgrams") = 0
    BY <2>1 DEF Fields
  <2>3. \A crcs : Processed(crcs) = 0
    <3> SUFFICES ASSUME NEW crcs PROVE Processed(crcs) = 0
      OBVIOUS
    <3>1. {i \in 1 .. counted : received[i] \in crcs} = {}
      BY DEF Init
    <3> QED BY <3>1, FS_EmptySet DEF Processed
  <2>4. counted = 0 /\ upc = "fetch" /\ Len(sent) = 0
    BY DEF Init
  <2> QED BY <2>2, <2>3, <2>4 DEF AddUp
<1>5. SentInv /\ DgramInv /\ KeptInv
  <2>1. sent = <<>> /\ upc = "fetch" /\ counted = 0
    BY DEF Init
  <2> QED BY <2>1 DEF SentInv, DgramInv, KeptInv, Composing
<1> QED BY <1>1, <1>2, <1>3, <1>4, <1>5 DEF IInv

\* The invariant holds in every state of thread_up, main and the client.
THEOREM UpInvariance == Spec => []IInv
<1>1. IInv /\ [Next]_vars => IInv'
  BY TypeStep, PacketsStep, MeasStep, ReportConsistentStep, AddUpStep, ReportStep, PlacesStep
     DEF IInv
<1> QED BY InitIInv, <1>1, PTL DEF Spec

\* The variables of thread_up and main keep their types; no more packets are counted than
\* were received, and what is written for a payload is text.
THEOREM TypeCorrect == Spec => []TypeOK
<1>1. IInv => TypeOK
  BY DEF IInv
<1> QED BY UpInvariance, <1>1, PTL

\* Nothing is lost or counted twice between the reports, and the counters of a datagram
\* are not torn apart, for any packets, any number of reports and any acknowledgements
\* (lora_pkt_fwd.c:1269-1287, 1862-1890).
THEOREM ReportsComplete == Spec => []StatsExact
<1>1. IInv => StatsExact
  BY DEF IInv, StatsExact
<1> QED BY UpInvariance, <1>1, PTL

\* A place of a packet is a datagram that was sent and an index in its list.
LEMMA PlacesAre ==
  ASSUME IInv, NEW i
  PROVE  /\ \A p \in Places(i) : /\ p = <<p[1], p[2]>> /\ p[1] \in DOMAIN sent
                                 /\ p[2] \in DOMAIN sent[p[1]].pkts
                                 /\ sent[p[1]].pkts[p[2]].pkt = i
         /\ \A d \in DOMAIN sent : \A k \in DOMAIN sent[d].pkts :
              sent[d].pkts[k].pkt = i => <<d, k>> \in Places(i)
<1>1. ASSUME NEW d \in DOMAIN sent, NEW k \in DOMAIN sent[d].pkts PROVE k \in 1 .. MAX_PACKETS
  <2>1. /\ Len(sent[d].pkts) <= counted /\ counted <= Len(received)
        /\ Len(received) <= MAX_PACKETS
    BY ListsAre DEF IInv, SentInv, Rightful, PacketsInv
  <2>2. /\ Len(sent[d].pkts) \in Nat /\ counted \in Nat /\ Len(received) \in Nat
        /\ k \in 1 .. Len(sent[d].pkts) /\ MAX_PACKETS \in Nat
    BY ListsAre, UpConstants DEF IInv
  <2> QED BY <2>1, <2>2
<1>2. ASSUME NEW p \in Places(i)
      PROVE  /\ p = <<p[1], p[2]>> /\ p[1] \in DOMAIN sent /\ p[2] \in DOMAIN sent[p[1]].pkts
             /\ sent[p[1]].pkts[p[2]].pkt = i
  BY DEF Places
<1>3. ASSUME NEW d \in DOMAIN sent, NEW k \in DOMAIN sent[d].pkts, sent[d].pkts[k].pkt = i
      PROVE  <<d, k>> \in Places(i)
  BY <1>1, <1>3 DEF Places
<1> QED BY <1>2, <1>3

\* Places are ordered as their packets are.
LEMMA PlacesOrdered ==
  ASSUME IInv, NEW i \in Nat, NEW j \in Nat, NEW p \in Places(i), NEW r \in Places(j),
         ~(p[1] < r[1] \/ (p[1] = r[1] /\ p[2] < r[2]))
  PROVE  j <= i /\ (j = i => p = r)
<1> DEFINE d == p[1] k == p[2] e == r[1] l == r[2]
<1>1. /\ p = <<d, k>> /\ d \in DOMAIN sent /\ k \in DOMAIN sent[d].pkts /\ sent[d].pkts[k].pkt = i
  BY PlacesAre
<1>2. /\ r = <<e, l>> /\ e \in DOMAIN sent /\ l \in DOMAIN sent[e].pkts /\ sent[e].pkts[l].pkt = j
  BY PlacesAre
<1>3. d \in Nat /\ e \in Nat /\ k \in Nat /\ l \in Nat
  <2>1. /\ DOMAIN sent = 1 .. Len(sent) /\ Len(sent) \in Nat
        /\ sent[d].pkts \in Seq(Rxpk) /\ sent[e].pkts \in Seq(Rxpk)
    BY <1>1, <1>2, ListsAre DEF IInv
  <2> QED BY <1>1, <1>2, <2>1
<1>4. ~(d < e \/ (d = e /\ k < l))
  OBVIOUS
<1> HIDE DEF d, k, e, l
<1>5. CASE e < d
  <2>1. j < i
    BY <1>1, <1>2, <1>5 DEF IInv, SentInv, Before
  <2> QED BY <2>1
<1>6. CASE e = d /\ l < k
  <2>1. j < i
    BY <1>1, <1>2, <1>6 DEF IInv, SentInv, Rightful
  <2> QED BY <2>1
<1>7. CASE e = d /\ l = k
  BY <1>1, <1>2, <1>7
<1> QED BY <1>3, <1>4, <1>5, <1>6, <1>7

\* Every packet that passes the filter is in one datagram, the others in none, and packets
\* and reports leave in order, although report_ready is read without its mutex; no datagram
\* is empty (lora_pkt_fwd.c:1521, 1821-1837).
THEOREM ForwardedExactly == Spec => []SentOnce
<1>1. IInv => SentOnce
  <2> SUFFICES ASSUME IInv PROVE SentOnce
    OBVIOUS
  <2>1. \A d \in DOMAIN sent : sent[d].pkts # <<>> \/ sent[d].report # 0
    BY DEF IInv, SentInv
  <2>2. counted \in Nat
    BY ListsAre DEF IInv
  <2>3. ASSUME upc = "fetch", NEW i \in 1 .. counted
        PROVE  Cardinality(Places(i)) = IF received[i] \in FORWARDED THEN 1 ELSE 0
    <3>1. CASE received[i] \in FORWARDED
      <4>1. PICK d \in DOMAIN sent : In(i, sent[d].pkts)
        BY <2>3, <3>1 DEF IInv, KeptInv, Composing, Sent
      <4>2. PICK k \in DOMAIN sent[d].pkts : sent[d].pkts[k].pkt = i
        BY <4>1 DEF In
      <4>3. <<d, k>> \in Places(i)
        BY <4>2, PlacesAre
      <4>4. ASSUME NEW p \in Places(i), NEW r \in Places(i) PROVE p = r
        <5>1. i \in Nat
          BY <2>2
        <5>2. CASE ~(p[1] < r[1] \/ (p[1] = r[1] /\ p[2] < r[2]))
          BY <5>1, <5>2, PlacesOrdered
        <5>3. CASE ~(r[1] < p[1] \/ (r[1] = p[1] /\ r[2] < p[2]))
          <6>1. r = p
            BY <5>1, <5>3, PlacesOrdered
          <6> QED BY <6>1
        <5>4. ASSUME NEW x \in Places(i) PROVE x[1] \in Nat /\ x[2] \in Nat
          <6> DEFINE e == x[1] l == x[2]
          <6>1. e \in DOMAIN sent /\ l \in DOMAIN sent[e].pkts
            BY PlacesAre
          <6> HIDE DEF e, l
          <6>2. /\ DOMAIN sent = 1 .. Len(sent) /\ Len(sent) \in Nat
                /\ sent[e].pkts \in Seq(Rxpk)
            BY <6>1, ListsAre DEF IInv
          <6>3. e \in Nat /\ l \in Nat
            BY <6>1, <6>2
          <6> QED BY <6>3 DEF e, l
        <5> QED BY <5>2, <5>3, <5>4
      <4>5. Places(i) = {<<d, k>>}
        BY <4>3, <4>4
      <4> QED BY <3>1, <4>5, FS_Singleton
    <3>2. CASE received[i] \notin FORWARDED
      <4>1. ASSUME NEW p \in Places(i) PROVE FALSE
        <5>1. p[1] \in DOMAIN sent /\ p[2] \in DOMAIN sent[p[1]].pkts /\ sent[p[1]].pkts[p[2]].pkt = i
          BY PlacesAre
        <5> QED BY <3>2, <5>1 DEF IInv, SentInv, Rightful
      <4>2. Places(i) = {}
        BY <4>1
      <4> QED BY <3>2, <4>2, FS_EmptySet
    <3> QED BY <3>1, <3>2
  <2>4. ASSUME NEW i \in 1 .. counted, NEW j \in 1 .. counted, NEW p \in Places(i),
               NEW r \in Places(j), i < j
        PROVE  p[1] < r[1] \/ (p[1] = r[1] /\ p[2] < r[2])
    <3>1. i \in Nat /\ j \in Nat /\ ~(j <= i)
      BY <2>2, <2>4
    <3> QED BY <3>1, PlacesOrdered
  <2>5. ForwardedOnce
    BY <2>1, <2>3, <2>4 DEF ForwardedOnce
  <2> QED BY <2>5 DEF SentOnce, IInv, ReportInv
<1> QED BY UpInvariance, <1>1, PTL

\* A text in a datagram is what bin_to_b64 made, with room for it, of the payload of a
\* packet that was received.
LEMMA TextOfPacket ==
  ASSUME IInv, NEW d \in DOMAIN sent, NEW k \in DOMAIN sent[d].pkts
  PROVE  LET rxpk == sent[d].pkts[k]
             payload == PAYLOAD[rxpk.pkt]
         IN  /\ rxpk.data = bin_to_b64(payload, 341).out
             /\ payload \in Seq(Byte) /\ Len(payload) \in Nat /\ Len(payload) <= 255
             /\ 341 >= 4 * ((Len(payload) + 2) \div 3) + 1
<1> DEFINE rxpk == sent[d].pkts[k]
           payload == PAYLOAD[rxpk.pkt]
<1>1. rxpk.pkt \in 1 .. counted /\ rxpk.data = bin_to_b64(payload, 341).out
  BY DEF IInv, SentInv, Rightful
<1>2. rxpk.pkt \in 1 .. MAX_PACKETS
  <2>1. /\ counted \in Nat /\ counted <= MAX_PACKETS /\ MAX_PACKETS \in Nat
    BY ListsAre, UpConstants DEF IInv, PacketsInv
  <2> HIDE DEF rxpk
  <2> QED BY <1>1, <2>1
<1>3. payload \in Seq(Byte) /\ Len(payload) <= 255
  BY <1>2, UpConstants
<1> HIDE DEF rxpk, payload
<1>4. Len(payload) \in Nat
  BY <1>3
<1>5. 341 >= 4 * ((Len(payload) + 2) \div 3) + 1
  <2>1. \A n \in Nat : n <= 255 => (n + 2) \div 3 \in Nat /\ (n + 2) \div 3 <= 85
    BY SMT
  <2> QED BY <1>3, <1>4, <2>1, SMT
<1> QED BY <1>1, <1>3, <1>4, <1>5 DEF rxpk, payload

\* What a server reads: the text of a packet that b64_to_bin would read back.
PayloadReadable ==
  \A d \in DOMAIN sent : \A k \in DOMAIN sent[d].pkts :
    LET rxpk == sent[d].pkts[k]
        payload == PAYLOAD[rxpk.pkt]
    IN  /\ ~b64_to_bin_exits(rxpk.data, 255)
        /\ b64_to_bin(rxpk.data, 255) = Result(Len(payload), payload)

\* Every text of every datagram reads back as the payload of the packet it stands for, to
\* the last byte and for payloads of every length (lora_pkt_fwd.c:1801-1811).
THEOREM PayloadsArrive == Spec => []PayloadReadable
<1>1. IInv => PayloadReadable
  <2> SUFFICES ASSUME IInv, NEW d \in DOMAIN sent, NEW k \in DOMAIN sent[d].pkts
               PROVE  LET rxpk == sent[d].pkts[k]
                          payload == PAYLOAD[rxpk.pkt]
                      IN  /\ ~b64_to_bin_exits(rxpk.data, 255)
                          /\ b64_to_bin(rxpk.data, 255) = Result(Len(payload), payload)
    BY DEF PayloadReadable
  <2> DEFINE rxpk == sent[d].pkts[k]
             payload == PAYLOAD[rxpk.pkt]
  <2>1. /\ rxpk.data = bin_to_b64(payload, 341).out
        /\ payload \in Seq(Byte) /\ Len(payload) \in Nat /\ Len(payload) <= 255
        /\ 341 >= 4 * ((Len(payload) + 2) \div 3) + 1
    BY Zenon, TextOfPacket
  <2> HIDE DEF rxpk, payload
  <2>2. 341 \in Nat /\ 255 \in Nat /\ 255 >= Len(payload)
    BY <2>1, SMT
  <2>3. ~b64_to_bin_exits(rxpk.data, 255) /\ b64_to_bin(rxpk.data, 255) = Result(Len(payload), payload)
    BY <2>1, <2>2, RoundTrip, SMT
  <2> QED BY <2>3 DEF rxpk, payload
<1> QED BY UpInvariance, <1>1, PTL

\* The text of every packet in the datagram just sent is the base64 text of RFC 4648 of
\* the payload of that packet, whatever the payloads and their lengths are: any decoder
\* reads it, not only the forwarder's own (lora_pkt_fwd.c:1801-1811, base64.c:98-170).
THEOREM PayloadsEncoded == Spec => []PayloadEncoded
<1>1. IInv => PayloadEncoded
  <2> SUFFICES ASSUME IInv, upc = "meas", NEW k \in DOMAIN sent[Len(sent)].pkts
               PROVE  Encodes(sent[Len(sent)].pkts[k].data, PAYLOAD[sent[Len(sent)].pkts[k].pkt])
    BY DEF PayloadEncoded
  <2> DEFINE d == Len(sent)
  <2>1. d \in DOMAIN sent
    <3>1. sent \in Seq(Datagram) /\ sent # <<>>
      BY ListsAre DEF IInv, PacketsInv
    <3> QED BY <3>1
  <2> DEFINE rxpk == sent[d].pkts[k]
             payload == PAYLOAD[rxpk.pkt]
  <2>2. /\ rxpk.data = bin_to_b64(payload, 341).out
        /\ payload \in Seq(Byte) /\ Len(payload) \in Nat /\ Len(payload) <= 255
        /\ 341 >= 4 * ((Len(payload) + 2) \div 3) + 1
    BY Zenon, <2>1, TextOfPacket
  <2> HIDE DEF rxpk, payload
  <2>3. 341 \in Nat
    OBVIOUS
  <2>4. Encodes(rxpk.data, payload)
    BY Zenon, <2>2, <2>3, PayloadText
  <2> QED BY Zenon, <2>4 DEF rxpk, payload, d
<1> QED BY UpInvariance, <1>1, PTL
=============================================================================
