------------------------------ MODULE Upstream ------------------------------
(***************************************************************************)
(* thread_up of lora_pkt_fwd.c, which forwards the packets the concentrator *)
(* receives, and the loop of main, which turns thread_up's counters into a  *)
(* status report that thread_up sends along.                                *)
(*                                                                          *)
(* A packet is its number, the status of its CRC and its payload; what else *)
(* a datagram says about it is left out.  The uplink carries datagrams to   *)
(* the client and acknowledgements back; the client may acknowledge any     *)
(* datagram at any time, more than once or never.                           *)
(***************************************************************************)
EXTENDS Base64, FiniteSets

CONSTANTS
  NB_PKT_MAX,    \* packets fetched at a time
  FORWARDED,     \* the CRC statuses that are forwarded (fwd_valid_pkt, fwd_error_pkt,
                 \*   fwd_nocrc_pkt)
  PAYLOAD,       \* the payloads of the packets, by their numbers
  TOKENS,        \* the random tokens of datagrams
  MAX_PACKETS,   \* bound: packets received by the concentrator
  MAX_REPORTS,   \* bound: status reports
  MAX_ACKS       \* bound: acknowledgements the client sends

CrcStatus == {"OK", "BAD", "NOCRC"}

ASSUME UpConstants ==
  /\ NB_PKT_MAX \in Nat \ {0}
  /\ FORWARDED \subseteq CrcStatus
  /\ TOKENS # {}
  /\ MAX_PACKETS \in Nat
  /\ PAYLOAD \in [1 .. MAX_PACKETS -> Seq(Byte)]
  /\ \A i \in 1 .. MAX_PACKETS : Len(PAYLOAD[i]) <= 255
  /\ MAX_REPORTS \in Nat
  /\ MAX_ACKS \in Nat

VARIABLES
  received,      \* the statuses of the packets fetched so far, in order
  counted,       \* how many of them have been through the filter
  upc,           \* where thread_up is
  dgram,         \*   the datagram it composes
  send_report,   \*   its copy of report_ready
  tries,         \*   attempts to receive the acknowledgement
  meas,          \* the counters meas_nb_rx_* and meas_up_*
  mx_meas_up,    \* "free", or "up" while thread_up waits for an acknowledgement
  report_ready,
  mpc,           \* where main is
  reports,       \* the copies of the counters main has made; the last is the one
                 \*   in status_report, or about to be
  sent,          \* the datagrams sent on the uplink
  acks,          \* the tokens of the acknowledgements not yet received
  nacks          \* bound: acknowledgements sent

up_vars == <<received, counted, upc, dgram, send_report, tries>>
main_vars == <<mpc, reports>>
link_vars == <<sent, acks, nacks>>
vars == <<received, counted, upc, dgram, send_report, tries, meas, mx_meas_up,
          report_ready, mpc, reports, sent, acks, nacks>>

Counters == [rcv : Nat, ok : Nat, bad : Nat, nocrc : Nat, fwd : Nat, dgrams : Nat, ack : Nat]
Zero == [rcv |-> 0, ok |-> 0, bad |-> 0, nocrc |-> 0, fwd |-> 0, dgrams |-> 0, ack |-> 0]

\* report: the number of the status report in the datagram, 0 when there is none.
Rxpk == [pkt : Nat, data : Seq(Char)]
Datagram == [token : TOKENS, pkts : Seq(Rxpk), report : Nat]
Empty(token) == [token |-> token, pkts |-> <<>>, report |-> 0]
NoToken == CHOOSE token \in TOKENS : TRUE

TypeOK ==
  /\ received \in Seq(CrcStatus \cup {"UNKNOWN"})
  /\ counted \in 0 .. Len(received)
  /\ upc \in {"fetch", "count", "pack", "report", "send", "meas", "ack", "exited"}
  /\ dgram \in Datagram
  /\ send_report \in BOOLEAN
  /\ tries \in 0 .. 1
  /\ meas \in Counters
  /\ mx_meas_up \in {"free", "up"}
  /\ report_ready \in BOOLEAN
  /\ mpc \in {"wait", "report"}
  /\ reports \in Seq(Counters)
  /\ sent \in Seq(Datagram)
  /\ acks \in Seq(TOKENS)
  /\ nacks \in Nat

Init ==
  /\ received = <<>> /\ counted = 0
  /\ upc = "fetch" /\ dgram = Empty(NoToken) /\ send_report = FALSE /\ tries = 0
  /\ meas = Zero
  /\ mx_meas_up = "free"
  /\ report_ready = FALSE
  /\ mpc = "wait" /\ reports = <<>>
  /\ sent = <<>> /\ acks = <<>> /\ nacks = 0

-----------------------------------------------------------------------------
(* thread_up.                                                              *)

\* Mutant: a report waits for a packet to go with.
UpFetchPacketsOnly ==
  /\ upc = "fetch"
  /\ \E n \in 0 .. NB_PKT_MAX :
       /\ Len(received) + n <= MAX_PACKETS
       /\ \E new \in [1 .. n -> CrcStatus \cup {"UNKNOWN"}] : received' = received \o new
  /\ send_report' = report_ready
  /\ IF received' = received
       THEN UNCHANGED <<upc, dgram>>
       ELSE /\ \E token \in TOKENS : dgram' = Empty(token)
            /\ upc' = "count"
  /\ UNCHANGED <<counted, tries, meas, mx_meas_up, report_ready, main_vars, link_vars>>

\* lgw_receive, and report_ready is read without its mutex; with nothing to do
\* the thread sleeps and tries again.
UpFetch ==
  /\ upc = "fetch"
  /\ \E n \in 0 .. NB_PKT_MAX :
       /\ Len(received) + n <= MAX_PACKETS
       /\ \E new \in [1 .. n -> CrcStatus \cup {"UNKNOWN"}] : received' = received \o new
  /\ send_report' = report_ready
  /\ IF received' = received /\ ~report_ready
       THEN UNCHANGED <<upc, dgram>>
       ELSE /\ \E token \in TOKENS : dgram' = Empty(token)
            /\ upc' = "count"
  /\ UNCHANGED <<counted, tries, meas, mx_meas_up, report_ready, main_vars, link_vars>>

\* exit(EXIT_FAILURE): the fetch fails, or a field of a packet cannot be told.
UpExit ==
  /\ upc \in {"fetch", "pack"}
  /\ upc' = "exited"
  /\ UNCHANGED <<received, counted, dgram, send_report, tries, meas, mx_meas_up,
                 report_ready, main_vars, link_vars>>

\* The counters after a packet of the given status.
Counted(c, crc) ==
  [c EXCEPT !.rcv = @ + 1,
            !.ok = IF crc = "OK" THEN @ + 1 ELSE @,
            !.bad = IF crc = "BAD" THEN @ + 1 ELSE @,
            !.nocrc = IF crc = "NOCRC" THEN @ + 1 ELSE @,
            !.fwd = IF crc \in FORWARDED THEN @ + 1 ELSE @]

\* The filter: a packet is counted under the mutex, and dropped or kept.
UpCount ==
  /\ upc = "count"
  /\ mx_meas_up = "free"
  /\ counted < Len(received)
  /\ counted' = counted + 1
  /\ meas' = Counted(meas, received[counted + 1])
  /\ upc' = IF received[counted + 1] \in FORWARDED THEN "pack" ELSE "count"
  /\ UNCHANGED <<received, dgram, send_report, tries, mx_meas_up, report_ready,
                 main_vars, link_vars>>

\* The packet is added to the datagram, its payload as text; a text without room
\* for it would end the thread.
UpPack ==
  LET text == bin_to_b64(PAYLOAD[counted], 341)
  IN
  /\ upc = "pack"
  /\ text.ret >= 0
  /\ dgram' = [dgram EXCEPT !.pkts = Append(@, [pkt |-> counted, data |-> text.out])]
  /\ upc' = "count"
  /\ UNCHANGED <<received, counted, send_report, tries, meas, mx_meas_up, report_ready,
                 main_vars, link_vars>>

\* All packets are done: nothing is sent when there is neither packet nor report.
UpCompose ==
  /\ upc = "count"
  /\ counted = Len(received)
  /\ upc' = IF send_report THEN "report" ELSE IF dgram.pkts = <<>> THEN "fetch" ELSE "send"
  /\ UNCHANGED <<received, counted, dgram, send_report, tries, meas, mx_meas_up,
                 report_ready, main_vars, link_vars>>

\* Mutant: report_ready is not cleared.
UpReportKept ==
  /\ upc = "report"
  /\ dgram' = [dgram EXCEPT !.report = IF mpc = "report" THEN Len(reports) - 1 ELSE Len(reports)]
  /\ upc' = "send"
  /\ UNCHANGED <<report_ready, received, counted, send_report, tries, meas, mx_meas_up,
                 main_vars, link_vars>>

\* Under mx_stat_rep the report in status_report is taken, which may be a newer
\* one than the one that was seen.
UpReport ==
  /\ upc = "report"
  /\ report_ready' = FALSE
  /\ dgram' = [dgram EXCEPT !.report = IF mpc = "report" THEN Len(reports) - 1 ELSE Len(reports)]
  /\ upc' = "send"
  /\ UNCHANGED <<received, counted, send_report, tries, meas, mx_meas_up,
                 main_vars, link_vars>>

\* send.
UpSend ==
  /\ upc = "send"
  /\ sent' = Append(sent, dgram)
  /\ upc' = "meas"
  /\ UNCHANGED <<received, counted, dgram, send_report, tries, meas, mx_meas_up,
                 report_ready, main_vars, acks, nacks>>

\* Mutant: the mutex is not held while the acknowledgement is waited for.
UpMeasReleases ==
  /\ upc = "meas"
  /\ mx_meas_up = "free"
  /\ meas' = [meas EXCEPT !.dgrams = @ + 1]
  /\ upc' = "ack"
  /\ UNCHANGED <<received, counted, dgram, send_report, tries, mx_meas_up, report_ready,
                 main_vars, link_vars>>

\* The datagram is counted; the mutex is kept until the wait for its
\* acknowledgement is over.
UpMeas ==
  /\ upc = "meas"
  /\ mx_meas_up = "free"
  /\ mx_meas_up' = "up"
  /\ meas' = [meas EXCEPT !.dgrams = @ + 1]
  /\ upc' = "ack"
  /\ UNCHANGED <<received, counted, dgram, send_report, tries, report_ready,
                 main_vars, link_vars>>

\* One of the two attempts to receive the acknowledgement: it times out, gives
\* one for another datagram, or the one waited for, which ends the wait.
UpAck ==
  LET matches == acks # <<>> /\ Head(acks) = dgram.token
      over == matches \/ tries = 1
  IN  /\ upc = "ack"
      /\ acks' = IF acks = <<>> THEN acks ELSE Tail(acks)
      /\ meas' = IF matches THEN [meas EXCEPT !.ack = @ + 1] ELSE meas
      /\ tries' = IF over THEN 0 ELSE tries + 1
      /\ upc' = IF over THEN "fetch" ELSE "ack"
      /\ mx_meas_up' = IF over THEN "free" ELSE mx_meas_up
      /\ dgram' = IF over THEN Empty(NoToken) ELSE dgram
      /\ UNCHANGED <<received, counted, send_report, report_ready, main_vars, sent, nacks>>

UpStep ==
  UpCount \/ UpPack \/ UpCompose \/ UpReport \/ UpSend \/ UpMeas \/ UpAck

-----------------------------------------------------------------------------
(* main, and the client.                                                   *)

\* The counters are copied and set back to zero.
StatCopy ==
  /\ mpc = "wait"
  /\ mx_meas_up = "free"
  /\ Len(reports) < MAX_REPORTS
  /\ reports' = Append(reports, meas)
  /\ meas' = Zero
  /\ mpc' = "report"
  /\ UNCHANGED <<up_vars, mx_meas_up, report_ready, link_vars>>

\* The copy is formatted into status_report, over the report before.
StatReport ==
  /\ mpc = "report"
  /\ report_ready' = TRUE
  /\ mpc' = "wait"
  /\ UNCHANGED <<up_vars, meas, mx_meas_up, reports, link_vars>>

\* The client acknowledges a datagram, a recent or an old one.
Acknowledge ==
  /\ nacks < MAX_ACKS
  /\ nacks' = nacks + 1
  /\ \E i \in DOMAIN sent : acks' = Append(acks, sent[i].token)
  /\ UNCHANGED <<up_vars, meas, mx_meas_up, report_ready, main_vars, sent>>

Next == UpFetch \/ UpExit \/ UpStep \/ StatCopy \/ StatReport \/ Acknowledge

\* thread_up and main are scheduled; the concentrator may receive nothing, and
\* no interval has to end.
Fairness == WF_vars(UpFetch) /\ WF_vars(UpStep) /\ WF_vars(StatReport)

Spec == Init /\ [][Next]_vars /\ Fairness

-----------------------------------------------------------------------------
(* Properties.                                                             *)

\* The sum of a field over all the reports, and what is not yet reported.
Total(field) ==
  LET sum[n \in 0 .. Len(reports)] ==
        IF n = 0 THEN meas[field] ELSE sum[n - 1] + reports[n][field]
  IN  sum[Len(reports)]

Processed(crcs) == Cardinality({i \in 1 .. counted : received[i] \in crcs})

\* Every packet is in exactly one report or still in the counters.
AddUp ==
  /\ Total("rcv") = counted
  /\ Total("ok") = Processed({"OK"})
  /\ Total("fwd") = Processed(FORWARDED)
  /\ Total("dgrams") = IF upc = "meas" THEN Len(sent) - 1 ELSE Len(sent)

\* No report has more acknowledgements than datagrams, nor more packets forwarded
\* than received.
ReportConsistent ==
  \A n \in DOMAIN reports :
    /\ reports[n].ack <= reports[n].dgrams
    /\ reports[n].fwd <= reports[n].rcv
    /\ reports[n].ok + reports[n].bad + reports[n].nocrc <= reports[n].rcv

\* Whenever main copies the counters and resets them, nothing is lost or counted twice,
\* and the counters of one datagram are not torn apart, although its acknowledgement
\* comes later than the datagram is counted (lora_pkt_fwd.c:1269-1287, 1862-1890).
StatsExact == AddUp /\ ReportConsistent

\* Every packet that passes the filter is in one datagram, the others in none,
\* and the packets are sent in the order they were received.
Places(i) == {p \in {<<d, k>> : d \in DOMAIN sent, k \in 1 .. MAX_PACKETS} :
                p[2] \in DOMAIN sent[p[1]].pkts /\ sent[p[1]].pkts[p[2]].pkt = i}
ForwardedOnce ==
  /\ \A d \in DOMAIN sent : sent[d].pkts # <<>> \/ sent[d].report # 0
  /\ upc = "fetch" =>
       \A i \in 1 .. counted : Cardinality(Places(i)) = IF received[i] \in FORWARDED THEN 1 ELSE 0
  /\ \A i, j \in 1 .. counted : \A p \in Places(i), r \in Places(j) :
       i < j => p[1] < r[1] \/ (p[1] = r[1] /\ p[2] < r[2])

\* The text that stands for a packet in a datagram is the base64 text of the payload
\* of that very packet, to the last bit and with its padding
\* (lora_pkt_fwd.c:1801-1811, base64.c:98-170).
PayloadEncoded ==
  upc = "meas" =>
    \A k \in DOMAIN sent[Len(sent)].pkts :
      LET rxpk == sent[Len(sent)].pkts[k]
      IN  Encodes(rxpk.data, PAYLOAD[rxpk.pkt])

\* A status report is sent at most once, and an older one never after a newer.
ReportsOnce ==
  \A d, e \in DOMAIN sent :
    d < e /\ sent[d].report # 0 /\ sent[e].report # 0 => sent[d].report < sent[e].report

\* Packets and reports leave once and in order, although report_ready is read without
\* its mutex and main writes reports meanwhile; no datagram is empty
\* (lora_pkt_fwd.c:1521, 1821-1837).
SentOnce == ForwardedOnce /\ ReportsOnce

\* A report that is ready gets sent, or thread_up has failed.
ReportSent == report_ready ~> ~report_ready \/ upc = "exited"
=============================================================================
