----------------------------- MODULE JitThreads -----------------------------
(***************************************************************************)
(* thread_down and thread_jit of lora_pkt_fwd.c around the JiT queue, the   *)
(* concentrator they drive and the clock they race against.                 *)
(*                                                                          *)
(* thread_down refills the queue with beacons and enqueues the downlinks it *)
(* receives; thread_jit polls the queue, takes the packet that is due and   *)
(* programs the concentrator with it.  Each mutex section is one step, and  *)
(* everything a thread has read is a value of its own that can be stale     *)
(* when it is used.                                                         *)
(*                                                                          *)
(* A local variable that is dead (written again before it is next read) is  *)
(* set back to its initial value.                                           *)
(*                                                                          *)
(* `now' is the true time in ticks since the GPS epoch; the code only sees  *)
(* Count(t), the wrapped counter.  The measurement counters, and what       *)
(* stops the threads (exit_sig, quit_sig), are not part of this module.     *)
(***************************************************************************)
EXTENDS JitQueue

CONSTANTS
  START_TIME,       \* the time at which the threads start
  HORIZON,          \* bound: the clock stops here
  COUNTER_ORIGIN,   \* counter value at time 0: chosen so that it wraps
  BEACON_PERIOD,    \* beacon_period, 0 when beacons are off
  GPS_AGE,          \* the oldest a valid time_reference_gps can be
  GPS_FAILS,        \* whether the GPS reference can become invalid
  JIT_LAG,          \* how far the clock runs between two polls of thread_jit
  DOWN_LAG,         \* how far it runs between two steps of thread_down that
                    \*   read the time, once a recv has returned
  DOWN_TYPES,       \* the classes of the downlinks the server sends
  OFFSETS,          \* their time stamps, relative to the time of arrival
  AIRTIMES,         \* their times on air
  MAX_REQUESTS,     \* bound: number of downlinks
  MAX_RETRY         \* bound: consecutive failed attempts to queue a beacon

ASSUME ThreadConstants ==
  /\ START_TIME \in Nat \ {0}
  /\ HORIZON \in Nat
  /\ COUNTER_ORIGIN \in Nat
  /\ BEACON_PERIOD \in Nat
  /\ GPS_AGE \in Nat
  /\ GPS_FAILS \in BOOLEAN
  /\ JIT_LAG \in Nat
  /\ DOWN_LAG \in Nat
  /\ DOWN_TYPES \subseteq {"A", "B", "C"}
  /\ OFFSETS \subseteq Int
  /\ AIRTIMES \subseteq Nat
  /\ MAX_REQUESTS \in Nat
  /\ MAX_RETRY \in Nat

VARIABLES
  now,          \* true time
  nodes,        \* jit_queue.nodes[0 .. num_pkt-1]
  num_beacon,   \* jit_queue.num_beacon, a uint8_t
  mx_jit_queue, \* "free", or "jit" while the scan of jit_peek holds it
  gps_ok,       \* gps_ref_valid /\ xtal_correct_ok
  tx,           \* what the concentrator is programmed with
  jpc,          \* thread_jit: where it is
  jtime,        \*   current_concentrator_time, as the true time it was read
  jfrom,        \*   first index the scan of jit_peek still looks at
  jidx,         \*   pkt_index
  jpkt,         \*   pkt, as the node it was taken from
  dpc,          \* thread_down: where it is
  dtime,        \*   when it read the time last: recv_time after a recv,
                \*   then current_concentrator_time
  dmsg,         \*   the downlink received, or NoPacket
  dpkt,         \*   the packet given to jit_enqueue
  dslot,        \*   next_beacon_gps_time
  beacon_loop,  \*   beacons still to be queued, a uint8_t
  retry,        \*   attempts that failed since the last beacon queued
  last_beacon,  \*   last_beacon_gps_time, 0 when there is none
  requests      \* bound: downlinks received so far

queue_vars == <<nodes, num_beacon>>
jit_vars == <<jpc, jtime, jfrom, jidx, jpkt>>
down_vars == <<dpc, dtime, dmsg, dpkt, dslot, beacon_loop, retry, last_beacon, requests>>
env_vars == <<now, gps_ok, tx>>
vars == <<now, nodes, num_beacon, mx_jit_queue, gps_ok, tx,
          jpc, jtime, jfrom, jidx, jpkt,
          dpc, dtime, dmsg, dpkt, dslot, beacon_loop, retry, last_beacon, requests>>

NoPacket == [type |-> "NONE", count |-> 0, toa |-> 0]
NoTx == [start |-> 0, stop |-> 0]

\* Mutant: the counter does not wrap.
CountUnwrapped(t) == t + COUNTER_ORIGIN

\* The concentrator counter at a given time: get_concentrator_time and
\* lgw_gps2cnt both end up with this value modulo 2^32.
Count(t) == (t + COUNTER_ORIGIN) % COUNTER_RANGE

\* lgw_status(TX_STATUS): programmed and waiting, on the air, or free.
TxStatus ==
  IF now < tx.start THEN "TX_SCHEDULED"
  ELSE IF now < tx.stop THEN "TX_EMITTING"
  ELSE "TX_FREE"

TypeOK ==
  /\ now \in Nat
  /\ nodes \in Seq(Node)
  /\ num_beacon \in 0 .. UINT8_RANGE - 1
  /\ mx_jit_queue \in {"free", "jit"}
  /\ gps_ok \in BOOLEAN
  /\ tx \in [start : Nat, stop : Nat]
  /\ jpc \in {"poll", "peek", "peek_lock", "scan", "dequeue", "dequeue_lock",
              "status", "send"}
  /\ jtime \in Nat
  /\ jfrom \in {1, 2}
  /\ jidx \in Nat
  /\ jpkt \in Node
  /\ dpc \in {"recv", "refill", "full", "enqueue"}
  /\ dtime \in Nat
  /\ dmsg \in Packet \cup {NoPacket}
  /\ dpkt \in Packet \cup {NoPacket}
  /\ dslot \in Nat
  /\ beacon_loop \in 0 .. UINT8_RANGE - 1
  /\ retry \in Nat
  /\ last_beacon \in Nat
  /\ requests \in Nat

\* Threads just created, jit_queue_init done on the zeroed global.
Init ==
  /\ now = START_TIME
  /\ nodes = <<>>
  /\ num_beacon = 0
  /\ mx_jit_queue = "free"
  /\ gps_ok = TRUE
  /\ tx = NoTx
  /\ jpc = "poll" /\ jtime = START_TIME /\ jfrom = 1 /\ jidx = 0 /\ jpkt = ZeroNode
  /\ dpc = "recv" /\ dtime = 0 /\ dmsg = NoPacket /\ dpkt = NoPacket
  /\ dslot = 0 /\ beacon_loop = 0 /\ retry = 0 /\ last_beacon = 0
  /\ requests = 0

-----------------------------------------------------------------------------
(* The environment.                                                        *)

\* Time passes; a transmission that is over leaves the modem free.  JIT_LAG and
\* DOWN_LAG bound how long the scheduler can hold up a thread after it has read
\* the time; set to HORIZON they allow every delay.
Tick ==
  /\ now < HORIZON
  /\ now - jtime < JIT_LAG
  /\ dpc # "recv" => now - dtime < DOWN_LAG
  /\ now' = now + 1
  /\ tx' = IF now' >= tx.stop THEN NoTx ELSE tx
  /\ UNCHANGED <<queue_vars, mx_jit_queue, gps_ok, jit_vars, down_vars>>

\* thread_valid finds the GPS reference too old, or valid again.
GpsChange ==
  /\ GPS_FAILS
  /\ gps_ok' = ~gps_ok
  /\ UNCHANGED <<now, tx, queue_vars, mx_jit_queue, jit_vars, down_vars>>

-----------------------------------------------------------------------------
(* thread_jit.                                                             *)

\* wait_ms(10) is over and the concentrator time is read.
JitPoll ==
  /\ jpc = "poll"
  /\ jtime' = now
  /\ jpc' = "peek"
  /\ UNCHANGED <<jfrom, jidx, jpkt, mx_jit_queue, queue_vars, env_vars, down_vars>>

\* jit_peek: jit_queue_is_empty.
JitPeekEmpty ==
  /\ jpc = "peek"
  /\ mx_jit_queue = "free"
  /\ jpc' = IF nodes = <<>> THEN "poll" ELSE "peek_lock"
  /\ UNCHANGED <<jtime, jfrom, jidx, jpkt, mx_jit_queue, queue_vars, env_vars, down_vars>>

\* jit_peek: the mutex is taken and the scan begins at index 0.
JitPeekLock ==
  /\ jpc = "peek_lock"
  /\ mx_jit_queue = "free"
  /\ mx_jit_queue' = "jit"
  /\ jpc' = "scan"
  /\ UNCHANGED <<jtime, jfrom, jidx, jpkt, queue_vars, env_vars, down_vars>>

\* num_beacon-- where the node removed is a beacon.
BeaconsWithout(node) ==
  IF node.type = "BEACON" THEN (num_beacon - 1) % UINT8_RANGE ELSE num_beacon

\* Mutant: a purged beacon is still counted.
JitPurgeUncounted ==
  LET old == OutdatedFrom(nodes, jfrom, Count(jtime))
  IN  /\ jpc = "scan"
      /\ old # {}
      /\ nodes' = Removed(nodes, Least(old))
      /\ jfrom' = IF Least(old) = 1 THEN 2 ELSE jfrom
      /\ UNCHANGED <<num_beacon, jpc, jtime, jidx, jpkt, mx_jit_queue, env_vars, down_vars>>

\* jit_peek: the scan meets an outdated node and drops it.  `i = 0; continue'
\* resumes at index 1, so when node 0 is dropped its successor is not looked at.
JitPurge ==
  LET old == OutdatedFrom(nodes, jfrom, Count(jtime))
  IN  /\ jpc = "scan"
      /\ old # {}
      /\ num_beacon' = BeaconsWithout(nodes[Least(old)])
      /\ nodes' = Removed(nodes, Least(old))
      /\ jfrom' = IF Least(old) = 1 THEN 2 ELSE jfrom
      /\ UNCHANGED <<jpc, jtime, jidx, jpkt, mx_jit_queue, env_vars, down_vars>>

\* Mutant: the index is one too high.
JitPickBeyond ==
  LET soonest == SoonestFrom(nodes, jfrom, Count(jtime))
      found == /\ jfrom \in DOMAIN nodes
               /\ Due(nodes[soonest], Count(jtime))
  IN  /\ jpc = "scan"
      /\ OutdatedFrom(nodes, jfrom, Count(jtime)) = {}
      /\ jidx' = IF found THEN soonest + 1 ELSE 0
      /\ jpc' = IF found THEN "dequeue" ELSE "poll"
      /\ jfrom' = 1
      /\ mx_jit_queue' = "free"
      /\ UNCHANGED <<jtime, jpkt, queue_vars, env_vars, down_vars>>

\* jit_peek: the scan is over; the soonest node is the result if it is due.  When
\* no node was looked at the code reads nodes[-1], and -1 is the result whatever
\* it holds.
JitPick ==
  LET soonest == SoonestFrom(nodes, jfrom, Count(jtime))
      found == /\ jfrom \in DOMAIN nodes
               /\ Due(nodes[soonest], Count(jtime))
  IN  /\ jpc = "scan"
      /\ OutdatedFrom(nodes, jfrom, Count(jtime)) = {}
      /\ jidx' = IF found THEN soonest ELSE 0
      /\ jpc' = IF found THEN "dequeue" ELSE "poll"
      /\ jfrom' = 1
      /\ mx_jit_queue' = "free"
      /\ UNCHANGED <<jtime, jpkt, queue_vars, env_vars, down_vars>>

\* jit_dequeue: jit_queue_is_empty.
JitDequeueEmpty ==
  /\ jpc = "dequeue"
  /\ mx_jit_queue = "free"
  /\ jpc' = IF nodes = <<>> THEN "poll" ELSE "dequeue_lock"
  /\ jidx' = IF nodes = <<>> THEN 0 ELSE jidx
  /\ UNCHANGED <<jtime, jfrom, jpkt, mx_jit_queue, queue_vars, env_vars, down_vars>>

\* jit_dequeue: whatever is at pkt_index now is taken out.
JitDequeue ==
  /\ jpc = "dequeue_lock"
  /\ mx_jit_queue = "free"
  /\ jpkt' = NodeAt(nodes, jidx)
  /\ num_beacon' = BeaconsWithout(NodeAt(nodes, jidx))
  /\ nodes' = Removed(nodes, jidx)
  /\ jidx' = 0
  /\ jpc' = "status"
  /\ UNCHANGED <<jtime, jfrom, mx_jit_queue, env_vars, down_vars>>

\* lgw_status: a concentrator that says it is emitting loses the packet; one that
\* has a packet scheduled, or whose status cannot be read, is programmed.
JitStatus ==
  /\ jpc = "status"
  /\ \/ TxStatus = "TX_EMITTING" /\ jpc' = "poll" /\ jpkt' = ZeroNode
     \/ jpc' = "send" /\ UNCHANGED jpkt
  /\ UNCHANGED <<jtime, jfrom, jidx, mx_jit_queue, queue_vars, env_vars, down_vars>>

\* lgw_send: the concentrator will emit when its counter reaches count_us.
JitSend ==
  LET start == now + Elapsed(jpkt.count, Count(now))
  IN  /\ jpc = "send"
      /\ tx' = [start |-> start, stop |-> start + jpkt.post]
      /\ jpc' = "poll"
      /\ jpkt' = ZeroNode
      /\ UNCHANGED <<now, gps_ok, jtime, jfrom, jidx, mx_jit_queue,
                     queue_vars, down_vars>>

\* lgw_send fails: the packet is counted as failed and given up.
JitSendFail ==
  /\ jpc = "send"
  /\ jpc' = "poll"
  /\ jpkt' = ZeroNode
  /\ UNCHANGED <<jtime, jfrom, jidx, mx_jit_queue, queue_vars, env_vars, down_vars>>

-----------------------------------------------------------------------------
(* thread_down.                                                            *)

\* recv returns, with a downlink or without; the number of missing beacons is
\* read without the mutex.
DownRecv ==
  /\ dpc = "recv"
  /\ \/ /\ dmsg' = NoPacket
        /\ UNCHANGED requests
     \/ /\ requests < MAX_REQUESTS
        /\ requests' = requests + 1
        /\ \E type \in DOWN_TYPES, d \in OFFSETS, toa \in AIRTIMES :
             dmsg' = [type |-> type, toa |-> toa,
                      count |-> IF type = "C" THEN 0 ELSE Count(now + d)]
  /\ beacon_loop' = (JIT_NUM_BEACON_IN_QUEUE - num_beacon) % UINT8_RANGE
  /\ retry' = 0
  /\ dtime' = now
  /\ dpc' = "refill"
  /\ UNCHANGED <<dpkt, dslot, last_beacon, mx_jit_queue, queue_vars,
                 env_vars, jit_vars>>

\* The refill loop of beacons goes on.
Refilling == beacon_loop # 0 /\ BEACON_PERIOD # 0 /\ gps_ok

\* The GPS time of the beacon to queue next, from the reference `ref'.
NextBeacon(ref) ==
  (IF last_beacon = 0
     THEN ref + (BEACON_PERIOD - (ref % BEACON_PERIOD))
     ELSE last_beacon + BEACON_PERIOD)
  + retry * BEACON_PERIOD

\* One round of the refill loop up to the call of jit_enqueue: the slot is
\* chosen from the last GPS reference and the concentrator time is read.
DownBeacon ==
  /\ dpc = "refill"
  /\ Refilling
  /\ retry < MAX_RETRY
  /\ \E age \in 0 .. GPS_AGE : age <= now /\ dslot' = NextBeacon(now - age)
  /\ dpkt' = [type |-> "BEACON", toa |-> 0, count |-> Count(dslot')]
  /\ dtime' = now
  /\ dpc' = "full"
  /\ UNCHANGED <<dmsg, beacon_loop, retry, last_beacon, requests, mx_jit_queue,
                 queue_vars, env_vars, jit_vars>>

\* The refill loop is over: back to recv, or on to the downlink received, up to the
\* call of jit_enqueue.  The time stamp the call tries first for a Class C downlink
\* depends on the time alone, so its conversion is settled here.
DownRefilled ==
  /\ dpc = "refill"
  /\ ~Refilling
  /\ IF dmsg = NoPacket
       THEN dpc' = "recv" /\ dtime' = 0 /\ UNCHANGED dpkt
       ELSE /\ dpc' = "full"
            /\ dtime' = now
            /\ IF dmsg.type = "C"
                 THEN \E first \in AsapTimes(Count(now)) :
                        dpkt' = [dmsg EXCEPT !.count = first]
                 ELSE dpkt' = dmsg
  /\ dmsg' = NoPacket
  /\ beacon_loop' = 0
  /\ retry' = 0
  /\ UNCHANGED <<dslot, last_beacon, requests, mx_jit_queue,
                 queue_vars, env_vars, jit_vars>>

\* What thread_down does with the answer of jit_enqueue: a beacon queued is the
\* reference for the next, one refused is tried a period later; a downlink is
\* answered with a TX_ACK and done with.
DownAnswered(err) ==
  /\ IF dpkt.type = "BEACON"
       THEN /\ dpc' = "refill"
            /\ beacon_loop' = IF err = "OK" THEN beacon_loop - 1 ELSE beacon_loop
            /\ retry' = IF err = "OK" THEN 0 ELSE retry + 1
            /\ last_beacon' = IF err = "OK" THEN dslot ELSE last_beacon
       ELSE /\ dpc' = "recv"
            /\ UNCHANGED <<beacon_loop, retry, last_beacon>>
  /\ dpkt' = NoPacket
  /\ dslot' = 0
  /\ dtime' = IF dpkt.type = "BEACON" THEN dtime ELSE 0
  /\ UNCHANGED <<dmsg, requests>>

\* Mutant: the queue counts as full one node too late.
DownFullLate ==
  /\ dpc = "full"
  /\ mx_jit_queue = "free"
  /\ IF Len(nodes) > JIT_QUEUE_MAX
       THEN DownAnswered("FULL")
       ELSE /\ dpc' = "enqueue"
            /\ UNCHANGED <<dtime, dmsg, dpkt, dslot, beacon_loop, retry, last_beacon,
                           requests>>
  /\ UNCHANGED <<mx_jit_queue, queue_vars, env_vars, jit_vars>>

\* jit_enqueue: jit_queue_is_full.
DownFull ==
  /\ dpc = "full"
  /\ mx_jit_queue = "free"
  /\ IF Len(nodes) = JIT_QUEUE_MAX
       THEN DownAnswered("FULL")
       ELSE /\ dpc' = "enqueue"
            /\ UNCHANGED <<dtime, dmsg, dpkt, dslot, beacon_loop, retry, last_beacon,
                           requests>>
  /\ UNCHANGED <<mx_jit_queue, queue_vars, env_vars, jit_vars>>

\* The packet jit_enqueue is about to judge, and its answer.
Judged == Timed(nodes, dpkt)
Answer == Verdict(nodes, Count(dtime), Judged)

\* jit_enqueue: the part under the mutex.
DownEnqueue ==
  /\ dpc = "enqueue"
  /\ mx_jit_queue = "free"
  /\ IF Answer = "OK"
       THEN /\ nodes' = Inserted(nodes, Judged)
            /\ num_beacon' = IF dpkt.type = "BEACON"
                               THEN (num_beacon + 1) % UINT8_RANGE ELSE num_beacon
       ELSE UNCHANGED queue_vars
  /\ DownAnswered(Answer)
  /\ UNCHANGED <<mx_jit_queue, env_vars, jit_vars>>

-----------------------------------------------------------------------------

JitNext == \/ JitPoll \/ JitPeekEmpty \/ JitPeekLock \/ JitPurge \/ JitPick
           \/ JitDequeueEmpty \/ JitDequeue \/ JitStatus \/ JitSend \/ JitSendFail

DownNext == DownRecv \/ DownBeacon \/ DownRefilled \/ DownFull \/ DownEnqueue

Next == Tick \/ GpsChange \/ JitNext \/ DownNext

Spec == Init /\ [][Next]_vars

-----------------------------------------------------------------------------
(* Properties.                                                             *)

\* num_pkt never exceeds the array nodes[JIT_QUEUE_MAX], although
\* jit_queue_is_full is asked in one mutex section and the node is stored in
\* the next (jitqueue.c:147 and 303).
QueueWithinBounds == Len(nodes) <= JIT_QUEUE_MAX

\* num_beacon is the number of beacons in the queue, through insertion, purge
\* and removal, and together with the beacons the refill loop still has to queue
\* it never exceeds JIT_NUM_BEACON_IN_QUEUE: beacon_loop is computed from an
\* unlocked read of num_beacon and would wrap to 255 (lora_pkt_fwd.c:2104).
BeaconsCounted ==
  /\ num_beacon = Cardinality(Beacons(nodes))
  /\ num_beacon <= JIT_NUM_BEACON_IN_QUEUE
  /\ dpc # "recv" => num_beacon + beacon_loop <= JIT_NUM_BEACON_IN_QUEUE

\* Two nodes of the queue never overlap on the air: each starts after the other
\* has ended, with the start delay and the margin in between, on a counter
\* that wraps (jit_enqueue, criteria 3).
Apart(p, q) == Elapsed(q.count, p.count) > p.post + TX_START_DELAY + TX_MARGIN_DELAY
Disjoint(q) == \A i, j \in DOMAIN q : i # j => Apart(q[i], q[j])
NoOverlap == Disjoint(nodes)

\* The index jit_peek returned still names a node when jit_dequeue uses it, in
\* another mutex section: thread_jit is the only one that removes nodes
\* (lora_pkt_fwd.c:2603 and 2606).
IndexInRange == jpc \in {"dequeue", "dequeue_lock"} => jidx \in DOMAIN nodes

\* The node thread_jit has just taken out is the next due of all: no node that
\* remains is to be sent before it.
NextFirst ==
  jpc = "status" =>
    \A i \in DOMAIN nodes : compare(jpkt, nodes[i]) < 0

\* When both threads are scheduled in time no node goes unnoticed until it is
\* outdated, so jit_peek never has to drop one (jitqueue.c:397).
NeverMissed == jpc = "scan" => OutdatedFrom(nodes, 1, Count(jtime)) = {}

\* "Once the packet is queued, it has to be sent over the air": when thread_jit
\* takes a packet out of the queue the concentrator is free, so the packet is
\* not dropped and overwrites no other (jitqueue.h:114, lora_pkt_fwd.c:2630).
ConcentratorFree == jpc \in {"status", "send"} => TxStatus = "TX_FREE"

\* A packet is programmed before the counter reaches the point where its
\* transmission has to start.
ProgrammedInTime ==
  jpc = "send" =>
    Elapsed(jpkt.count, Count(now)) \in TX_START_DELAY .. TX_JIT_DELAY

\* The time stamp first tried for an immediate downlink was cut to the largest value,
\* and the counter is as near its end as criteria 1 forbids.
CutTooLate ==
  /\ Count(dtime) + ASAP_DELAY >= COUNTER_RANGE
  /\ dpkt.count = COUNTER_RANGE - 1
  /\ COUNTER_RANGE - 1 - Count(dtime) <= TX_START_DELAY + TX_MARGIN_DELAY + TX_JIT_DELAY

\* The slot the ASAP search finds passes the three criteria, so an immediate downlink is
\* refused only when the queue is full.  The one exception are the last 32.5 ms before
\* the counter wraps, in a build that converts `time_us + 1E6' to the largest value:
\* there it is refused as too late (jitqueue.c:173-222).
ClassCAccepted ==
  dpc = "enqueue" /\ dpkt.type = "C" => Answer = "OK" \/ (Answer = "TOO_LATE" /\ CutTooLate)

\* A queued beacon keeps its guard time free of Class B downlinks: whichever of
\* the two came first, no ping slot is placed in the guard (jitqueue.c:42).
Guarded(q) ==
  \A i, j \in DOMAIN q :
    q[i].type = "BEACON" /\ q[j].type = "B" =>
      Elapsed(q[i].count, q[j].count) > BEACON_GUARD + q[j].post
GuardKept == Guarded(nodes)
=============================================================================
