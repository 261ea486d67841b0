------------------------------ MODULE JitQueue ------------------------------
(***************************************************************************)
(* The Just-in-Time transmission queue of lora_pkt_fwd/src/jitqueue.c: what *)
(* one call does to the queue while it holds mx_jit_queue.  The calls that  *)
(* test the queue outside the mutex (jit_queue_is_full, jit_queue_is_empty) *)
(* are separate steps of the threads in JitThreads.                         *)
(*                                                                          *)
(* nodes[0 .. num_pkt-1] of struct jit_queue_s is a sequence, so num_pkt is *)
(* its length and C index i is TLA+ index i+1.  Times are values of the     *)
(* concentrator's free-running counter: natural numbers modulo             *)
(* COUNTER_RANGE (2^32 microseconds in the code).                           *)
(***************************************************************************)
EXTENDS Integers, Sequences, FiniteSets, Functions

CONSTANTS
  COUNTER_RANGE,            \* the counter wraps here: 2^32
  UINT8_RANGE,              \* num_beacon and beacon_loop wrap here: 2^8
  JIT_QUEUE_MAX,            \* 32 nodes
  JIT_NUM_BEACON_IN_QUEUE,  \* 3 beacons are kept queued
  TX_START_DELAY,           \* 1500 us
  TX_MARGIN_DELAY,          \* 1000 us
  TX_JIT_DELAY,             \* 30000 us
  TX_MAX_ADVANCE_DELAY,     \* (JIT_NUM_BEACON_IN_QUEUE + 1) * 128 s
  BEACON_GUARD,             \* 3000000 us
  BEACON_RESERVED,          \* 2120000 us
  ASAP_DELAY                \* 1E6 us, the literal of the Class C search

ASSUME JitConstants ==
  /\ COUNTER_RANGE \in Nat \ {0}
  /\ UINT8_RANGE \in Nat \ {0}
  /\ JIT_QUEUE_MAX \in Nat \ {0}
  /\ JIT_NUM_BEACON_IN_QUEUE \in Nat \ {0}
  /\ JIT_NUM_BEACON_IN_QUEUE < UINT8_RANGE
  /\ TX_START_DELAY \in Nat
  /\ TX_MARGIN_DELAY \in Nat
  /\ TX_JIT_DELAY \in Nat
  /\ TX_MAX_ADVANCE_DELAY \in Nat
  /\ BEACON_GUARD \in Nat
  /\ BEACON_RESERVED \in Nat
  /\ ASAP_DELAY \in Nat

Counter == 0 .. COUNTER_RANGE - 1

\* enum jit_pkt_type_e: the three downlink classes and the beacon.
PktType == {"A", "B", "C", "BEACON"}

\* The part of struct lgw_pkt_tx_s the queue looks at; toa stands for the
\* fields lgw_time_on_air reads.
Packet == [type : PktType, count : Counter, toa : Nat]

\* struct jit_node_s.
Node == [type : PktType, count : Counter, pre : Nat, post : Nat]

\* An unused slot: jit_queue_init and the removals memset it.
ZeroNode == [type |-> "A", count |-> 0, pre |-> 0, post |-> 0]

\* uint32_t subtraction of two counter values.
Elapsed(a, b) == (a - b) % COUNTER_RANGE

\* qsort comparison: the int difference of the two counts, which wraps.
compare(p, q) ==
  LET d == Elapsed(p.count, q.count)
  IN  IF d < COUNTER_RANGE \div 2 THEN d ELSE d - COUNTER_RANGE

\* The place of node i among the nodes of q; of equal nodes the first stays first.
Rank(q, i) ==
  Cardinality({j \in DOMAIN q : \/ compare(q[j], q[i]) < 0
                                \/ compare(q[j], q[i]) = 0 /\ j <= i})

\* qsort_r over the num_pkt nodes.  When the counts span more than half of the
\* counter compare is not an order, the places clash and qsort promises no
\* particular arrangement.
jit_sort_queue(q) ==
  LET rank == [i \in DOMAIN q |-> Rank(q, i)]
      at(k) == CHOOSE i \in DOMAIN q : rank[i] = k
  IN  IF rank \in Bijection(DOMAIN q, DOMAIN q)
        THEN [k \in DOMAIN q |-> q[at(k)]]
        ELSE q

\* Mutant: only the overlap with the earlier packet's time on air is tested.
OneSidedTest(p1, p1_pre, p1_post, p2, p2_pre, p2_post) ==
  Elapsed(p1, p2) <= p1_pre + p2_post + TX_MARGIN_DELAY

jit_collision_test(p1, p1_pre, p1_post, p2, p2_pre, p2_post) ==
  \/ Elapsed(p1, p2) <= p1_pre + p2_post + TX_MARGIN_DELAY
  \/ Elapsed(p2, p1) <= p2_pre + p1_post + TX_MARGIN_DELAY

\* Mutant: the time the concentrator needs to be programmed is not reserved.
PreDelayNoJit(type) == TX_START_DELAY + IF type = "BEACON" THEN BEACON_GUARD ELSE 0

PreDelay(type) ==
  TX_START_DELAY + TX_JIT_DELAY + IF type = "BEACON" THEN BEACON_GUARD ELSE 0

PostDelay(pkt) == IF pkt.type = "BEACON" THEN BEACON_RESERVED ELSE pkt.toa

Least(S) == CHOOSE i \in S : \A j \in S : i <= j

\* What `asap_count_us = time_us + 1E6' can be: the sum is a double, and converting it
\* is undefined when it does not fit an unsigned int.  Built for x86-64 the code takes it
\* modulo the counter, built for ARM it takes the largest value.
AsapTimes(time) ==
  LET sum == time + ASAP_DELAY
  IN  IF sum < COUNTER_RANGE THEN {sum} ELSE {sum % COUNTER_RANGE, COUNTER_RANGE - 1}

\* Mutant: the ASAP search always ends behind the first node.
AsapBehindFirst(q, pkt) ==
  IF q = <<>> THEN pkt.count
  ELSE (q[1].count + q[1].post + PreDelay(pkt.type) + TX_JIT_DELAY + TX_MARGIN_DELAY)
         % COUNTER_RANGE

\* The counter value a Class C packet is given, whose count is one of AsapTimes: that
\* one if it is free, else behind the first node that leaves room before the next.
AsapCount(q, pkt) ==
  LET pre  == PreDelay(pkt.type)
      post == PostDelay(pkt)
      after(i) == (q[i].count + q[i].post + pre + TX_JIT_DELAY + TX_MARGIN_DELAY)
                    % COUNTER_RANGE
      hits(c, i) == jit_collision_test(c, pre, post, q[i].count, q[i].pre, q[i].post)
      fits(i) == i = Len(q) \/ ~hits(after(i), i + 1)
  IN  IF \A i \in DOMAIN q : ~hits(pkt.count, i)
        THEN pkt.count
        ELSE after(Least({i \in DOMAIN q : fits(i)}))

\* The packet as jit_enqueue will try to insert it.
Timed(q, pkt) ==
  IF pkt.type = "C" THEN [pkt EXCEPT !.count = AsapCount(q, pkt)] ELSE pkt

NodeOf(pkt) == [type |-> pkt.type, count |-> pkt.count,
                pre |-> PreDelay(pkt.type), post |-> PostDelay(pkt)]

\* Mutant: the guard is ignored for Class B downlinks as well.
NoGuard(node, type) ==
  IF type # "BEACON" /\ node.type = "BEACON" THEN TX_START_DELAY ELSE node.pre

\* The guard of a queued beacon is ignored for Class A and Class C downlinks.
TargetPreDelay(node, type) ==
  IF type \in {"A", "C"} /\ node.type = "BEACON" THEN TX_START_DELAY ELSE node.pre

Collides(node, new) ==
  jit_collision_test(new.count, new.pre, new.post,
                     node.count, TargetPreDelay(node, new.type), node.post)

TooLate(time, pkt) ==
  Elapsed(pkt.count, time) <= TX_START_DELAY + TX_MARGIN_DELAY + TX_JIT_DELAY

TooEarly(time, pkt) ==
  pkt.type \in {"A", "B"} /\ Elapsed(pkt.count, time) > TX_MAX_ADVANCE_DELAY

\* What jit_enqueue answers for a packet whose count is set; its three
\* criteria in the order of the code.
Verdict(q, time, pkt) ==
  LET hit == {i \in DOMAIN q : Collides(q[i], NodeOf(pkt))}
  IN  IF TooLate(time, pkt) THEN "TOO_LATE"
      ELSE IF TooEarly(time, pkt) THEN "TOO_EARLY"
      ELSE IF hit = {} THEN "OK"
      ELSE IF q[Least(hit)].type = "BEACON" THEN "COLLISION_BEACON"
      ELSE "COLLISION_PACKET"

\* The tail of jit_enqueue: the node goes to the end, then the queue is sorted.
Inserted(q, pkt) == jit_sort_queue(Append(q, NodeOf(pkt)))

\* Mutant: the packet handed out is the one behind the index.
NodeBehind(q, i) == IF i + 1 \in DOMAIN q THEN q[i + 1] ELSE ZeroNode

NodeAt(q, i) == IF i \in DOMAIN q THEN q[i] ELSE ZeroNode

\* The last node takes the place of node i, the freed slot is cleared and the
\* queue is sorted: the removal of jit_dequeue and of the purge in jit_peek.
Removed(q, i) ==
  jit_sort_queue(SubSeq([q EXCEPT ![i] = q[Len(q)]], 1, Len(q) - 1))

\* jit_peek drops a node this far ahead: it was missed and lies in the past.
Outdated(node, time) == Elapsed(node.count, time) >= TX_MAX_ADVANCE_DELAY

\* The nodes the scan of jit_peek finds outdated, from index `from` on.
OutdatedFrom(q, from, time) == {i \in from .. Len(q) : Outdated(q[i], time)}

\* Mutant: the comparison is the wrong way round.
LatestFrom(q, from, time) ==
  LET due(i) == Elapsed(q[i].count, time)
  IN  CHOOSE i \in from .. Len(q) : \A j \in from .. Len(q) : due(i) >= due(j)

\* The node the scan prefers: the first of the nodes due soonest.
SoonestFrom(q, from, time) ==
  LET due(i) == Elapsed(q[i].count, time)
  IN  CHOOSE i \in from .. Len(q) :
        \A j \in from .. Len(q) : due(i) < due(j) \/ (due(i) = due(j) /\ i <= j)

\* Mutant: the look-ahead is the start delay alone.
DueLate(node, time) == Elapsed(node.count, time) < TX_START_DELAY

Due(node, time) == Elapsed(node.count, time) < TX_JIT_DELAY

Beacons(q) == {i \in DOMAIN q : q[i].type = "BEACON"}
=============================================================================
