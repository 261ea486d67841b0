----------------------------- MODULE JitProofs -----------------------------
(***************************************************************************)
(* What JitThreads guarantees for every value of its constants.             *)
(*                                                                         *)
(* Under every scheduling of its threads: the queue stays within its array, *)
(* the beacon counter is exact and bounded, the nodes never overlap on the  *)
(* air, beacons keep their guard, and the index thread_jit carries from     *)
(* jit_peek to jit_dequeue names a node.                                    *)
(*                                                                         *)
(* When the threads are as punctual as the delays of jitqueue.c ask: every  *)
(* packet that is accepted leaves the queue in time, the soonest first, and *)
(* is never programmed over one that is still to be sent; and an immediate  *)
(* downlink always finds a slot.                                           *)
(***************************************************************************)
EXTENDS JitThreads, DataFacts, FiniteSetTheorems

\* Every node reserves at least the start delay before its time stamp, a beacon its guard
\* as well.
Prepared(q) ==
  \A i \in DOMAIN q :
    q[i].pre >= TX_START_DELAY /\ (q[i].type = "BEACON" => q[i].pre >= BEACON_GUARD)

\* Room is kept between jit_queue_is_full and the insertion: thread_down is the
\* only one that inserts.
RoomKept == dpc = "enqueue" => Len(nodes) < JIT_QUEUE_MAX

\* jit_enqueue is called with a packet, and with a beacon only while the refill
\* loop still has one to queue: what is received is never a beacon.
CallArmed ==
  /\ dmsg.type # "BEACON"
  /\ dpc \in {"full", "enqueue"} =>
       dpkt \in Packet /\ (dpkt.type = "BEACON" => beacon_loop # 0)

\* The inductive invariant.
IInv ==
  /\ TypeOK
  /\ QueueWithinBounds
  /\ BeaconsCounted
  /\ NoOverlap
  /\ GuardKept
  /\ IndexInRange
  /\ Prepared(nodes)
  /\ RoomKept
  /\ CallArmed

-----------------------------------------------------------------------------
(* The counter.                                                            *)

\* A difference of counter values is a counter value (uint32_t subtraction).
LEMMA ElapsedType ==
  ASSUME NEW a \in Int, NEW b \in Int
  PROVE  Elapsed(a, b) \in Counter /\ Elapsed(a, b) \in Nat
  BY JitConstants DEF Elapsed, Counter

\* The time the code reads is a counter value.
LEMMA CountType ==
  ASSUME NEW t \in Int
  PROVE  Count(t) \in Counter
  BY JitConstants, ThreadConstants DEF Count, Counter

\* The index of the first node with some property is the index of a node.
LEMMA LeastIn ==
  ASSUME NEW S, S \subseteq Nat, S # {}
  PROVE  Least(S) \in S
  BY SmallestExists DEF Least

\* The node the scan of jit_peek prefers is one of those it looks at.
LEMMA SoonestIn ==
  ASSUME NEW q \in Seq(Node), NEW from \in {1, 2}, NEW time \in Counter,
         from \in DOMAIN q
  PROVE  SoonestFrom(q, from, time) \in DOMAIN q
<1> DEFINE I == from .. Len(q)
           due(i) == Elapsed(q[i].count, time)
           D == {due(i) : i \in I}
           best(i) == \A j \in I : due(i) < due(j) \/ (due(i) = due(j) /\ i <= j)
<1>1. I # {} /\ I \subseteq DOMAIN q /\ I \subseteq Nat
  <2>1. DOMAIN q = 1 .. Len(q) /\ Len(q) \in Nat
    OBVIOUS
  <2> QED BY <2>1
<1>2. \A i \in I : due(i) \in Nat
  <2>1. ASSUME NEW i \in I PROVE due(i) \in Nat
    <3>1. q[i] \in Node
      BY <1>1
    <3>2. q[i].count \in Int /\ time \in Int
      BY <3>1 DEF Node, Counter
    <3> QED BY <3>2, ElapsedType
  <2> QED BY <2>1
<1> HIDE DEF due
<1>3. PICK d \in D : \A e \in D : d <= e
  <2>1. D \subseteq Nat /\ D # {}
    BY <1>1, <1>2
  <2> HIDE DEF D
  <2> QED BY <2>1, SmallestExists
<1> DEFINE F == {i \in I : due(i) = d}
<1>4. PICK f \in F : \A g \in F : f <= g
  <2>1. F # {} /\ F \subseteq Nat
    BY <1>1, <1>3
  <2> HIDE DEF F
  <2> QED BY <2>1, SmallestExists
<1>5. f \in I /\ best(f)
  <2>1. f \in I /\ due(f) = d
    BY <1>4
  <2>2. ASSUME NEW j \in I PROVE due(f) < due(j) \/ (due(f) = due(j) /\ f <= j)
    <3>1. d <= due(j) /\ d \in Nat /\ due(j) \in Nat
      BY <1>2, <1>3
    <3>2. CASE due(j) = d
      BY <1>4, <2>1, <3>2
    <3>3. CASE due(j) # d
      BY <2>1, <3>1, <3>3
    <3> QED BY <3>2, <3>3
  <2> QED BY <2>1, <2>2
<1>6. SoonestFrom(q, from, time) = CHOOSE i \in I : best(i)
  BY DEF SoonestFrom, due
<1> HIDE DEF best, I
<1>7. (CHOOSE i \in I : best(i)) \in I
  BY <1>5
<1> QED BY <1>1, <1>6, <1>7

-----------------------------------------------------------------------------
(* The queue.                                                              *)

\* qsort only rearranges: the sorted queue is the queue under a permutation.
LEMMA SortArranges ==
  ASSUME NEW q \in Seq(Node)
  PROVE  \E p \in Bijection(DOMAIN q, DOMAIN q) :
           jit_sort_queue(q) = [k \in DOMAIN q |-> q[p[k]]]
<1> DEFINE D == DOMAIN q
           rank == [i \in D |-> Rank(q, i)]
           at(k) == CHOOSE i \in D : rank[i] = k
           p == [k \in D |-> at(k)]
           id == [k \in D |-> k]
<1>1. CASE rank \in Bijection(D, D)
  <2>1. jit_sort_queue(q) = [k \in D |-> q[at(k)]]
    BY <1>1 DEF jit_sort_queue
  <2> HIDE DEF rank
  <2>2. \A k \in D : at(k) \in D /\ rank[at(k)] = k
    BY <1>1 DEF Bijection, Surjection
  <2>3. \A i \in D : rank[i] \in D /\ at(rank[i]) = i
    BY <1>1, <2>2 DEF Bijection, Injection, IsInjective
  <2> HIDE DEF at
  <2>4. p \in Injection(D, D)
    BY <2>2 DEF Injection, IsInjective
  <2>5. p \in Surjection(D, D)
    BY <2>2, <2>3 DEF Surjection
  <2>6. [k \in D |-> q[at(k)]] = [k \in D |-> q[p[k]]]
    OBVIOUS
  <2> QED BY <2>1, <2>4, <2>5, <2>6 DEF Bijection
<1>2. CASE rank \notin Bijection(D, D)
  <2>1. jit_sort_queue(q) = q
    BY <1>2 DEF jit_sort_queue
  <2>2. id \in Bijection(D, D)
    BY DEF Bijection, Injection, IsInjective, Surjection
  <2>3. q = [k \in D |-> q[id[k]]]
    OBVIOUS
  <2> QED BY <2>1, <2>2, <2>3
<1> QED BY <1>1, <1>2

\* A permutation of the nodes keeps their number and the number of beacons.
LEMMA ArrangementProperties ==
  ASSUME NEW q \in Seq(Node), NEW p \in Bijection(DOMAIN q, DOMAIN q),
         NEW s, s = [k \in DOMAIN q |-> q[p[k]]]
  PROVE  /\ s \in Seq(Node)
         /\ Len(s) = Len(q)
         /\ Cardinality(Beacons(s)) = Cardinality(Beacons(q))
         /\ \A k \in DOMAIN s : p[k] \in DOMAIN q /\ s[k] = q[p[k]]
         /\ \A k, l \in DOMAIN s : k # l => p[k] # p[l]
<1> DEFINE D == DOMAIN q
<1>1. D = 1 .. Len(q) /\ Len(q) \in Nat
  OBVIOUS
<1>2. \A k \in D : p[k] \in D /\ q[p[k]] \in Node
  BY DEF Bijection, Injection, IsInjective
<1>3. s \in Seq(Node) /\ Len(s) = Len(q) /\ DOMAIN s = D
  BY <1>1, <1>2
<1>4. \A k \in DOMAIN s : p[k] \in D /\ s[k] = q[p[k]]
  BY <1>2, <1>3
<1>5. \A k, l \in DOMAIN s : k # l => p[k] # p[l]
  BY <1>3 DEF Bijection, Injection, IsInjective
<1>6. Cardinality(Beacons(s)) = Cardinality(Beacons(q))
  <2> DEFINE b == [k \in Beacons(s) |-> p[k]]
  <2>1. b \in [Beacons(s) -> Beacons(q)]
    BY <1>3, <1>4 DEF Beacons
  <2>2. b \in Injection(Beacons(s), Beacons(q))
    BY <2>1, <1>3, <1>5 DEF Injection, IsInjective, Beacons
  <2>3. b \in Surjection(Beacons(s), Beacons(q))
    <3>1. ASSUME NEW i \in Beacons(q) PROVE \E k \in Beacons(s) : b[k] = i
      <4>1. PICK k \in D : p[k] = i
        BY DEF Bijection, Surjection, Beacons
      <4> QED BY <4>1, <1>3, <1>4 DEF Beacons
    <3> QED BY <2>1, <3>1 DEF Surjection
  <2>4. IsFiniteSet(Beacons(s))
    <3>1. Beacons(s) \subseteq 1 .. Len(q)
      BY <1>1, <1>3 DEF Beacons
    <3>2. IsFiniteSet(1 .. Len(q))
      BY <1>1, FS_Interval
    <3> QED BY <3>1, <3>2, FS_Subset
  <2>5. ExistsBijection(Beacons(s), Beacons(q))
    BY <2>2, <2>3 DEF Bijection, ExistsBijection
  <2> QED BY <2>4, <2>5, FS_Bijection
<1> QED BY <1>3, <1>4, <1>5, <1>6

\* The beacons of a queue can be counted.
LEMMA BeaconsFinite ==
  ASSUME NEW q \in Seq(Node)
  PROVE  IsFiniteSet(Beacons(q)) /\ Cardinality(Beacons(q)) \in Nat
<1>1. Beacons(q) \subseteq 1 .. Len(q)
  BY DEF Beacons
<1>2. Len(q) \in Nat
  OBVIOUS
<1>3. IsFiniteSet(1 .. Len(q))
  BY <1>2, FS_Interval
<1> QED BY <1>1, <1>3, FS_Subset, FS_CardinalityType

\* The node jit_enqueue builds for a packet is a struct jit_node_s.
LEMMA NodeOfType ==
  ASSUME NEW pkt \in Packet
  PROVE  NodeOf(pkt) \in Node
  BY JitConstants DEF NodeOf, Packet, Node, PreDelay, PostDelay

\* What the invariant says of the nodes survives jit_sort_queue.
LEMMA SortProperties ==
  ASSUME NEW q \in Seq(Node)
  PROVE  /\ jit_sort_queue(q) \in Seq(Node)
         /\ Len(jit_sort_queue(q)) = Len(q)
         /\ Cardinality(Beacons(jit_sort_queue(q))) = Cardinality(Beacons(q))
         /\ Disjoint(q) => Disjoint(jit_sort_queue(q))
         /\ Guarded(q) => Guarded(jit_sort_queue(q))
         /\ Prepared(q) => Prepared(jit_sort_queue(q))
<1>1. PICK p \in Bijection(DOMAIN q, DOMAIN q) :
        jit_sort_queue(q) = [k \in DOMAIN q |-> q[p[k]]]
  BY SortArranges
<1> DEFINE s == jit_sort_queue(q)
<1>2. /\ s \in Seq(Node)
      /\ Len(s) = Len(q)
      /\ Cardinality(Beacons(s)) = Cardinality(Beacons(q))
      /\ \A k \in DOMAIN s : p[k] \in DOMAIN q /\ s[k] = q[p[k]]
      /\ \A k, l \in DOMAIN s : k # l => p[k] # p[l]
  BY <1>1, ArrangementProperties
<1>3. ASSUME Disjoint(q) PROVE Disjoint(s)
  <2> HIDE DEF s
  <2> QED BY <1>2, <1>3 DEF Disjoint
<1>4. ASSUME Prepared(q) PROVE Prepared(s)
  <2> HIDE DEF s
  <2> QED BY <1>2, <1>4 DEF Prepared
<1>5. ASSUME Guarded(q) PROVE Guarded(s)
  <2> HIDE DEF s
  <2> QED BY <1>2, <1>5 DEF Guarded
<1> QED BY <1>2, <1>3, <1>4, <1>5

\* A beacon appended to the queue is one beacon more.
LEMMA AppendBeacons ==
  ASSUME NEW q \in Seq(Node), NEW n \in Node
  PROVE  Cardinality(Beacons(Append(q, n))) =
           Cardinality(Beacons(q)) + IF n.type = "BEACON" THEN 1 ELSE 0
<1> DEFINE a == Append(q, n)
           new == Len(q) + 1
<1>1. /\ DOMAIN a = 1 .. new
      /\ \A i \in 1 .. Len(q) : a[i] = q[i]
      /\ a[new] = n
      /\ DOMAIN q = 1 .. Len(q)
      /\ Len(q) \in Nat
  OBVIOUS
<1>2. IsFiniteSet(Beacons(q)) /\ Cardinality(Beacons(q)) \in Nat
  BY BeaconsFinite
<1>3. CASE n.type = "BEACON"
  <2>1. Beacons(a) = Beacons(q) \cup {new}
    BY <1>1, <1>3 DEF Beacons
  <2>2. new \notin Beacons(q)
    BY <1>1 DEF Beacons
  <2> QED BY <1>2, <1>3, <2>1, <2>2, FS_AddElement
<1>4. CASE n.type # "BEACON"
  <2>1. Beacons(a) = Beacons(q)
    BY <1>1, <1>4 DEF Beacons
  <2> QED BY <1>2, <1>4, <2>1
<1> QED BY <1>3, <1>4

\* Moving the last node into the freed slot loses no other node.
LEMMA CutProperties ==
  ASSUME NEW q \in Seq(Node), NEW i \in DOMAIN q,
         NEW c, c = SubSeq([q EXCEPT ![i] = q[Len(q)]], 1, Len(q) - 1)
  PROVE  /\ c \in Seq(Node)
         /\ Len(c) = Len(q) - 1
         /\ Disjoint(q) => Disjoint(c)
         /\ Guarded(q) => Guarded(c)
         /\ Prepared(q) => Prepared(c)
         /\ Cardinality(Beacons(c)) =
              Cardinality(Beacons(q)) - IF q[i].type = "BEACON" THEN 1 ELSE 0
<1> DEFINE n == Len(q)
           at(k) == IF k = i THEN n ELSE k
<1>1. DOMAIN q = 1 .. n /\ n \in Nat /\ n >= 1 /\ q[n] \in Node
  OBVIOUS
<1>2. c \in Seq(Node) /\ Len(c) = n - 1 /\ DOMAIN c = 1 .. n - 1
  BY <1>1
<1>3. \A k \in 1 .. n - 1 : c[k] = q[at(k)] /\ at(k) \in DOMAIN q /\ at(k) # i
  BY <1>1
<1>4. ASSUME Disjoint(q) PROVE Disjoint(c)
  <2>1. \A k, l \in 1 .. n - 1 : k # l => at(k) # at(l)
    BY <1>1
  <2> HIDE DEF at
  <2> QED BY <1>2, <1>3, <1>4, <2>1 DEF Disjoint
<1>5. Cardinality(Beacons(c)) = Cardinality(Beacons(q) \ {i})
  <2> DEFINE B == Beacons(q) \ {i}
             b == [k \in Beacons(c) |-> at(k)]
  <2>1. b \in [Beacons(c) -> B]
    BY <1>2, <1>3 DEF Beacons
  <2>2. b \in Injection(Beacons(c), B)
    BY <2>1, <1>1, <1>2 DEF Injection, IsInjective, Beacons
  <2>3. b \in Surjection(Beacons(c), B)
    <3>1. ASSUME NEW j \in B PROVE \E k \in Beacons(c) : b[k] = j
      <4>1. CASE j = n
        <5>1. i \in 1 .. n - 1 /\ at(i) = j
          BY <4>1, <1>1
        <5>2. i \in Beacons(c)
          BY <5>1, <1>2, <1>3 DEF Beacons
        <5> QED BY <5>1, <5>2
      <4>2. CASE j # n
        <5>1. j \in 1 .. n - 1 /\ at(j) = j
          BY <4>2, <1>1 DEF Beacons
        <5>2. j \in Beacons(c)
          BY <5>1, <1>2, <1>3 DEF Beacons
        <5> QED BY <5>1, <5>2
      <4> QED BY <4>1, <4>2
    <3> QED BY <2>1, <3>1 DEF Surjection
  <2>4. ExistsBijection(Beacons(c), B)
    BY <2>2, <2>3 DEF Bijection, ExistsBijection
  <2> QED BY <1>2, <2>4, BeaconsFinite, FS_Bijection
<1>6. Cardinality(Beacons(q) \ {i}) =
        Cardinality(Beacons(q)) - IF q[i].type = "BEACON" THEN 1 ELSE 0
  <2>1. i \in Beacons(q) <=> q[i].type = "BEACON"
    BY DEF Beacons
  <2>2. IsFiniteSet(Beacons(q)) /\ Cardinality(Beacons(q)) \in Nat
    BY BeaconsFinite
  <2>3. CASE i \in Beacons(q)
    BY <2>1, <2>2, <2>3, FS_RemoveElement
  <2>4. CASE i \notin Beacons(q)
    <3>1. Beacons(q) \ {i} = Beacons(q)
      BY <2>4
    <3>2. q[i].type # "BEACON"
      BY <2>1, <2>4
    <3>3. Cardinality(Beacons(q) \ {i}) = Cardinality(Beacons(q))
      BY <3>1
    <3> QED BY <2>2, <3>2, <3>3
  <2> QED BY <2>3, <2>4
<1>7. ASSUME Prepared(q) PROVE Prepared(c)
  <2> HIDE DEF at
  <2> QED BY <1>2, <1>3, <1>7 DEF Prepared
<1>8. ASSUME Guarded(q) PROVE Guarded(c)
  <2> HIDE DEF at
  <2> QED BY <1>2, <1>3, <1>8 DEF Guarded
<1> QED BY <1>2, <1>4, <1>5, <1>6, <1>7, <1>8

\* jit_dequeue and the purge take out one node and keep the rest of the queue.
LEMMA RemovedProperties ==
  ASSUME NEW q \in Seq(Node), NEW i \in DOMAIN q
  PROVE  /\ Removed(q, i) \in Seq(Node)
         /\ Len(Removed(q, i)) = Len(q) - 1
         /\ Disjoint(q) => Disjoint(Removed(q, i))
         /\ Guarded(q) => Guarded(Removed(q, i))
         /\ Prepared(q) => Prepared(Removed(q, i))
         /\ Cardinality(Beacons(Removed(q, i))) =
              Cardinality(Beacons(q)) - IF q[i].type = "BEACON" THEN 1 ELSE 0
         /\ q[i].type = "BEACON" => Cardinality(Beacons(q)) >= 1
<1> DEFINE c == SubSeq([q EXCEPT ![i] = q[Len(q)]], 1, Len(q) - 1)
<1>1. /\ c \in Seq(Node)
      /\ Len(c) = Len(q) - 1
      /\ Disjoint(q) => Disjoint(c)
      /\ Guarded(q) => Guarded(c)
      /\ Prepared(q) => Prepared(c)
      /\ Cardinality(Beacons(c)) =
           Cardinality(Beacons(q)) - IF q[i].type = "BEACON" THEN 1 ELSE 0
  BY CutProperties
<1>2. Removed(q, i) = jit_sort_queue(c)
  BY DEF Removed
<1> HIDE DEF c
<1>3. /\ jit_sort_queue(c) \in Seq(Node)
      /\ Len(jit_sort_queue(c)) = Len(c)
      /\ Cardinality(Beacons(jit_sort_queue(c))) = Cardinality(Beacons(c))
      /\ Disjoint(c) => Disjoint(jit_sort_queue(c))
      /\ Guarded(c) => Guarded(jit_sort_queue(c))
      /\ Prepared(c) => Prepared(jit_sort_queue(c))
  BY <1>1, SortProperties
<1>4. Cardinality(Beacons(c)) \in Nat /\ Cardinality(Beacons(q)) \in Nat
  BY <1>1, BeaconsFinite
<1>5. q[i].type = "BEACON" => Cardinality(Beacons(q)) >= 1
  BY <1>1, <1>4
<1> QED BY <1>1, <1>2, <1>3, <1>5

\* A distance that does not collide leaves room for the start delay.
LEMMA Slack ==
  ASSUME NEW e \in Nat, NEW pre \in Nat, NEW post \in Nat,
         pre >= TX_START_DELAY, ~(e <= pre + post + TX_MARGIN_DELAY)
  PROVE  e > post + TX_START_DELAY + TX_MARGIN_DELAY
  BY JitConstants

\* jit_enqueue inserts a packet it has judged "OK" without making two nodes
\* overlap: criteria 3 tests the new node against every other.
LEMMA InsertedProperties ==
  ASSUME NEW q \in Seq(Node), NEW pkt \in Packet, NEW time \in Counter,
         Disjoint(q), Guarded(q), Prepared(q), Verdict(q, time, pkt) = "OK"
  PROVE  /\ Inserted(q, pkt) \in Seq(Node)
         /\ Len(Inserted(q, pkt)) = Len(q) + 1
         /\ Disjoint(Inserted(q, pkt))
         /\ Guarded(Inserted(q, pkt))
         /\ Prepared(Inserted(q, pkt))
         /\ Cardinality(Beacons(Inserted(q, pkt))) =
              Cardinality(Beacons(q)) + IF pkt.type = "BEACON" THEN 1 ELSE 0
<1> DEFINE new == NodeOf(pkt)
           a == Append(q, new)
<1>1. /\ new \in Node /\ new.type = pkt.type /\ new.pre >= TX_START_DELAY
      /\ new.type = "BEACON" => new.pre >= BEACON_GUARD
  <2>1. new \in Node
    BY NodeOfType
  <2>2. /\ new.type = pkt.type /\ new.pre >= TX_START_DELAY
        /\ new.type = "BEACON" => new.pre >= BEACON_GUARD
    BY JitConstants DEF NodeOf, PreDelay
  <2> QED BY <2>1, <2>2
<1>2. \A i \in DOMAIN q : ~Collides(q[i], new)
  BY DEF Verdict
<1> HIDE DEF new
<1>3. /\ a \in Seq(Node) /\ Len(a) = Len(q) + 1 /\ Len(q) \in Nat
      /\ DOMAIN q = 1 .. Len(q) /\ DOMAIN a = 1 .. Len(q) + 1
      /\ \A i \in DOMAIN q : a[i] = q[i]
      /\ a[Len(q) + 1] = new
  BY <1>1
<1>4. \A i \in DOMAIN q : Apart(q[i], new) /\ Apart(new, q[i])
  <2>1. SUFFICES ASSUME NEW i \in DOMAIN q
                 PROVE  Apart(q[i], new) /\ Apart(new, q[i])
    OBVIOUS
  <2> DEFINE to == Elapsed(new.count, q[i].count)
             from == Elapsed(q[i].count, new.count)
             target == TargetPreDelay(q[i], new.type)
  <2>2. q[i] \in Node /\ q[i].pre >= TX_START_DELAY
    BY DEF Prepared
  <2>3. to \in Nat /\ from \in Nat
    BY <1>1, <2>2, ElapsedType DEF Node, Counter
  <2>4. target \in Nat /\ target >= TX_START_DELAY
    BY <2>2, JitConstants DEF TargetPreDelay, Node
  <2>5. /\ ~(to <= new.pre + q[i].post + TX_MARGIN_DELAY)
        /\ ~(from <= target + new.post + TX_MARGIN_DELAY)
    BY <1>2 DEF Collides, jit_collision_test
  <2>6. new.pre \in Nat /\ new.post \in Nat /\ q[i].post \in Nat
    BY <1>1, <2>2 DEF Node
  <2> HIDE DEF to, from, target
  <2>7. /\ to > q[i].post + TX_START_DELAY + TX_MARGIN_DELAY
        /\ from > new.post + TX_START_DELAY + TX_MARGIN_DELAY
    <3>1. to > q[i].post + TX_START_DELAY + TX_MARGIN_DELAY
      BY <1>1, <2>3, <2>5, <2>6, Slack
    <3>2. from > new.post + TX_START_DELAY + TX_MARGIN_DELAY
      BY <2>3, <2>4, <2>5, <2>6, Slack
    <3> QED BY <3>1, <3>2
  <2> QED BY <2>7 DEF Apart, to, from
<1>5. Disjoint(a)
  <2>1. SUFFICES ASSUME NEW i \in DOMAIN a, NEW j \in DOMAIN a, i # j
                 PROVE  Apart(a[i], a[j])
    BY DEF Disjoint
  <2>2. CASE i \in DOMAIN q /\ j \in DOMAIN q
    BY <1>3, <2>1, <2>2 DEF Disjoint
  <2>3. CASE i \in DOMAIN q /\ j = Len(q) + 1
    BY <1>3, <1>4, <2>3
  <2>4. CASE j \in DOMAIN q /\ i = Len(q) + 1
    BY <1>3, <1>4, <2>4
  <2> QED BY <1>3, <2>1, <2>2, <2>3, <2>4
<1>6. Prepared(a)
  <2>1. SUFFICES ASSUME NEW i \in DOMAIN a
                 PROVE  /\ a[i].pre >= TX_START_DELAY
                        /\ a[i].type = "BEACON" => a[i].pre >= BEACON_GUARD
    BY DEF Prepared
  <2> QED BY <1>1, <1>3 DEF Prepared
<1>7. Cardinality(Beacons(a)) =
        Cardinality(Beacons(q)) + IF pkt.type = "BEACON" THEN 1 ELSE 0
  BY <1>1, AppendBeacons
<1>8. Inserted(q, pkt) = jit_sort_queue(a)
  BY DEF Inserted, new
<1>9. \A i \in DOMAIN q :
        /\ q[i].type = "BEACON" /\ new.type = "B" =>
             Elapsed(q[i].count, new.count) > BEACON_GUARD + new.post
        /\ new.type = "BEACON" /\ q[i].type = "B" =>
             Elapsed(new.count, q[i].count) > BEACON_GUARD + q[i].post
  <2>1. SUFFICES ASSUME NEW i \in DOMAIN q
                 PROVE  /\ q[i].type = "BEACON" /\ new.type = "B" =>
                             Elapsed(q[i].count, new.count) > BEACON_GUARD + new.post
                        /\ new.type = "BEACON" /\ q[i].type = "B" =>
                             Elapsed(new.count, q[i].count) > BEACON_GUARD + q[i].post
    OBVIOUS
  <2> DEFINE to == Elapsed(new.count, q[i].count)
             from == Elapsed(q[i].count, new.count)
  <2>2. q[i] \in Node /\ (q[i].type = "BEACON" => q[i].pre >= BEACON_GUARD)
    BY DEF Prepared
  <2>3. to \in Nat /\ from \in Nat
    BY <1>1, <2>2, ElapsedType DEF Node, Counter
  <2>4. /\ ~(to <= new.pre + q[i].post + TX_MARGIN_DELAY)
        /\ new.type = "B" => ~(from <= q[i].pre + new.post + TX_MARGIN_DELAY)
    BY <1>2 DEF Collides, jit_collision_test, TargetPreDelay
  <2>5. new.pre \in Nat /\ new.post \in Nat /\ q[i].post \in Nat /\ q[i].pre \in Nat
    BY <1>1, <2>2 DEF Node
  <2> HIDE DEF to, from
  <2>6. CASE new.type = "BEACON"
    <3>1. new.pre >= BEACON_GUARD
      BY <1>1, <2>6
    <3>2. to > BEACON_GUARD + q[i].post
      BY <2>3, <2>4, <2>5, <3>1, JitConstants
    <3> QED BY <2>6, <3>2 DEF to
  <2>7. CASE new.type = "B" /\ q[i].type = "BEACON"
    <3>1. q[i].pre >= BEACON_GUARD /\ ~(from <= q[i].pre + new.post + TX_MARGIN_DELAY)
      BY <2>2, <2>4, <2>7
    <3>2. from > BEACON_GUARD + new.post
      BY <2>3, <2>5, <3>1, JitConstants
    <3> QED BY <2>7, <3>2 DEF from
  <2> QED BY <2>6, <2>7
<1>10. Guarded(a)
  <2>1. SUFFICES ASSUME NEW i \in DOMAIN a, NEW j \in DOMAIN a,
                        a[i].type = "BEACON", a[j].type = "B"
                 PROVE  Elapsed(a[i].count, a[j].count) > BEACON_GUARD + a[j].post
    BY DEF Guarded
  <2>2. CASE i \in DOMAIN q /\ j \in DOMAIN q
    BY <1>3, <2>1, <2>2 DEF Guarded
  <2>3. CASE i \in DOMAIN q /\ j = Len(q) + 1
    BY <1>3, <1>9, <2>1, <2>3
  <2>4. CASE j \in DOMAIN q /\ i = Len(q) + 1
    BY <1>3, <1>9, <2>1, <2>4
  <2>5. ~(i = Len(q) + 1 /\ j = Len(q) + 1)
    BY <2>1
  <2> QED BY <1>3, <2>2, <2>3, <2>4, <2>5
<1> HIDE DEF a
<1> QED BY <1>3, <1>5, <1>6, <1>7, <1>8, <1>10, SortProperties

\* The time stamp of a Class C packet is a counter value.
LEMMA TimedType ==
  ASSUME NEW q \in Seq(Node), NEW pkt \in Packet
  PROVE  Timed(q, pkt) \in Packet /\ Timed(q, pkt).type = pkt.type
<1>1. CASE pkt.type # "C"
  BY <1>1 DEF Timed
<1>2. CASE pkt.type = "C"
  <2> DEFINE pre == PreDelay(pkt.type)
             post == PostDelay(pkt)
             first == pkt.count
             after(i) == (q[i].count + q[i].post + pre + TX_JIT_DELAY + TX_MARGIN_DELAY)
                           % COUNTER_RANGE
             hits(c, i) == jit_collision_test(c, pre, post, q[i].count, q[i].pre, q[i].post)
             fits(i) == i = Len(q) \/ ~hits(after(i), i + 1)
             S == {i \in DOMAIN q : fits(i)}
  <2>1. pre \in Nat
    BY JitConstants DEF PreDelay
  <2>2. first \in Counter
    BY DEF Packet
  <2>3. ASSUME NEW i \in DOMAIN q PROVE after(i) \in Counter
    <3>1. q[i] \in Node
      OBVIOUS
    <3>2. q[i].count \in Nat /\ q[i].post \in Nat
      BY <3>1 DEF Node, Counter
    <3> DEFINE sum == q[i].count + q[i].post + pre + TX_JIT_DELAY + TX_MARGIN_DELAY
    <3>3. sum \in Int
      BY <2>1, <3>2, JitConstants
    <3> HIDE DEF sum
    <3>4. sum % COUNTER_RANGE \in Counter
      BY <3>3, JitConstants DEF Counter
    <3> QED BY <3>4 DEF sum
  <2>4. AsapCount(q, pkt) =
          IF \A i \in DOMAIN q : ~hits(first, i) THEN first ELSE after(Least(S))
    BY DEF AsapCount
  <2>5. q # <<>> => Least(S) \in DOMAIN q
    <3>1. q # <<>> => Len(q) \in S
      OBVIOUS
    <3>2. S \subseteq Nat /\ S \subseteq DOMAIN q
      OBVIOUS
    <3> HIDE DEF S
    <3> QED BY <3>1, <3>2, LeastIn
  <2> HIDE DEF first, after, hits, S
  <2>6. AsapCount(q, pkt) \in Counter
    <3>1. CASE \A i \in DOMAIN q : ~hits(first, i)
      BY <2>2, <2>4, <3>1
    <3>2. CASE ~ \A i \in DOMAIN q : ~hits(first, i)
      <4>1. q # <<>>
        BY <3>2
      <4> QED BY <2>3, <2>4, <2>5, <3>2, <4>1
    <3> QED BY <3>1, <3>2
  <2> QED BY <1>2, <2>6 DEF Timed, Packet
<1> QED BY <1>1, <1>2

-----------------------------------------------------------------------------
(* The invariant holds initially and every step keeps it.                  *)

\* The threads start on an empty queue.
LEMMA InitIInv == Init => IInv
<1> SUFFICES ASSUME Init PROVE IInv
  OBVIOUS
<1> USE JitConstants, ThreadConstants DEF Init
<1>1. ZeroNode \in Node /\ NoTx \in [start : Nat, stop : Nat]
  BY DEF ZeroNode, Node, PktType, Counter, NoTx
<1>2. TypeOK
  BY <1>1 DEF TypeOK
<1>3. Beacons(nodes) = {} /\ DOMAIN nodes = {} /\ Len(nodes) = 0
  BY DEF Beacons
<1>4. BeaconsCounted
  BY <1>3, FS_EmptySet DEF BeaconsCounted
<1>5. NoOverlap /\ GuardKept /\ Prepared(nodes) /\ QueueWithinBounds
  BY <1>3 DEF NoOverlap, Disjoint, GuardKept, Guarded, Prepared, QueueWithinBounds
<1>6. IndexInRange /\ RoomKept /\ CallArmed
  BY DEF IndexInRange, RoomKept, CallArmed, NoPacket
<1> QED BY <1>2, <1>4, <1>5, <1>6 DEF IInv

\* Time and GPS change nothing the threads share.
LEMMA EnvStep ==
  ASSUME IInv, Tick \/ GpsChange
  PROVE  IInv'
<1>1. UNCHANGED <<queue_vars, mx_jit_queue, jit_vars, down_vars>>
  BY DEF Tick, GpsChange
<1>2. now' \in Nat /\ gps_ok' \in BOOLEAN /\ tx' \in [start : Nat, stop : Nat]
  <2>1. CASE Tick
    BY <2>1 DEF IInv, TypeOK, Tick, NoTx
  <2>2. CASE GpsChange
    <3>1. gps_ok' \in BOOLEAN
      BY <2>2, Zenon DEF GpsChange
    <3> QED BY <2>2, <3>1 DEF IInv, TypeOK, GpsChange
  <2> QED BY <2>1, <2>2
<1>3. TypeOK'
  BY <1>1, <1>2 DEF IInv, TypeOK, queue_vars, jit_vars, down_vars
<1>4. (QueueWithinBounds /\ BeaconsCounted /\ NoOverlap /\ GuardKept /\ IndexInRange
        /\ Prepared(nodes) /\ RoomKept /\ CallArmed)'
  BY <1>1 DEF IInv, queue_vars, jit_vars, down_vars, QueueWithinBounds, BeaconsCounted,
     NoOverlap, GuardKept, IndexInRange, RoomKept, CallArmed
<1> QED BY <1>3, <1>4 DEF IInv

\* The steps of thread_jit that leave the queue alone.
JitLocal == JitPoll \/ JitPeekEmpty \/ JitPeekLock \/ JitPick \/ JitDequeueEmpty
            \/ JitStatus \/ JitSend \/ JitSendFail

\* They keep the invariant; JitPick hands on an index that names a node.
LEMMA JitLocalStep ==
  ASSUME IInv, JitLocal
  PROVE  IInv'
<1>1. UNCHANGED <<queue_vars, now, gps_ok, down_vars>>
  BY DEF JitLocal, JitPoll, JitPeekEmpty, JitPeekLock, JitPick, JitDequeueEmpty,
     JitStatus, JitSend, JitSendFail, env_vars
<1>2. (QueueWithinBounds /\ BeaconsCounted /\ NoOverlap /\ GuardKept
        /\ Prepared(nodes) /\ RoomKept /\ CallArmed)'
  BY <1>1 DEF IInv, queue_vars, jit_vars, down_vars, QueueWithinBounds, BeaconsCounted,
     NoOverlap, GuardKept, RoomKept, CallArmed
<1>3. nodes' = nodes /\ nodes \in Seq(Node) /\ jtime \in Nat /\ now \in Nat
      /\ Count(jtime) \in Counter /\ Count(now) \in Counter /\ ZeroNode \in Node
  <2>1. nodes' = nodes /\ nodes \in Seq(Node) /\ jtime \in Nat /\ now \in Nat
    BY <1>1 DEF queue_vars, IInv, TypeOK
  <2>2. Count(jtime) \in Counter /\ Count(now) \in Counter
    BY <2>1, CountType
  <2>3. ZeroNode \in Node
    BY JitConstants DEF ZeroNode, Node, PktType, Counter
  <2> QED BY <2>1, <2>2, <2>3
<1>4. JitPick => jidx' \in Nat /\ (jpc' = "dequeue" => jidx' \in DOMAIN nodes')
  <2>1. SUFFICES ASSUME JitPick, jfrom \in DOMAIN nodes
                 PROVE  SoonestFrom(nodes, jfrom, Count(jtime)) \in DOMAIN nodes
    BY <1>3 DEF JitPick
  <2> QED BY <1>3, <2>1, SoonestIn DEF IInv, TypeOK
<1>5. JitSend => tx' \in [start : Nat, stop : Nat]
  <2>1. jpkt.count \in Int /\ jpkt.post \in Nat /\ Count(now) \in Int
    BY <1>3 DEF IInv, TypeOK, Node, Counter
  <2>2. Elapsed(jpkt.count, Count(now)) \in Nat
    BY <2>1, ElapsedType
  <2> QED BY <1>3, <2>1, <2>2 DEF JitSend
<1>6. TypeOK'
  <2>1. mx_jit_queue' \in {"free", "jit"} /\ jtime' \in Nat /\ jfrom' \in {1, 2}
        /\ jpkt' \in Node
    BY <1>3 DEF JitLocal, JitPoll, JitPeekEmpty, JitPeekLock, JitPick, JitDequeueEmpty,
       JitStatus, JitSend, JitSendFail, IInv, TypeOK
  <2>2. jpc' \in {"poll", "peek", "peek_lock", "scan", "dequeue", "dequeue_lock",
                  "status", "send"}
    BY DEF JitLocal, JitPoll, JitPeekEmpty, JitPeekLock, JitPick, JitDequeueEmpty,
       JitStatus, JitSend, JitSendFail, IInv, TypeOK
  <2>3. jidx' \in Nat
    BY <1>4 DEF JitLocal, JitPoll, JitPeekEmpty, JitPeekLock, JitDequeueEmpty,
       JitStatus, JitSend, JitSendFail, IInv, TypeOK
  <2>4. tx' \in [start : Nat, stop : Nat]
    BY <1>5 DEF JitLocal, JitPoll, JitPeekEmpty, JitPeekLock, JitPick, JitDequeueEmpty,
       JitStatus, JitSendFail, IInv, TypeOK, env_vars
  <2> QED BY <1>1, <2>1, <2>2, <2>3, <2>4 DEF IInv, TypeOK, queue_vars, down_vars
<1>7. IndexInRange'
  BY <1>3, <1>4 DEF JitLocal, JitPoll, JitPeekEmpty, JitPeekLock, JitPick,
     JitDequeueEmpty, JitStatus, JitSend, JitSendFail, IInv, IndexInRange
<1> QED BY <1>2, <1>6, <1>7 DEF IInv

\* Taking out node i, with num_beacon corrected, keeps what the invariant says of
\* the queue.
LEMMA RemovalKeeps ==
  ASSUME IInv, NEW i \in DOMAIN nodes, UNCHANGED down_vars,
         nodes' = Removed(nodes, i), num_beacon' = BeaconsWithout(nodes[i])
  PROVE  (/\ nodes \in Seq(Node)
          /\ num_beacon \in 0 .. UINT8_RANGE - 1
          /\ QueueWithinBounds /\ BeaconsCounted /\ NoOverlap /\ GuardKept
          /\ Prepared(nodes) /\ RoomKept /\ CallArmed)'
<1>1. nodes \in Seq(Node) /\ Len(nodes) \in Nat /\ num_beacon \in Nat
  BY JitConstants DEF IInv, TypeOK
<1>2. /\ nodes' \in Seq(Node)
      /\ Len(nodes') = Len(nodes) - 1
      /\ Disjoint(nodes')
      /\ Guarded(nodes')
      /\ Prepared(nodes')
      /\ Cardinality(Beacons(nodes')) =
           num_beacon - IF nodes[i].type = "BEACON" THEN 1 ELSE 0
      /\ nodes[i].type = "BEACON" => num_beacon >= 1
  BY <1>1, RemovedProperties DEF IInv, NoOverlap, GuardKept, BeaconsCounted
<1>3. num_beacon' = num_beacon - IF nodes[i].type = "BEACON" THEN 1 ELSE 0
  <2>1. CASE nodes[i].type = "BEACON"
    <3>1. num_beacon - 1 \in Int /\ 0 <= num_beacon - 1 /\ num_beacon - 1 < UINT8_RANGE
      BY <1>1, <1>2, <2>1, JitConstants DEF IInv, TypeOK
    <3>2. (num_beacon - 1) % UINT8_RANGE = num_beacon - 1
      BY <3>1, JitConstants, SmallMod
    <3> QED BY <2>1, <3>2 DEF BeaconsWithout
  <2>2. CASE nodes[i].type # "BEACON"
    BY <1>1, <2>2 DEF BeaconsWithout
  <2> QED BY <2>1, <2>2
<1>4. num_beacon' \in Nat /\ num_beacon' <= num_beacon
  BY <1>1, <1>2, <1>3
<1>5. num_beacon' \in 0 .. UINT8_RANGE - 1
  BY <1>4, JitConstants DEF IInv, TypeOK
<1>6. BeaconsCounted'
  <2>1. beacon_loop \in Nat /\ beacon_loop' = beacon_loop /\ dpc' = dpc
    BY JitConstants DEF IInv, TypeOK, down_vars
  <2>2. num_beacon' = Cardinality(Beacons(nodes'))
    BY <1>2, <1>3
  <2> QED BY <1>1, <1>4, <2>1, <2>2, JitConstants DEF IInv, BeaconsCounted
<1>7. QueueWithinBounds' /\ RoomKept' /\ CallArmed'
  BY <1>1, <1>2, JitConstants
  DEF IInv, QueueWithinBounds, RoomKept, CallArmed, down_vars
<1> QED BY <1>2, <1>5, <1>6, <1>7 DEF NoOverlap, GuardKept

\* jit_peek drops an outdated node.
LEMMA JitPurgeStep ==
  ASSUME IInv, JitPurge
  PROVE  IInv'
<1> DEFINE old == OutdatedFrom(nodes, jfrom, Count(jtime))
           i == Least(old)
<1>1. i \in DOMAIN nodes
  <2>1. old \subseteq DOMAIN nodes /\ old \subseteq Nat
    <3>1. DOMAIN nodes = 1 .. Len(nodes) /\ Len(nodes) \in Nat /\ jfrom \in {1, 2}
      BY DEF IInv, TypeOK
    <3> QED BY <3>1 DEF OutdatedFrom
  <2>2. old # {}
    BY DEF JitPurge
  <2> HIDE DEF old
  <2> QED BY <2>1, <2>2, LeastIn
<1>2. /\ nodes' = Removed(nodes, i)
      /\ num_beacon' = BeaconsWithout(nodes[i])
      /\ jfrom' \in {1, 2}
      /\ jpc = "scan"
      /\ UNCHANGED <<jpc, jtime, jidx, jpkt, mx_jit_queue, env_vars, down_vars>>
  BY DEF JitPurge, IInv, TypeOK
<1> HIDE DEF i
<1>3. (/\ nodes \in Seq(Node)
       /\ num_beacon \in 0 .. UINT8_RANGE - 1
       /\ QueueWithinBounds /\ BeaconsCounted /\ NoOverlap /\ GuardKept
       /\ Prepared(nodes) /\ RoomKept /\ CallArmed)'
  BY <1>1, <1>2, RemovalKeeps
<1>4. TypeOK'
  BY <1>2, <1>3 DEF IInv, TypeOK, env_vars, down_vars
<1>5. IndexInRange'
  BY <1>2 DEF IndexInRange
<1> QED BY <1>3, <1>4, <1>5 DEF IInv

\* jit_dequeue takes out the node jit_peek found.
LEMMA JitDequeueStep ==
  ASSUME IInv, JitDequeue
  PROVE  IInv'
<1>1. jidx \in DOMAIN nodes /\ NodeAt(nodes, jidx) = nodes[jidx]
  BY DEF JitDequeue, IInv, IndexInRange, NodeAt
<1>2. /\ nodes' = Removed(nodes, jidx)
      /\ num_beacon' = BeaconsWithout(nodes[jidx])
      /\ jpkt' = nodes[jidx]
      /\ jidx' = 0
      /\ jpc' = "status"
      /\ UNCHANGED <<jtime, jfrom, mx_jit_queue, env_vars, down_vars>>
  BY <1>1 DEF JitDequeue
<1>3. (/\ nodes \in Seq(Node)
       /\ num_beacon \in 0 .. UINT8_RANGE - 1
       /\ QueueWithinBounds /\ BeaconsCounted /\ NoOverlap /\ GuardKept
       /\ Prepared(nodes) /\ RoomKept /\ CallArmed)'
  BY <1>1, <1>2, RemovalKeeps
<1>4. nodes[jidx] \in Node
  BY <1>1 DEF IInv, TypeOK
<1>5. TypeOK'
  BY <1>2, <1>3, <1>4 DEF IInv, TypeOK, env_vars, down_vars
<1>6. IndexInRange'
  BY <1>2 DEF IndexInRange
<1> QED BY <1>3, <1>5, <1>6 DEF IInv

\* The slot of the next beacon is a time.
LEMMA NextBeaconType ==
  ASSUME IInv, NEW ref \in Nat, BEACON_PERIOD # 0
  PROVE  NextBeacon(ref) \in Nat
<1>1. BEACON_PERIOD \in Nat \ {0} /\ last_beacon \in Nat /\ retry \in Nat
  BY ThreadConstants DEF IInv, TypeOK
<1>2. retry * BEACON_PERIOD \in Nat
  BY <1>1, ProductType
<1>3. ref % BEACON_PERIOD \in 0 .. BEACON_PERIOD - 1
  BY <1>1
<1>4. ref + (BEACON_PERIOD - (ref % BEACON_PERIOD)) \in Nat
  BY <1>1, <1>3
<1> DEFINE prod == retry * BEACON_PERIOD
           first == ref + (BEACON_PERIOD - (ref % BEACON_PERIOD))
<1>5. NextBeacon(ref) = (IF last_beacon = 0 THEN first ELSE last_beacon + BEACON_PERIOD) + prod
  BY DEF NextBeacon
<1> HIDE DEF prod, first
<1>6. prod \in Nat /\ first \in Nat
  BY <1>2, <1>4 DEF prod, first
<1> QED BY <1>1, <1>5, <1>6

\* thread_down up to the call of jit_enqueue; DownRecv computes beacon_loop.
LEMMA DownRecvStep ==
  ASSUME IInv, DownRecv
  PROVE  IInv'
<1>1. /\ UNCHANGED <<dpkt, dslot, last_beacon, mx_jit_queue, queue_vars, env_vars, jit_vars>>
      /\ dpc' = "refill" /\ retry' = 0 /\ dtime' = now
      /\ beacon_loop' = (JIT_NUM_BEACON_IN_QUEUE - num_beacon) % UINT8_RANGE
  BY DEF DownRecv
<1>2. beacon_loop' = JIT_NUM_BEACON_IN_QUEUE - num_beacon
  <2>1. num_beacon \in Nat /\ num_beacon <= JIT_NUM_BEACON_IN_QUEUE
    BY JitConstants DEF IInv, TypeOK, BeaconsCounted
  <2>2. /\ JIT_NUM_BEACON_IN_QUEUE - num_beacon \in Int
        /\ 0 <= JIT_NUM_BEACON_IN_QUEUE - num_beacon
        /\ JIT_NUM_BEACON_IN_QUEUE - num_beacon < UINT8_RANGE
    BY <2>1, JitConstants
  <2> QED BY <1>1, <2>2, SmallMod, JitConstants
<1>3. beacon_loop' \in 0 .. UINT8_RANGE - 1 /\ num_beacon + beacon_loop' = JIT_NUM_BEACON_IN_QUEUE
  BY <1>2, JitConstants DEF IInv, TypeOK, BeaconsCounted
<1>4. dmsg' \in Packet \cup {NoPacket} /\ requests' \in Nat /\ dmsg'.type # "BEACON"
  <2>1. CASE dmsg' = NoPacket /\ requests' = requests
    BY <2>1 DEF IInv, TypeOK, NoPacket
  <2>2. CASE /\ requests' = requests + 1
             /\ \E type \in DOWN_TYPES, d \in OFFSETS, toa \in AIRTIMES :
                  dmsg' = [type |-> type, toa |-> toa,
                           count |-> IF type = "C" THEN 0 ELSE Count(now + d)]
    <3>1. PICK type \in DOWN_TYPES, d \in OFFSETS, toa \in AIRTIMES :
            dmsg' = [type |-> type, toa |-> toa,
                     count |-> IF type = "C" THEN 0 ELSE Count(now + d)]
      BY <2>2
    <3>2. type \in PktType /\ type # "BEACON" /\ toa \in Nat /\ now + d \in Int
      BY ThreadConstants DEF IInv, TypeOK, PktType
    <3>3. Count(now + d) \in Counter /\ 0 \in Counter
      BY <3>2, CountType, JitConstants DEF Counter
    <3> QED BY <2>2, <3>1, <3>2, <3>3 DEF Packet, IInv, TypeOK
  <2> QED BY <2>1, <2>2 DEF DownRecv
<1>5. TypeOK'
  BY <1>1, <1>3, <1>4 DEF IInv, TypeOK, queue_vars, env_vars, jit_vars
<1>6. BeaconsCounted'
  BY <1>1, <1>3, JitConstants DEF IInv, TypeOK, BeaconsCounted, queue_vars
<1>7. (QueueWithinBounds /\ NoOverlap /\ GuardKept /\ IndexInRange
        /\ Prepared(nodes) /\ RoomKept /\ CallArmed)'
  BY <1>1, <1>4
  DEF IInv, QueueWithinBounds, NoOverlap, GuardKept, IndexInRange, RoomKept, CallArmed,
     queue_vars, jit_vars
<1> QED BY <1>5, <1>6, <1>7 DEF IInv

\* One round of the refill loop arms jit_enqueue with a beacon.
LEMMA DownBeaconStep ==
  ASSUME IInv, DownBeacon
  PROVE  IInv'
<1>1. PICK age \in 0 .. GPS_AGE : age <= now /\ dslot' = NextBeacon(now - age)
  BY DEF DownBeacon
<1>2. dslot' \in Nat /\ dpkt' \in Packet
  <2>1. now - age \in Nat /\ BEACON_PERIOD # 0
    BY <1>1, ThreadConstants DEF IInv, TypeOK, DownBeacon, Refilling
  <2>2. dslot' \in Nat
    BY <1>1, <2>1, NextBeaconType
  <2>3. Count(dslot') \in Counter
    BY <2>2, CountType
  <2>4. dpkt' = [type |-> "BEACON", toa |-> 0, count |-> Count(dslot')]
    BY DEF DownBeacon
  <2> QED BY <2>2, <2>3, <2>4 DEF Packet, PktType
<1>3. /\ UNCHANGED <<dmsg, beacon_loop, retry, last_beacon, requests, mx_jit_queue,
                     queue_vars, env_vars, jit_vars>>
      /\ dpc = "refill" /\ dpc' = "full" /\ dtime' = now /\ beacon_loop # 0
  BY DEF DownBeacon, Refilling
<1>4. TypeOK'
  BY <1>2, <1>3 DEF IInv, TypeOK, queue_vars, env_vars, jit_vars
<1>5. (QueueWithinBounds /\ BeaconsCounted /\ NoOverlap /\ GuardKept /\ IndexInRange
        /\ Prepared(nodes) /\ RoomKept /\ CallArmed)'
  BY <1>2, <1>3 DEF IInv, QueueWithinBounds, BeaconsCounted, NoOverlap, GuardKept, IndexInRange,
     RoomKept, CallArmed, queue_vars, jit_vars
<1> QED BY <1>4, <1>5 DEF IInv

\* So is the one the ASAP search tries first, whatever its conversion gives.
LEMMA AsapTimesType ==
  ASSUME NEW time \in Counter, NEW first \in AsapTimes(time)
  PROVE  first \in Counter
<1>1. COUNTER_RANGE \in Nat \ {0} /\ time \in Nat /\ ASAP_DELAY \in Nat
  BY JitConstants DEF Counter
<1> DEFINE sum == time + ASAP_DELAY
<1>2. sum \in Nat /\ sum % COUNTER_RANGE \in Counter
  BY <1>1 DEF Counter
<1>3. \/ first = sum /\ sum < COUNTER_RANGE
      \/ first = sum % COUNTER_RANGE
      \/ first = COUNTER_RANGE - 1
  BY DEF AsapTimes
<1> HIDE DEF sum
<1> QED BY <1>1, <1>2, <1>3 DEF Counter

\* What thread_down hands to jit_enqueue once the refill loop is over is the downlink it
\* received; only the time stamp of an immediate one is new.
LEMMA HandedOver ==
  ASSUME IInv, DownRefilled, dpc' # "recv"
  PROVE  /\ dpc' = "full" /\ dtime' = now /\ dmsg \in Packet
         /\ dpkt' \in Packet /\ dpkt'.type = dmsg.type /\ PostDelay(dpkt') = PostDelay(dmsg)
         /\ dmsg.type # "C" => dpkt' = dmsg
         /\ dpkt'.type = "C" => dpkt'.count \in AsapTimes(Count(now))
<1>1. dpc' = "full" /\ dtime' = now /\ dmsg \in Packet
  BY DEF DownRefilled, IInv, TypeOK
<1>2. CASE dmsg.type # "C"
  <2>1. dpkt' = dmsg
    BY <1>1, <1>2 DEF DownRefilled
  <2> QED BY <1>1, <1>2, <2>1
<1>3. CASE dmsg.type = "C"
  <2>1. PICK first \in AsapTimes(Count(now)) : dpkt' = [dmsg EXCEPT !.count = first]
    BY <1>1, <1>3 DEF DownRefilled
  <2>2. first \in Counter
    <3>1. Count(now) \in Counter
      BY CountType DEF IInv, TypeOK
    <3> QED BY <3>1, AsapTimesType
  <2>3. /\ dpkt' \in Packet /\ dpkt'.type = dmsg.type /\ dpkt'.toa = dmsg.toa
        /\ dpkt'.count = first
    BY <1>1, <2>1, <2>2 DEF Packet
  <2>4. PostDelay(dpkt') = PostDelay(dmsg)
    BY <2>3 DEF PostDelay
  <2> QED BY <1>1, <1>3, <2>3, <2>4
<1> QED BY <1>2, <1>3

\* The refill loop is over.
LEMMA DownRefilledStep ==
  ASSUME IInv, DownRefilled
  PROVE  IInv'
<1>1. /\ UNCHANGED <<dslot, last_beacon, requests, mx_jit_queue, queue_vars, env_vars, jit_vars>>
      /\ dmsg' = NoPacket /\ beacon_loop' = 0 /\ retry' = 0 /\ dpc = "refill"
  BY DEF DownRefilled
<1>2. \/ dpc' = "recv" /\ dtime' = 0 /\ dpkt' = dpkt
      \/ /\ dpc' = "full" /\ dtime' = now /\ dmsg \in Packet
         /\ dpkt' \in Packet /\ dpkt'.type = dmsg.type
  BY HandedOver DEF DownRefilled
<1>3. TypeOK'
  BY <1>1, <1>2, JitConstants DEF IInv, TypeOK, queue_vars, env_vars, jit_vars
<1>4. CallArmed'
  BY <1>1, <1>2 DEF IInv, CallArmed, NoPacket
<1>5. BeaconsCounted'
  BY <1>1, JitConstants DEF IInv, TypeOK, BeaconsCounted, queue_vars
<1>6. (QueueWithinBounds /\ NoOverlap /\ GuardKept /\ IndexInRange /\ Prepared(nodes) /\ RoomKept)'
  BY <1>1, <1>2 DEF IInv, QueueWithinBounds, NoOverlap, GuardKept, IndexInRange, RoomKept,
     queue_vars, jit_vars
<1> QED BY <1>3, <1>4, <1>5, <1>6 DEF IInv

\* What thread_down keeps when it takes the answer of jit_enqueue: a beacon that
\* was queued leaves one less to queue.
LEMMA AnsweredKeeps ==
  ASSUME IInv, NEW err, dpc \in {"full", "enqueue"}, DownAnswered(err)
  PROVE  /\ dpc' \in {"recv", "refill"} /\ dtime' \in Nat
         /\ UNCHANGED <<dmsg, requests>>
         /\ dpkt' = NoPacket /\ dslot' = 0
         /\ retry' \in Nat /\ last_beacon' \in Nat
         /\ beacon_loop' \in 0 .. UINT8_RANGE - 1
         /\ dpkt.type = "BEACON" /\ err = "OK" => beacon_loop' = beacon_loop - 1
         /\ ~(dpkt.type = "BEACON" /\ err = "OK") => beacon_loop' = beacon_loop
<1>1. /\ dtime \in Nat /\ dslot \in Nat /\ retry \in Nat /\ last_beacon \in Nat
      /\ beacon_loop \in 0 .. UINT8_RANGE - 1
      /\ dpkt.type = "BEACON" => beacon_loop # 0
  BY DEF IInv, TypeOK, CallArmed
<1>2. CASE dpkt.type = "BEACON"
  BY <1>1, <1>2, JitConstants DEF DownAnswered
<1>3. CASE dpkt.type # "BEACON"
  BY <1>1, <1>3, JitConstants DEF DownAnswered
<1> QED BY <1>2, <1>3

\* jit_queue_is_full: a packet refused changes no node, one let through has room.
LEMMA DownFullStep ==
  ASSUME IInv, DownFull
  PROVE  IInv'
<1>1. UNCHANGED <<mx_jit_queue, queue_vars, env_vars, jit_vars>> /\ dpc = "full"
  BY DEF DownFull
<1>2. (QueueWithinBounds /\ NoOverlap /\ GuardKept /\ IndexInRange /\ Prepared(nodes))'
  BY <1>1 DEF IInv, QueueWithinBounds, NoOverlap, GuardKept, IndexInRange, queue_vars, jit_vars
<1>3. CASE DownAnswered("FULL")
  <2>1. /\ dpc' \in {"recv", "refill"} /\ dtime' \in Nat
        /\ UNCHANGED <<dmsg, requests, beacon_loop>>
        /\ dpkt' = NoPacket /\ dslot' = 0
        /\ retry' \in Nat /\ last_beacon' \in Nat
        /\ beacon_loop' \in 0 .. UINT8_RANGE - 1
    BY <1>1, <1>3, AnsweredKeeps
  <2>2. TypeOK'
    BY <1>1, <2>1 DEF IInv, TypeOK, queue_vars, env_vars, jit_vars
  <2>3. (BeaconsCounted /\ RoomKept /\ CallArmed)'
    BY <1>1, <2>1 DEF IInv, BeaconsCounted, RoomKept, CallArmed, queue_vars
  <2> QED BY <1>2, <2>2, <2>3 DEF IInv
<1>4. CASE /\ Len(nodes) # JIT_QUEUE_MAX
           /\ dpc' = "enqueue"
           /\ UNCHANGED <<dtime, dmsg, dpkt, dslot, beacon_loop, retry, last_beacon,
                          requests>>
  <2>1. TypeOK'
    BY <1>1, <1>4 DEF IInv, TypeOK, queue_vars, env_vars, jit_vars
  <2>2. RoomKept'
    <3>1. Len(nodes) \in Nat /\ Len(nodes) <= JIT_QUEUE_MAX /\ nodes' = nodes
      BY <1>1 DEF IInv, TypeOK, QueueWithinBounds, queue_vars
    <3> QED BY <1>4, <3>1, JitConstants DEF RoomKept
  <2>3. (BeaconsCounted /\ CallArmed)'
    BY <1>1, <1>4 DEF IInv, BeaconsCounted, CallArmed, queue_vars
  <2> QED BY <1>2, <2>1, <2>2, <2>3 DEF IInv
<1> QED BY <1>3, <1>4 DEF DownFull

\* jit_enqueue under the mutex: the packet it accepts becomes a node that
\* overlaps with no other, and a beacon is counted.
LEMMA DownEnqueueStep ==
  ASSUME IInv, DownEnqueue
  PROVE  IInv'
<1>1. UNCHANGED <<mx_jit_queue, env_vars, jit_vars>> /\ dpc = "enqueue" /\ DownAnswered(Answer)
  BY DEF DownEnqueue
<1>2. /\ dpc' \in {"recv", "refill"} /\ dtime' \in Nat
      /\ UNCHANGED <<dmsg, requests>>
      /\ dpkt' = NoPacket /\ dslot' = 0
      /\ retry' \in Nat /\ last_beacon' \in Nat
      /\ beacon_loop' \in 0 .. UINT8_RANGE - 1
      /\ dpkt.type = "BEACON" /\ Answer = "OK" => beacon_loop' = beacon_loop - 1
      /\ ~(dpkt.type = "BEACON" /\ Answer = "OK") => beacon_loop' = beacon_loop
  BY <1>1, AnsweredKeeps
<1>3. (RoomKept /\ CallArmed)'
  BY <1>2 DEF IInv, RoomKept, CallArmed
<1>4. CASE Answer # "OK"
  <2>1. UNCHANGED queue_vars
    BY <1>4 DEF DownEnqueue
  <2>2. TypeOK'
    BY <1>1, <1>2, <2>1 DEF IInv, TypeOK, queue_vars, env_vars, jit_vars
  <2>3. (QueueWithinBounds /\ BeaconsCounted /\ NoOverlap /\ GuardKept /\ IndexInRange
          /\ Prepared(nodes))'
    BY <1>1, <1>2, <1>4, <2>1
    DEF IInv, QueueWithinBounds, BeaconsCounted, NoOverlap, GuardKept, IndexInRange,
        queue_vars, jit_vars
  <2> QED BY <1>3, <2>2, <2>3 DEF IInv
<1>5. CASE Answer = "OK"
  <2>1. /\ nodes' = Inserted(nodes, Judged)
        /\ num_beacon' = IF dpkt.type = "BEACON"
                           THEN (num_beacon + 1) % UINT8_RANGE ELSE num_beacon
    BY <1>5 DEF DownEnqueue
  <2>2. nodes \in Seq(Node) /\ dpkt \in Packet /\ Count(dtime) \in Counter
    BY <1>1, CountType DEF IInv, TypeOK, CallArmed
  <2>3. Judged \in Packet /\ Judged.type = dpkt.type
    BY <2>2, TimedType DEF Judged
  <2>4. Verdict(nodes, Count(dtime), Judged) = "OK"
    BY <1>5 DEF Answer
  <2>5. /\ nodes' \in Seq(Node)
        /\ Len(nodes') = Len(nodes) + 1
        /\ Disjoint(nodes')
        /\ Guarded(nodes')
        /\ Prepared(nodes')
        /\ Cardinality(Beacons(nodes')) =
             Cardinality(Beacons(nodes)) + IF dpkt.type = "BEACON" THEN 1 ELSE 0
    BY <2>1, <2>2, <2>3, <2>4, InsertedProperties DEF IInv, NoOverlap, GuardKept
  <2>6. /\ num_beacon' = num_beacon + IF dpkt.type = "BEACON" THEN 1 ELSE 0
        /\ num_beacon' + beacon_loop' <= JIT_NUM_BEACON_IN_QUEUE
        /\ num_beacon' \in 0 .. UINT8_RANGE - 1
    <3>1. /\ num_beacon \in Nat /\ beacon_loop \in Nat
          /\ num_beacon + beacon_loop <= JIT_NUM_BEACON_IN_QUEUE
          /\ dpkt.type = "BEACON" => beacon_loop # 0
      BY <1>1, JitConstants DEF IInv, TypeOK, BeaconsCounted, CallArmed
    <3>2. CASE dpkt.type = "BEACON"
      <4>1. 0 <= num_beacon + 1 /\ num_beacon + 1 < UINT8_RANGE
        BY <3>1, <3>2, JitConstants
      <4>2. (num_beacon + 1) % UINT8_RANGE = num_beacon + 1
        BY <3>1, <4>1, SmallMod, JitConstants
      <4> QED BY <1>2, <1>5, <2>1, <3>1, <3>2, <4>1, <4>2, JitConstants
    <3>3. CASE dpkt.type # "BEACON"
      <4>1. num_beacon' = num_beacon /\ beacon_loop' = beacon_loop
        BY <1>2, <2>1, <3>3
      <4>2. num_beacon < UINT8_RANGE
        BY <3>1, JitConstants
      <4> QED BY <3>1, <3>3, <4>1, <4>2, JitConstants
    <3> QED BY <3>2, <3>3
  <2>7. TypeOK'
    BY <1>1, <1>2, <2>5, <2>6 DEF IInv, TypeOK, env_vars, jit_vars
  <2>8. BeaconsCounted'
    <3>1. num_beacon = Cardinality(Beacons(nodes)) /\ num_beacon' \in Nat /\ beacon_loop' \in Nat
      BY <1>2, <2>6, JitConstants DEF IInv, BeaconsCounted
    <3> QED BY <2>5, <2>6, <3>1, JitConstants DEF BeaconsCounted
  <2>9. (QueueWithinBounds /\ IndexInRange)'
    <3>1. /\ Len(nodes) \in Nat /\ Len(nodes) < JIT_QUEUE_MAX
          /\ DOMAIN nodes = 1 .. Len(nodes) /\ DOMAIN nodes' = 1 .. Len(nodes')
      BY <1>1, <2>2, <2>5 DEF IInv, RoomKept
    <3>2. DOMAIN nodes \subseteq DOMAIN nodes'
      BY <2>5, <3>1
    <3> QED BY <1>1, <2>5, <3>1, <3>2, JitConstants
            DEF IInv, QueueWithinBounds, IndexInRange, jit_vars
  <2> QED BY <1>3, <2>5, <2>7, <2>8, <2>9 DEF IInv, NoOverlap, GuardKept
<1> QED BY <1>4, <1>5

-----------------------------------------------------------------------------
(* The theorems.                                                           *)

\* Every step of either thread and of the environment keeps the invariant.
LEMMA NextStep == IInv /\ [Next]_vars => IInv'
<1> SUFFICES ASSUME IInv, [Next]_vars PROVE IInv'
  OBVIOUS
<1>1. CASE Tick \/ GpsChange
  BY <1>1, EnvStep
<1>2. CASE JitLocal
  BY <1>2, JitLocalStep
<1>3. CASE JitPurge
  BY <1>3, JitPurgeStep
<1>4. CASE JitDequeue
  BY <1>4, JitDequeueStep
<1>5. CASE DownRecv
  BY <1>5, DownRecvStep
<1>6. CASE DownBeacon
  BY <1>6, DownBeaconStep
<1>7. CASE DownRefilled
  BY <1>7, DownRefilledStep
<1>8. CASE DownFull
  BY <1>8, DownFullStep
<1>9. CASE DownEnqueue
  BY <1>9, DownEnqueueStep
<1>10. CASE UNCHANGED vars
  BY <1>10 DEF vars, IInv, TypeOK, QueueWithinBounds, BeaconsCounted, NoOverlap, GuardKept,
     IndexInRange, RoomKept, CallArmed
<1> QED BY <1>1, <1>2, <1>3, <1>4, <1>5, <1>6, <1>7, <1>8, <1>9, <1>10
        DEF Next, JitNext, JitLocal, DownNext

\* The inductive invariant holds in every state the threads reach.
THEOREM Invariance == Spec => []IInv
  BY InitIInv, NextStep, PTL DEF Spec

\* Every variable keeps its type: the uint8_t counters stay in range although
\* they are decremented without a test.
THEOREM TypeCorrect == Spec => []TypeOK
<1>1. IInv => TypeOK
  BY DEF IInv
<1> QED BY <1>1, Invariance, PTL

\* The array nodes[JIT_QUEUE_MAX] is never overrun, although jit_enqueue asks for
\* room in one mutex section and stores the node in the next.
THEOREM QueueBounded == Spec => []QueueWithinBounds
<1>1. IInv => QueueWithinBounds
  BY DEF IInv
<1> QED BY <1>1, Invariance, PTL

\* num_beacon counts the beacons queued, and the refill loop, armed from an
\* unlocked read of it, never overshoots JIT_NUM_BEACON_IN_QUEUE.
THEOREM BeaconsExact == Spec => []BeaconsCounted
<1>1. IInv => BeaconsCounted
  BY DEF IInv
<1> QED BY <1>1, Invariance, PTL

\* No two packets of the queue overlap on the air, whatever the counter does.
THEOREM NeverOverlapping == Spec => []NoOverlap
<1>1. IInv => NoOverlap
  BY DEF IInv
<1> QED BY <1>1, Invariance, PTL

\* A beacon's guard holds no Class B downlink, whichever of the two was queued first and
\* for every set of delays: both directions of the collision test reserve it, although
\* Class A and Class C downlinks may lie in it (jitqueue.c:42, 257-295).
THEOREM GuardHolds == Spec => []GuardKept
<1>1. IInv => GuardKept
  BY DEF IInv
<1> QED BY <1>1, Invariance, PTL

\* The index carried from jit_peek to jit_dequeue names a node when it is used.
THEOREM IndexValid == Spec => []IndexInRange
<1>1. IInv => IndexInRange
  BY DEF IInv
<1> QED BY <1>1, Invariance, PTL

-----------------------------------------------------------------------------
(* Leads: how far ahead of the counter a node is, and the order this gives  *)
(* the queue.                                                              *)

\* How far ahead of a counter value a node or a packet is.
Ahead(n, time) == Elapsed(n.count, time)

\* A difference of counter values is the true difference but for whole turns of the
\* counter.
LEMMA ElapsedTurns ==
  ASSUME NEW a \in Int, NEW b \in Int
  PROVE  \E m \in Int : a - b = COUNTER_RANGE * m + Elapsed(a, b)
<1> DEFINE x == a - b
<1>1. x \in Int /\ COUNTER_RANGE \in Nat \ {0}
  BY JitConstants
<1>2. Elapsed(a, b) = x % COUNTER_RANGE
  BY DEF Elapsed
<1> HIDE DEF x
<1>3. x \div COUNTER_RANGE \in Int
      /\ x = COUNTER_RANGE * (x \div COUNTER_RANGE) + (x % COUNTER_RANGE)
  BY <1>1, DivMod
<1> QED BY <1>2, <1>3 DEF x

\* The counter shows the time but for whole turns.
LEMMA CountTurns ==
  ASSUME NEW t \in Int
  PROVE  \E m \in Int : t + COUNTER_ORIGIN = COUNTER_RANGE * m + Count(t)
<1> DEFINE x == t + COUNTER_ORIGIN
<1>1. x \in Int /\ COUNTER_RANGE \in Nat \ {0}
  BY JitConstants, ThreadConstants
<1>2. Count(t) = x % COUNTER_RANGE
  BY DEF Count
<1> HIDE DEF x
<1>3. x \div COUNTER_RANGE \in Int
      /\ x = COUNTER_RANGE * (x \div COUNTER_RANGE) + (x % COUNTER_RANGE)
  BY <1>1, DivMod
<1> QED BY <1>2, <1>3 DEF x

\* What is within the range and equal to a difference but for whole turns is the difference
\* of the counter values.
LEMMA ElapsedIs ==
  ASSUME NEW a \in Int, NEW b \in Int, NEW m \in Int, NEW e \in Int,
         0 <= e, e < COUNTER_RANGE, a - b = COUNTER_RANGE * m + e
  PROVE  Elapsed(a, b) = e
<1>1. COUNTER_RANGE \in Nat \ {0}
  BY JitConstants
<1>2. (COUNTER_RANGE * m + e) % COUNTER_RANGE = e
  BY <1>1, ModUnique
<1> QED BY <1>2 DEF Elapsed

\* The lead of a count shrinks by what the clock advances, as long as it is not used up,
\* and it grows by what the clock is taken back.
LEMMA LeadShrinks ==
  ASSUME NEW c \in Counter, NEW t \in Int, NEW u \in Int,
         u - t <= Elapsed(c, Count(t)), Elapsed(c, Count(t)) - (u - t) < COUNTER_RANGE
  PROVE  Elapsed(c, Count(u)) = Elapsed(c, Count(t)) - (u - t)
<1> DEFINE e == Elapsed(c, Count(t))
           f == e - (u - t)
<1>1. COUNTER_RANGE \in Nat /\ c \in Int /\ COUNTER_ORIGIN \in Int
  BY JitConstants, ThreadConstants DEF Counter
<1>2. Count(t) \in Int /\ Count(u) \in Int
  BY CountType, <1>1 DEF Counter
<1>3. e \in Int
  BY <1>1, <1>2, ElapsedType
<1>4. PICK m \in Int : t + COUNTER_ORIGIN = COUNTER_RANGE * m + Count(t)
  BY CountTurns
<1>5. PICK n \in Int : u + COUNTER_ORIGIN = COUNTER_RANGE * n + Count(u)
  BY CountTurns
<1>6. PICK k \in Int : c - Count(t) = COUNTER_RANGE * k + e
  BY <1>1, <1>2, ElapsedTurns
<1> HIDE DEF e
<1>7. f \in Int /\ 0 <= f /\ f < COUNTER_RANGE
  BY <1>3 DEF e
<1> DEFINE w == k + n - m
<1>8. w \in Int /\ c - Count(u) = COUNTER_RANGE * w + f
  <2>1. w \in Int /\ COUNTER_RANGE * w = COUNTER_RANGE * k + COUNTER_RANGE * n - COUNTER_RANGE * m
    BY <1>1
  <2> DEFINE x == COUNTER_RANGE * k
             y == COUNTER_RANGE * n
             z == COUNTER_RANGE * m
             v == COUNTER_RANGE * w
  <2>2. /\ x \in Int /\ y \in Int /\ z \in Int /\ v \in Int /\ v = x + y - z
        /\ t + COUNTER_ORIGIN = z + Count(t) /\ u + COUNTER_ORIGIN = y + Count(u)
        /\ c - Count(t) = x + e
    BY <1>1, <1>4, <1>5, <1>6, <2>1
  <2> HIDE DEF w, x, y, z, v
  <2>3. c - Count(u) = v + f
    <3>1. Count(t) = t + COUNTER_ORIGIN - z /\ Count(u) = u + COUNTER_ORIGIN - y
      BY <1>1, <1>2, <2>2
    <3>2. c = x + e + Count(t)
      BY <1>1, <1>2, <1>3, <2>2
    <3>3. c - Count(u) = x + e + t - z - u + y
      BY <1>1, <1>2, <1>3, <2>2, <3>1, <3>2
    <3> QED BY <1>3, <2>2, <3>3
  <2> QED BY <2>1, <2>3 DEF v
<1> HIDE DEF f, w
<1>9. Elapsed(c, Count(u)) = f
  BY <1>1, <1>2, <1>7, <1>8, ElapsedIs
<1> QED BY <1>9 DEF e, f

\* The distance of two counts is the difference of their leads, or what is left of a turn
\* when the first is due before the second.
LEMMA LeadDistance ==
  ASSUME NEW a \in Counter, NEW b \in Counter, NEW time \in Counter
  PROVE  /\ Elapsed(a, time) >= Elapsed(b, time) =>
              Elapsed(a, b) = Elapsed(a, time) - Elapsed(b, time)
         /\ Elapsed(a, time) < Elapsed(b, time) =>
              Elapsed(a, b) = COUNTER_RANGE - (Elapsed(b, time) - Elapsed(a, time))
<1> DEFINE ea == Elapsed(a, time)
           eb == Elapsed(b, time)
<1>1. COUNTER_RANGE \in Nat /\ a \in Int /\ b \in Int /\ time \in Int
  BY JitConstants DEF Counter
<1>2. ea \in 0 .. COUNTER_RANGE - 1 /\ eb \in 0 .. COUNTER_RANGE - 1
  BY <1>1, ElapsedType DEF Counter
<1>3. PICK m \in Int : a - time = COUNTER_RANGE * m + ea
  BY <1>1, ElapsedTurns
<1>4. PICK n \in Int : b - time = COUNTER_RANGE * n + eb
  BY <1>1, ElapsedTurns
<1> HIDE DEF ea, eb
<1>5. CASE ea >= eb
  <2> DEFINE d == ea - eb
             w == m - n
  <2>1. w \in Int /\ a - b = COUNTER_RANGE * w + d
    BY <1>1, <1>2, <1>3, <1>4
  <2>2. d \in Int /\ 0 <= d /\ d < COUNTER_RANGE
    BY <1>1, <1>2, <1>5
  <2> HIDE DEF d, w
  <2>3. Elapsed(a, b) = d
    BY <1>1, <2>1, <2>2, ElapsedIs
  <2> QED BY <1>2, <1>5, <2>3 DEF d, ea, eb
<1>6. CASE ea < eb
  <2> DEFINE d == COUNTER_RANGE - (eb - ea)
             w == m - n - 1
  <2>1. w \in Int /\ a - b = COUNTER_RANGE * w + d
    BY <1>1, <1>2, <1>3, <1>4
  <2>2. d \in Int /\ 0 <= d /\ d < COUNTER_RANGE
    BY <1>1, <1>2, <1>6
  <2> HIDE DEF d, w
  <2>3. Elapsed(a, b) = d
    BY <1>1, <2>1, <2>2, ElapsedIs
  <2> QED BY <1>2, <1>6, <2>3 DEF d, ea, eb
<1> QED BY <1>2, <1>5, <1>6

\* The nodes come in the order in which they are due.
Ordered(q, time) ==
  \A i, j \in DOMAIN q : i < j => Ahead(q[i], time) < Ahead(q[j], time)

\* No node is so far ahead that jit_peek would take it for one in the past.
Within(q, time) == \A i \in DOMAIN q : Ahead(q[i], time) < TX_MAX_ADVANCE_DELAY

\* What jit_peek takes for the past is the farther half of the counter, or more.
HalfAhead == 2 * TX_MAX_ADVANCE_DELAY <= COUNTER_RANGE

\* Within half of the counter compare subtracts the leads: it is a linear order there.
LEMMA CompareIs ==
  ASSUME NEW p \in Node, NEW r \in Node, NEW time \in Counter, HalfAhead,
         Ahead(p, time) < TX_MAX_ADVANCE_DELAY, Ahead(r, time) < TX_MAX_ADVANCE_DELAY
  PROVE  compare(p, r) = Ahead(p, time) - Ahead(r, time)
<1> DEFINE ep == Ahead(p, time)
           er == Ahead(r, time)
           d == Elapsed(p.count, r.count)
           half == COUNTER_RANGE \div 2
<1>1. p.count \in Counter /\ r.count \in Counter
  BY DEF Node
<1>2. /\ ep >= er => d = ep - er
      /\ ep < er => d = COUNTER_RANGE - (er - ep)
  BY <1>1, LeadDistance DEF Ahead
<1>3. ep \in Nat /\ er \in Nat
  <2>1. p.count \in Int /\ r.count \in Int /\ time \in Int
    BY <1>1 DEF Counter
  <2> QED BY <2>1, ElapsedType DEF Ahead
<1>4. /\ COUNTER_RANGE \in Nat /\ TX_MAX_ADVANCE_DELAY \in Nat
      /\ half \in Nat /\ TX_MAX_ADVANCE_DELAY <= half /\ half <= COUNTER_RANGE - half
  BY JitConstants DEF HalfAhead
<1>5. compare(p, r) = IF d < half THEN d ELSE d - COUNTER_RANGE
  BY DEF compare
<1>6. ep < TX_MAX_ADVANCE_DELAY /\ er < TX_MAX_ADVANCE_DELAY
  OBVIOUS
<1> HIDE DEF ep, er, d, half
<1> QED BY <1>2, <1>3, <1>4, <1>5, <1>6 DEF ep, er

\* The nodes of a queue are distinct by their leads.
Distinct(q, time) ==
  \A i, j \in DOMAIN q : Ahead(q[i], time) = Ahead(q[j], time) => i = j

\* Nodes that do not overlap are not due at the same time.
LEMMA DisjointDistinct ==
  ASSUME NEW q \in Seq(Node), NEW time \in Counter, Disjoint(q)
  PROVE  Distinct(q, time)
<1> SUFFICES ASSUME NEW i \in DOMAIN q, NEW j \in DOMAIN q, i # j,
                    Ahead(q[i], time) = Ahead(q[j], time)
             PROVE  FALSE
  BY DEF Distinct
<1>1. q[i] \in Node /\ q[j] \in Node
  OBVIOUS
<1>2. q[i].count \in Counter /\ q[j].count \in Counter /\ q[i].post \in Nat
  BY <1>1 DEF Node
<1>3. Ahead(q[i], time) \in Nat /\ Ahead(q[j], time) \in Nat
  <2>1. q[i].count \in Int /\ q[j].count \in Int /\ time \in Int
    BY <1>2 DEF Counter
  <2> QED BY <2>1, ElapsedType DEF Ahead
<1>4. Elapsed(q[j].count, q[i].count) = Ahead(q[j], time) - Ahead(q[i], time)
  <2>1. Elapsed(q[j].count, time) >= Elapsed(q[i].count, time)
    BY <1>3 DEF Ahead
  <2> QED BY <1>2, <2>1, LeadDistance DEF Ahead
<1>5. Elapsed(q[j].count, q[i].count) = 0
  BY <1>3, <1>4
<1>6. Apart(q[i], q[j])
  BY DEF Disjoint
<1> QED BY <1>2, <1>5, <1>6, JitConstants DEF Apart

\* The place qsort gives a node is the number of nodes that are due no later.
LEMMA RankIs ==
  ASSUME NEW q \in Seq(Node), NEW time \in Counter, HalfAhead, Within(q, time),
         Distinct(q, time), NEW i \in DOMAIN q
  PROVE  Rank(q, i) = Cardinality({j \in DOMAIN q : Ahead(q[j], time) <= Ahead(q[i], time)})
<1> DEFINE e(j) == Ahead(q[j], time)
<1>1. \A j \in DOMAIN q : q[j] \in Node
  OBVIOUS
<1>2. \A j \in DOMAIN q : e(j) \in Nat
  <2>1. SUFFICES ASSUME NEW j \in DOMAIN q PROVE e(j) \in Nat
    OBVIOUS
  <2>2. q[j].count \in Int /\ time \in Int
    BY <1>1 DEF Node, Counter
  <2> QED BY <2>2, ElapsedType DEF Ahead
<1>3. \A j \in DOMAIN q : compare(q[j], q[i]) = e(j) - e(i)
  BY <1>1, CompareIs DEF Within
<1>4. \A j \in DOMAIN q : e(j) = e(i) => j = i
  BY DEF Distinct
<1> DEFINE A == {j \in DOMAIN q : \/ compare(q[j], q[i]) < 0
                                  \/ compare(q[j], q[i]) = 0 /\ j <= i}
           B == {j \in DOMAIN q : e(j) <= e(i)}
<1> HIDE DEF e
<1>5. A = B
  <2>1. ASSUME NEW j \in DOMAIN q PROVE (j \in A) <=> (j \in B)
    <3>1. e(j) \in Nat /\ e(i) \in Nat /\ compare(q[j], q[i]) = e(j) - e(i) /\ (e(j) = e(i) => j = i)
      BY <1>2, <1>3, <1>4
    <3>2. i <= i
      BY DOMAIN q \subseteq Nat
    <3> HIDE DEF Distinct
    <3> QED BY <3>1, <3>2
  <2> QED BY <2>1
<1> QED BY <1>5 DEF Rank, e

\* jit_sort_queue puts nodes that lie within half of the counter in the order in which they
\* are due.
LEMMA SortOrders ==
  ASSUME NEW q \in Seq(Node), NEW time \in Counter, HalfAhead, Within(q, time),
         Distinct(q, time)
  PROVE  Ordered(jit_sort_queue(q), time)
<1> DEFINE D == DOMAIN q
           e(j) == Ahead(q[j], time)
           below(i) == {j \in D : e(j) <= e(i)}
           rank == [i \in D |-> Rank(q, i)]
           at(k) == CHOOSE i \in D : rank[i] = k
           s == [k \in D |-> q[at(k)]]
<1>1. D = 1 .. Len(q) /\ Len(q) \in Nat /\ IsFiniteSet(D) /\ Cardinality(D) = Len(q)
  <2>1. D = 1 .. Len(q) /\ Len(q) \in Nat
    OBVIOUS
  <2>2. IsFiniteSet(1 .. Len(q)) /\ Cardinality(1 .. Len(q)) = Len(q)
    BY <2>1, FS_Interval
  <2> QED BY <2>1, <2>2
<1>2. \A j \in D : e(j) \in Nat
  <2>1. SUFFICES ASSUME NEW j \in D PROVE e(j) \in Nat
    OBVIOUS
  <2>2. q[j] \in Node
    OBVIOUS
  <2>3. q[j].count \in Int /\ time \in Int
    BY <2>2 DEF Node, Counter
  <2> QED BY <2>3, ElapsedType DEF Ahead
<1>3. \A i \in D : rank[i] = Cardinality(below(i))
  BY RankIs
<1>4. \A i, j \in D : e(i) = e(j) => i = j
  BY DEF Distinct
<1> HIDE DEF e, rank
<1>5. \A i \in D : below(i) \subseteq D /\ IsFiniteSet(below(i)) /\ i \in below(i)
  <2>1. SUFFICES ASSUME NEW i \in D
                 PROVE  below(i) \subseteq D /\ IsFiniteSet(below(i)) /\ i \in below(i)
    OBVIOUS
  <2>2. below(i) \subseteq D
    OBVIOUS
  <2>3. i \in below(i)
    BY <1>2
  <2> QED BY <1>1, <2>2, <2>3, FS_Subset
<1>6. \A i, j \in D : e(i) < e(j) => rank[i] < rank[j]
  <2>1. SUFFICES ASSUME NEW i \in D, NEW j \in D, e(i) < e(j)
                 PROVE  rank[i] < rank[j]
    OBVIOUS
  <2>2. below(i) \subseteq below(j) /\ j \in below(j) /\ j \notin below(i)
    BY <1>2, <2>1
  <2>3. IsFiniteSet(below(j)) /\ IsFiniteSet(below(i))
    BY <1>5
  <2> HIDE DEF below
  <2>4. Cardinality(below(i)) < Cardinality(below(j))
    <3>1. /\ Cardinality(below(i)) \in Nat /\ Cardinality(below(j)) \in Nat
          /\ Cardinality(below(i)) <= Cardinality(below(j))
          /\ Cardinality(below(i)) = Cardinality(below(j)) => below(i) = below(j)
      BY <2>2, <2>3, FS_Subset, FS_CardinalityType
    <3> QED BY <2>2, <3>1
  <2> QED BY <1>3, <2>4
<1>7. rank \in Injection(D, D)
  <2>1. \A i \in D : rank[i] \in D
    <3>1. SUFFICES ASSUME NEW i \in D PROVE rank[i] \in D
      OBVIOUS
    <3>2. below(i) \subseteq D /\ IsFiniteSet(below(i)) /\ i \in below(i)
      BY <1>5
    <3> HIDE DEF below, D
    <3>3. Cardinality(below(i)) \in Nat /\ Cardinality(below(i)) <= Len(q)
      BY <1>1, <3>2, FS_Subset, FS_CardinalityType
    <3>4. Cardinality(below(i)) # 0
      BY <3>2, FS_EmptySet
    <3> QED BY <1>1, <1>3, <3>3, <3>4
  <2>2. \A i, j \in D : rank[i] = rank[j] => i = j
    <3>1. SUFFICES ASSUME NEW i \in D, NEW j \in D, rank[i] = rank[j], i # j
                   PROVE  FALSE
      OBVIOUS
    <3>2. e(i) \in Nat /\ e(j) \in Nat /\ e(i) # e(j)
      BY <1>2, <1>4, <3>1
    <3>3. e(i) < e(j) \/ e(j) < e(i)
      BY <3>2
    <3>4. rank[i] \in Nat /\ rank[j] \in Nat
      BY <1>1, <2>1
    <3> QED BY <1>6, <3>1, <3>3, <3>4
  <2>3. rank = [i \in D |-> rank[i]]
    BY DEF rank
  <2> QED BY <2>1, <2>2, <2>3 DEF Injection, IsInjective
<1>8. rank \in Bijection(D, D)
  BY <1>1, <1>7, FS_Injection DEF Bijection
<1>9. jit_sort_queue(q) = s
  BY <1>8 DEF jit_sort_queue, rank
<1>10. \A k \in D : at(k) \in D /\ rank[at(k)] = k
  BY <1>8 DEF Bijection, Surjection
<1> HIDE DEF at
<1>11. \A k, l \in D : k < l => e(at(k)) < e(at(l))
  <2>1. SUFFICES ASSUME NEW k \in D, NEW l \in D, k < l PROVE e(at(k)) < e(at(l))
    OBVIOUS
  <2>2. at(k) \in D /\ at(l) \in D /\ rank[at(k)] = k /\ rank[at(l)] = l
    BY <1>10
  <2>3. e(at(k)) \in Nat /\ e(at(l)) \in Nat
    BY <1>2, <2>2
  <2>4. k \in Nat /\ l \in Nat
    BY <1>1
  <2>5. CASE e(at(l)) < e(at(k))
    <3>1. l < k
      BY <1>6, <2>2, <2>5
    <3> QED BY <2>1, <2>4, <3>1
  <2>6. CASE e(at(l)) = e(at(k))
    <3>1. at(l) = at(k)
      BY <1>4, <2>2, <2>6
    <3> QED BY <2>1, <2>2, <2>4, <3>1
  <2> QED BY <2>3, <2>5, <2>6
<1>12. DOMAIN s = D /\ \A k \in D : s[k] = q[at(k)]
  OBVIOUS
<1> HIDE DEF s
<1> QED BY <1>9, <1>11, <1>12 DEF Ordered, e

\* jit_sort_queue loses no node and invents none.
LEMMA SortMembers ==
  ASSUME NEW q \in Seq(Node)
  PROVE  LET s == jit_sort_queue(q)
         IN  /\ \A k \in DOMAIN s : \E i \in DOMAIN q : s[k] = q[i]
             /\ \A i \in DOMAIN q : \E k \in DOMAIN s : s[k] = q[i]
             /\ Disjoint(s) => Disjoint(q)
<1> DEFINE s == jit_sort_queue(q)
<1>1. PICK p \in Bijection(DOMAIN q, DOMAIN q) : s = [k \in DOMAIN q |-> q[p[k]]]
  BY SortArranges
<1> HIDE DEF s
<1>2. DOMAIN s = DOMAIN q /\ \A k \in DOMAIN s : p[k] \in DOMAIN q /\ s[k] = q[p[k]]
  BY <1>1 DEF Bijection, Injection
<1>3. \A i \in DOMAIN q : \E k \in DOMAIN s : p[k] = i
  BY <1>1, <1>2 DEF Bijection, Surjection
<1>4. ASSUME Disjoint(s) PROVE Disjoint(q)
  <2>1. SUFFICES ASSUME NEW i \in DOMAIN q, NEW j \in DOMAIN q, i # j
                 PROVE  Apart(q[i], q[j])
    BY DEF Disjoint
  <2>2. PICK k \in DOMAIN s : p[k] = i
    BY <1>3
  <2>3. PICK l \in DOMAIN s : p[l] = j
    BY <1>3
  <2>4. Apart(s[k], s[l])
    BY <1>4, <2>1, <2>2, <2>3 DEF Disjoint
  <2> QED BY <1>2, <2>2, <2>3, <2>4
<1>5. \A k \in DOMAIN s : \E i \in DOMAIN q : s[k] = q[i]
  BY <1>2
<1>6. \A i \in DOMAIN q : \E k \in DOMAIN s : s[k] = q[i]
  <2>1. SUFFICES ASSUME NEW i \in DOMAIN q PROVE \E k \in DOMAIN s : s[k] = q[i]
    OBVIOUS
  <2>2. PICK k \in DOMAIN s : p[k] = i
    BY <1>3
  <2>3. s[k] = q[i]
    BY <1>2, <2>2
  <2> QED BY <2>3
<1> QED BY <1>4, <1>5, <1>6 DEF s

\* The queue of jit_enqueue: the new node among the old ones, in the order in which they
\* are due.
LEMMA InsertedOrder ==
  ASSUME NEW q \in Seq(Node), NEW pkt \in Packet, NEW time \in Counter, HalfAhead,
         Within(q, time), Ahead(pkt, time) < TX_MAX_ADVANCE_DELAY, Disjoint(Inserted(q, pkt))
  PROVE  LET s == Inserted(q, pkt)
         IN  /\ \A k \in DOMAIN s : s[k] = NodeOf(pkt) \/ \E i \in DOMAIN q : s[k] = q[i]
             /\ \A i \in DOMAIN q : \E k \in DOMAIN s : s[k] = q[i]
             /\ Ordered(s, time) /\ Within(s, time)
<1> DEFINE new == NodeOf(pkt)
           a == Append(q, new)
           s == jit_sort_queue(a)
<1>1. new \in Node /\ Ahead(new, time) = Ahead(pkt, time)
  <2>1. new \in Node
    BY NodeOfType
  <2>2. new.count = pkt.count
    BY DEF NodeOf
  <2> QED BY <2>1, <2>2 DEF Ahead
<1>2. Inserted(q, pkt) = s
  BY DEF Inserted
<1> HIDE DEF new
<1>3. /\ a \in Seq(Node)
      /\ DOMAIN q = 1 .. Len(q) /\ Len(q) \in Nat /\ DOMAIN a = 1 .. Len(q) + 1
      /\ \A i \in DOMAIN q : a[i] = q[i]
      /\ a[Len(q) + 1] = new
  BY <1>1
<1>4. \A i \in DOMAIN a : a[i] = new \/ \E j \in DOMAIN q : a[i] = q[j]
  BY <1>3
<1>5. \A i \in DOMAIN q : \E j \in DOMAIN a : a[j] = q[i]
  BY <1>3
<1>6. Within(a, time)
  <2>1. SUFFICES ASSUME NEW i \in DOMAIN a PROVE Ahead(a[i], time) < TX_MAX_ADVANCE_DELAY
    BY DEF Within
  <2>2. CASE a[i] = new
    BY <1>1, <2>2
  <2>3. CASE \E j \in DOMAIN q : a[i] = q[j]
    BY <2>3 DEF Within
  <2> QED BY <1>4, <2>2, <2>3
<1> HIDE DEF a
<1>7. /\ \A k \in DOMAIN s : \E i \in DOMAIN a : s[k] = a[i]
      /\ \A i \in DOMAIN a : \E k \in DOMAIN s : s[k] = a[i]
      /\ Disjoint(s) => Disjoint(a)
  BY <1>3, SortMembers
<1>8. Distinct(a, time)
  BY <1>2, <1>3, <1>7, DisjointDistinct
<1>9. Ordered(s, time)
  BY <1>3, <1>6, <1>8, SortOrders
<1> HIDE DEF s
<1>10. Within(s, time)
  BY <1>6, <1>7 DEF Within
<1>11. \A k \in DOMAIN s : s[k] = new \/ \E i \in DOMAIN q : s[k] = q[i]
  BY <1>4, <1>7
<1>12. \A i \in DOMAIN q : \E k \in DOMAIN s : s[k] = q[i]
  <2>1. SUFFICES ASSUME NEW i \in DOMAIN q PROVE \E k \in DOMAIN s : s[k] = q[i]
    OBVIOUS
  <2>2. PICK j \in DOMAIN a : a[j] = q[i]
    BY <1>5
  <2>3. PICK k \in DOMAIN s : s[k] = a[j]
    BY <1>7
  <2> QED BY <2>2, <2>3
<1> QED BY <1>2, <1>9, <1>10, <1>11, <1>12 DEF new

\* The queue of jit_dequeue: the other nodes, in the order in which they are due.
LEMMA RemovedOrder ==
  ASSUME NEW q \in Seq(Node), NEW i \in DOMAIN q, NEW time \in Counter, HalfAhead,
         Within(q, time), Disjoint(q)
  PROVE  LET s == Removed(q, i)
         IN  /\ \A k \in DOMAIN s : \E j \in DOMAIN q : j # i /\ s[k] = q[j]
             /\ Ordered(s, time) /\ Within(s, time)
<1> DEFINE n == Len(q)
           c == SubSeq([q EXCEPT ![i] = q[Len(q)]], 1, Len(q) - 1)
           s == jit_sort_queue(c)
<1>1. DOMAIN q = 1 .. n /\ n \in Nat
  OBVIOUS
<1>2. c \in Seq(Node) /\ Disjoint(c)
  <2>1. /\ c \in Seq(Node)
        /\ Len(c) = Len(q) - 1
        /\ Disjoint(q) => Disjoint(c)
        /\ Guarded(q) => Guarded(c)
        /\ Prepared(q) => Prepared(c)
        /\ Cardinality(Beacons(c)) =
             Cardinality(Beacons(q)) - IF q[i].type = "BEACON" THEN 1 ELSE 0
    BY CutProperties
  <2> HIDE DEF c
  <2> QED BY <2>1
<1>3. Removed(q, i) = s
  BY DEF Removed
<1>4. \A k \in DOMAIN c : \E j \in DOMAIN q : j # i /\ c[k] = q[j]
  <2>1. DOMAIN c = 1 .. n - 1
    BY <1>1
  <2>2. \A k \in 1 .. n - 1 : c[k] = IF k = i THEN q[n] ELSE q[k]
    BY <1>1
  <2> HIDE DEF c
  <2>3. SUFFICES ASSUME NEW k \in 1 .. n - 1
                 PROVE  \E j \in DOMAIN q : j # i /\ c[k] = q[j]
    BY <2>1
  <2>4. CASE k = i
    <3>1. n \in DOMAIN q /\ n # i
      BY <1>1, <2>4
    <3> QED BY <2>2, <2>4, <3>1
  <2>5. CASE k # i
    <3>1. k \in DOMAIN q
      BY <1>1
    <3> QED BY <2>2, <2>5, <3>1
  <2> QED BY <2>4, <2>5
<1> HIDE DEF c
<1>5. Within(c, time)
  <2>1. SUFFICES ASSUME NEW k \in DOMAIN c PROVE Ahead(c[k], time) < TX_MAX_ADVANCE_DELAY
    BY DEF Within
  <2>2. PICK j \in DOMAIN q : c[k] = q[j]
    BY <1>4
  <2> QED BY <2>2 DEF Within
<1>6. \A k \in DOMAIN s : \E j \in DOMAIN c : s[k] = c[j]
  BY <1>2, SortMembers
<1>7. Ordered(s, time)
  BY <1>2, <1>5, DisjointDistinct, SortOrders
<1> HIDE DEF s
<1>8. Within(s, time)
  BY <1>5, <1>6 DEF Within
<1>9. \A k \in DOMAIN s : \E j \in DOMAIN q : j # i /\ s[k] = q[j]
  <2>1. SUFFICES ASSUME NEW k \in DOMAIN s PROVE \E j \in DOMAIN q : j # i /\ s[k] = q[j]
    OBVIOUS
  <2>2. PICK j \in DOMAIN c : s[k] = c[j]
    BY <1>6
  <2> QED BY <1>4, <2>2
<1> QED BY <1>3, <1>7, <1>8, <1>9

\* The scan of an ordered queue finds its first node.
LEMMA SoonestFirst ==
  ASSUME NEW q \in Seq(Node), NEW time \in Counter, Ordered(q, time), 1 \in DOMAIN q
  PROVE  SoonestFrom(q, 1, time) = 1
<1> DEFINE due(i) == Elapsed(q[i].count, time)
           I == 1 .. Len(q)
           best(i) == \A j \in I : due(i) < due(j) \/ (due(i) = due(j) /\ i <= j)
<1>1. I = DOMAIN q /\ Len(q) \in Nat
  OBVIOUS
<1>2. \A i \in I : due(i) \in Nat
  <2>1. SUFFICES ASSUME NEW i \in I PROVE due(i) \in Nat
    OBVIOUS
  <2>2. q[i] \in Node
    BY <1>1
  <2>3. q[i].count \in Int /\ time \in Int
    BY <2>2 DEF Node, Counter
  <2> QED BY <2>3, ElapsedType
<1>3. \A j \in I : j # 1 => due(1) < due(j)
  BY <1>1 DEF Ordered, Ahead
<1> HIDE DEF due
<1>4. 1 \in I /\ best(1)
  BY <1>1, <1>2, <1>3
<1>5. \A i \in I : best(i) => i = 1
  <2>1. SUFFICES ASSUME NEW i \in I, best(i), i # 1 PROVE FALSE
    OBVIOUS
  <2>2. due(1) < due(i) /\ due(1) \in Nat /\ due(i) \in Nat
    BY <1>2, <1>3, <1>4, <2>1
  <2>3. due(i) < due(1) \/ due(i) = due(1)
    BY <1>4, <2>1
  <2> QED BY <2>2, <2>3
<1>6. SoonestFrom(q, 1, time) = CHOOSE i \in I : best(i)
  BY DEF SoonestFrom, due
<1> HIDE DEF best, I
<1> QED BY <1>4, <1>5, <1>6

-----------------------------------------------------------------------------
(* Punctual threads.                                                       *)

\* After a packet that reserves `post' thread_jit comes round again before the next packet
\* needs the notice it needs.
Follows(post) == JIT_LAG <= post + TX_START_DELAY + TX_MARGIN_DELAY + 1

\* The promptness that the delays of jitqueue.c are made for: thread_jit comes round twice
\* between the point from which on a packet is handed out and its start delay, it comes
\* round once while a packet is on the air, and thread_down uses the time before it is
\* older than what criteria 1 has in reserve.  With the delays of the code a poll may come
\* 14 ms after the last and the time may be 2.5 ms old.
Punctual ==
  /\ HalfAhead
  /\ TX_START_DELAY + 2 * JIT_LAG <= TX_JIT_DELAY
  /\ DOWN_LAG <= TX_START_DELAY + TX_MARGIN_DELAY
  /\ Follows(BEACON_RESERVED)
  /\ \A toa \in AIRTIMES : Follows(toa)

\* What jit_enqueue accepts is not in the past, and not so close to the limit of criteria 2
\* that jit_peek, which may look at an older time, would take it for outdated.
WithinReach ==
  dpc = "enqueue" /\ Answer = "OK" =>
    Ahead(Judged, Count(dtime)) + JIT_LAG < TX_MAX_ADVANCE_DELAY

\* Neither thread holds a time older than the scheduler allows.
ClockRead ==
  /\ jtime <= now /\ now - jtime <= JIT_LAG
  /\ dpc # "recv" => dtime <= now /\ now - dtime <= DOWN_LAG

\* The lead each node still has: while thread_jit goes through the queue enough for the
\* start delay when it is done, else for one more round.
Notice ==
  TX_START_DELAY + IF jpc \in {"peek", "peek_lock", "scan", "dequeue", "dequeue_lock"}
                     THEN JIT_LAG ELSE 2 * JIT_LAG

Timely(q, time, lead) == \A i \in DOMAIN q : Ahead(q[i], time) >= lead

InOrder ==
  /\ Ordered(nodes, Count(jtime))
  /\ Within(nodes, Count(jtime))
  /\ Timely(nodes, Count(jtime), Notice)

\* The scan looks at all nodes, and the index it hands on is that of the first, which is
\* due.
Chosen ==
  /\ jfrom = 1
  /\ jpc \in {"dequeue", "dequeue_lock"} =>
       jidx = 1 /\ Ahead(nodes[1], Count(jtime)) < TX_JIT_DELAY

\* The packet taken out is due, before all others.
Taken ==
  jpc \in {"status", "send"} =>
    /\ Ahead(jpkt, Count(jtime)) >= TX_START_DELAY + JIT_LAG
    /\ Ahead(jpkt, Count(jtime)) < TX_JIT_DELAY
    /\ \A i \in DOMAIN nodes : Ahead(jpkt, Count(jtime)) < Ahead(nodes[i], Count(jtime))

\* Every packet on its way into the queue or in it lasts long enough for the next round.
Spaced ==
  /\ \A i \in DOMAIN nodes : Follows(nodes[i].post)
  /\ dmsg.type # "NONE" => Follows(PostDelay(dmsg))
  /\ dpkt.type # "NONE" => Follows(PostDelay(dpkt))

\* The inductive invariant of punctual threads, on top of IInv.
SInv == ClockRead /\ InOrder /\ Chosen /\ Taken /\ Spaced

\* The types the proofs below use.
LEMMA ScheduleTypes ==
  ASSUME IInv
  PROVE  /\ nodes \in Seq(Node) /\ DOMAIN nodes = 1 .. Len(nodes) /\ Len(nodes) \in Nat
         /\ now \in Nat /\ jtime \in Nat /\ dtime \in Nat
         /\ Count(now) \in Counter /\ Count(jtime) \in Counter /\ Count(dtime) \in Counter
         /\ jpkt \in Node
         /\ \A i \in DOMAIN nodes : nodes[i] \in Node
         /\ \A n \in Node, time \in Counter : Ahead(n, time) \in Nat
         /\ Disjoint(nodes)
<1>1. /\ nodes \in Seq(Node) /\ now \in Nat /\ jtime \in Nat /\ dtime \in Nat /\ jpkt \in Node
      /\ Disjoint(nodes)
  BY DEF IInv, TypeOK, NoOverlap
<1>2. DOMAIN nodes = 1 .. Len(nodes) /\ Len(nodes) \in Nat
  BY <1>1
<1>3. Count(now) \in Counter /\ Count(jtime) \in Counter /\ Count(dtime) \in Counter
  BY <1>1, CountType
<1>4. \A n \in Node, time \in Counter : Ahead(n, time) \in Nat
  <2>1. SUFFICES ASSUME NEW n \in Node, NEW time \in Counter PROVE Ahead(n, time) \in Nat
    OBVIOUS
  <2>2. n.count \in Int /\ time \in Int
    BY DEF Node, Counter
  <2> QED BY <2>2, ElapsedType DEF Ahead
<1>5. \A i \in DOMAIN nodes : nodes[i] \in Node
  BY <1>1
<1> QED BY <1>1, <1>2, <1>3, <1>4, <1>5

\* Initially the queue is empty.
LEMMA InitSInv == Init => SInv
<1> SUFFICES ASSUME Init PROVE SInv
  OBVIOUS
<1>1. DOMAIN nodes = {}
  BY DEF Init
<1>2. ClockRead
  BY ThreadConstants DEF Init, ClockRead
<1>3. InOrder /\ Chosen /\ Taken
  BY <1>1 DEF Init, InOrder, Ordered, Within, Timely, Chosen, Taken
<1>4. Spaced
  BY <1>1 DEF Init, Spaced, NoPacket
<1> QED BY <1>2, <1>3, <1>4 DEF SInv

\* The environment ages the times the threads hold, and nothing else.
LEMMA EnvSchedule ==
  ASSUME IInv, SInv, Tick \/ GpsChange
  PROVE  SInv'
<1>1. UNCHANGED <<queue_vars, mx_jit_queue, jit_vars, down_vars>>
  BY DEF Tick, GpsChange
<1>2. Count(jtime)' = Count(jtime)
  BY <1>1 DEF jit_vars
<1>3. ClockRead'
  <2>1. now \in Nat /\ jtime \in Nat /\ dtime \in Nat /\ jtime' = jtime /\ dtime' = dtime
        /\ dpc' = dpc
    BY <1>1, ScheduleTypes DEF jit_vars, down_vars
  <2>2. CASE Tick
    BY <2>1, <2>2, ThreadConstants DEF Tick, SInv, ClockRead
  <2>3. CASE GpsChange
    BY <2>1, <2>3 DEF GpsChange, SInv, ClockRead
  <2> QED BY <2>2, <2>3
<1>4. (InOrder /\ Chosen /\ Taken /\ Spaced)'
  BY <1>1, <1>2 DEF SInv, InOrder, Notice, Chosen, Taken, Spaced, queue_vars, jit_vars, down_vars
<1> QED BY <1>3, <1>4 DEF SInv

\* thread_jit reads the time: every lead is shorter by what has passed, and all are still
\* long enough.
LEMMA PollSchedule ==
  ASSUME IInv, SInv, JitPoll
  PROVE  SInv'
<1> DEFINE t == Count(jtime)
           u == Count(now)
           k == now - jtime
<1>1. /\ UNCHANGED <<jfrom, jidx, jpkt, queue_vars, env_vars, down_vars>>
      /\ jpc = "poll" /\ jpc' = "peek" /\ jtime' = now
  BY DEF JitPoll
<1>2. nodes' = nodes /\ now' = now /\ Count(jtime)' = u
  BY <1>1 DEF queue_vars, env_vars
<1>3. k \in Nat /\ k <= JIT_LAG /\ now \in Int /\ jtime \in Int
  BY ScheduleTypes DEF SInv, ClockRead
<1>4. \A i \in DOMAIN nodes :
        /\ Ahead(nodes[i], t) \in Nat
        /\ Ahead(nodes[i], t) >= TX_START_DELAY + 2 * JIT_LAG
        /\ Ahead(nodes[i], u) = Ahead(nodes[i], t) - k
  <2>1. SUFFICES ASSUME NEW i \in DOMAIN nodes
                 PROVE  /\ Ahead(nodes[i], t) \in Nat
                        /\ Ahead(nodes[i], t) >= TX_START_DELAY + 2 * JIT_LAG
                        /\ Ahead(nodes[i], u) = Ahead(nodes[i], t) - k
    OBVIOUS
  <2> DEFINE c == nodes[i].count
             e == Elapsed(c, Count(jtime))
  <2>2. nodes[i] \in Node /\ Count(jtime) \in Counter
    BY ScheduleTypes
  <2>3. c \in Counter /\ c \in Int /\ Count(jtime) \in Int
    BY <2>2 DEF Node, Counter
  <2>4. e \in Nat /\ e < COUNTER_RANGE
    <3>1. e \in Counter /\ e \in Nat
      BY <2>3, ElapsedType
    <3> HIDE DEF e
    <3> QED BY <3>1, JitConstants DEF Counter
  <2>5. e >= TX_START_DELAY + 2 * JIT_LAG
    BY <1>1 DEF SInv, InOrder, Timely, Notice, Ahead
  <2>6. now - jtime <= e /\ e - (now - jtime) < COUNTER_RANGE
    BY <1>3, <2>4, <2>5, JitConstants, ThreadConstants
  <2> HIDE DEF c
  <2>7. Elapsed(c, Count(now)) = e - (now - jtime)
    BY <1>3, <2>3, <2>6, LeadShrinks
  <2> QED BY <2>4, <2>5, <2>7 DEF Ahead, c
<1> HIDE DEF t, u, k
<1>5. Ordered(nodes, u)
  <2>1. Ordered(nodes, t)
    BY DEF SInv, InOrder, t
  <2> QED BY <1>3, <1>4, <2>1 DEF Ordered
<1>6. Within(nodes, u)
  <2>1. Within(nodes, t)
    BY DEF SInv, InOrder, t
  <2> QED BY <1>3, <1>4, <2>1, JitConstants DEF Within
<1>7. Timely(nodes, u, TX_START_DELAY + JIT_LAG)
  BY <1>3, <1>4, JitConstants, ThreadConstants DEF Timely
<1>8. Notice' = TX_START_DELAY + JIT_LAG
  BY <1>1 DEF Notice
<1>9. InOrder'
  BY <1>2, <1>5, <1>6, <1>7, <1>8 DEF InOrder
<1>10. ClockRead'
  BY <1>1, <1>2, ScheduleTypes, ThreadConstants DEF SInv, ClockRead, down_vars
<1>11. (Chosen /\ Taken /\ Spaced)'
  BY <1>1, <1>2 DEF SInv, Chosen, Taken, Spaced, down_vars
<1> QED BY <1>9, <1>10, <1>11 DEF SInv

\* The steps of thread_jit that change neither the queue nor the time: the scan finds no
\* node outdated, and either hands on the first node or leaves it enough time.
LEMMA LocalSchedule ==
  ASSUME IInv, SInv, Punctual,
         \/ JitPeekEmpty \/ JitPeekLock \/ JitPick \/ JitDequeueEmpty
         \/ JitStatus \/ JitSend \/ JitSendFail
  PROVE  SInv'
<1> DEFINE t == Count(jtime)
<1>1. UNCHANGED <<queue_vars, now, jtime, down_vars>> /\ nodes' = nodes /\ Count(jtime)' = t
  BY DEF JitPeekEmpty, JitPeekLock, JitPick, JitDequeueEmpty, JitStatus, JitSend, JitSendFail,
     env_vars, queue_vars
<1>2. (ClockRead /\ Spaced)'
  BY <1>1 DEF SInv, ClockRead, Spaced, down_vars
<1>3. Ordered(nodes, t) /\ Within(nodes, t) /\ Timely(nodes, t, Notice)
  BY DEF SInv, InOrder
<1>4. SUFFICES Timely(nodes, t, Notice') /\ Chosen' /\ Taken'
  BY <1>1, <1>2, <1>3 DEF SInv, InOrder
<1> HIDE DEF t
<1>5. /\ TX_START_DELAY \in Nat /\ JIT_LAG \in Nat /\ TX_JIT_DELAY \in Nat
      /\ TX_START_DELAY + 2 * JIT_LAG <= TX_JIT_DELAY
  BY JitConstants, ThreadConstants DEF Punctual
<1>6. CASE JitPeekEmpty \/ JitDequeueEmpty
  <2>1. CASE nodes = <<>>
    <3>1. DOMAIN nodes = {}
      BY <2>1
    <3>2. jpc' = "poll"
      BY <1>6, <2>1 DEF JitPeekEmpty, JitDequeueEmpty
    <3>3. jfrom' = 1
      BY <1>6 DEF JitPeekEmpty, JitDequeueEmpty, SInv, Chosen
    <3> QED BY <3>1, <3>2, <3>3 DEF Timely, Chosen, Taken
  <2>2. CASE nodes # <<>>
    <3>1. \/ jpc = "peek" /\ jpc' = "peek_lock" /\ jidx' = jidx /\ jfrom' = jfrom
          \/ jpc = "dequeue" /\ jpc' = "dequeue_lock" /\ jidx' = jidx /\ jfrom' = jfrom
      BY <1>6, <2>2 DEF JitPeekEmpty, JitDequeueEmpty
    <3>2. Notice' = Notice
      BY <3>1 DEF Notice
    <3>3. Chosen'
      BY <1>1, <3>1 DEF SInv, Chosen
    <3> QED BY <1>3, <3>1, <3>2, <3>3 DEF Taken
  <2> QED BY <2>1, <2>2
<1>7. CASE JitPeekLock
  <2>1. jpc = "peek_lock" /\ jpc' = "scan" /\ jfrom' = jfrom
    BY <1>7 DEF JitPeekLock
  <2>2. Notice' = Notice
    BY <2>1 DEF Notice
  <2> QED BY <1>3, <2>1, <2>2 DEF SInv, Chosen, Taken
<1>8. CASE JitPick
  <2>1. jfrom = 1 /\ jfrom' = 1 /\ jpc = "scan"
    BY <1>8 DEF JitPick, SInv, Chosen
  <2> DEFINE found == 1 \in DOMAIN nodes /\ Due(nodes[1], t)
  <2>2. /\ jidx' = IF found THEN 1 ELSE 0
        /\ jpc' = IF found THEN "dequeue" ELSE "poll"
    <3>1. CASE 1 \in DOMAIN nodes
      <4>1. SoonestFrom(nodes, 1, t) = 1
        BY <1>3, <3>1, ScheduleTypes, SoonestFirst DEF t
      <4> QED BY <1>8, <2>1, <3>1, <4>1 DEF JitPick, t
    <3>2. CASE 1 \notin DOMAIN nodes
      BY <1>8, <2>1, <3>2 DEF JitPick, t
    <3> QED BY <3>1, <3>2
  <2>3. CASE found
    <3>1. Notice' = Notice
      BY <2>1, <2>2, <2>3 DEF Notice
    <3>2. Ahead(nodes[1], t) < TX_JIT_DELAY
      BY <2>3 DEF Due, Ahead
    <3> QED BY <1>1, <1>3, <2>1, <2>2, <2>3, <3>1, <3>2 DEF Chosen, Taken
  <2>4. CASE ~found
    <3>1. jpc' = "poll"
      BY <2>2, <2>4
    <3>2. Notice' = TX_START_DELAY + 2 * JIT_LAG
      BY <3>1 DEF Notice
    <3>3. ASSUME NEW i \in DOMAIN nodes
          PROVE  Ahead(nodes[i], t) >= TX_START_DELAY + 2 * JIT_LAG
      <4>1. 1 \in DOMAIN nodes /\ i \in Nat /\ i >= 1
        BY ScheduleTypes
      <4>2. Ahead(nodes[1], t) \in Nat /\ Ahead(nodes[i], t) \in Nat
        BY <4>1, ScheduleTypes DEF t
      <4>3. ~(Ahead(nodes[1], t) < TX_JIT_DELAY)
        BY <2>4, <4>1 DEF Due, Ahead
      <4>4. i = 1 \/ Ahead(nodes[1], t) < Ahead(nodes[i], t)
        BY <1>3, <4>1 DEF Ordered
      <4>5. Ahead(nodes[1], t) <= Ahead(nodes[i], t)
        BY <4>2, <4>4
      <4> HIDE DEF found
      <4> QED BY <1>5, <4>2, <4>3, <4>5
    <3> QED BY <2>1, <3>1, <3>2, <3>3 DEF Timely, Chosen, Taken
  <2> QED BY <2>3, <2>4
<1>9. CASE JitStatus \/ JitSend \/ JitSendFail
  <2>1. /\ jfrom' = 1 /\ jpc \in {"status", "send"}
        /\ jpc' = "poll" \/ (jpc = "status" /\ jpc' = "send" /\ jpkt' = jpkt)
    BY <1>9 DEF JitStatus, JitSend, JitSendFail, SInv, Chosen
  <2>2. Notice' = Notice
    BY <2>1 DEF Notice
  <2>3. Taken'
    BY <1>1, <2>1 DEF SInv, Taken
  <2> QED BY <1>3, <2>1, <2>2, <2>3 DEF Chosen
<1> QED BY <1>6, <1>7, <1>8, <1>9

\* jit_peek meets no node to drop.
LEMMA NothingOutdated ==
  ASSUME IInv, SInv
  PROVE  OutdatedFrom(nodes, 1, Count(jtime)) = {}
<1> SUFFICES ASSUME NEW i \in 1 .. Len(nodes), Outdated(nodes[i], Count(jtime))
             PROVE  FALSE
  BY DEF OutdatedFrom
<1>1. i \in DOMAIN nodes
  BY ScheduleTypes
<1>2. Ahead(nodes[i], Count(jtime)) \in Nat
  BY <1>1, ScheduleTypes
<1>3. Ahead(nodes[i], Count(jtime)) < TX_MAX_ADVANCE_DELAY
  BY <1>1 DEF SInv, InOrder, Within
<1>4. Ahead(nodes[i], Count(jtime)) >= TX_MAX_ADVANCE_DELAY
  BY DEF Outdated, Ahead
<1> QED BY <1>2, <1>3, <1>4, JitConstants

\* jit_dequeue takes out the first node, and the next needs no notice before thread_jit
\* has come round.
LEMMA DequeueSchedule ==
  ASSUME IInv, SInv, Punctual, JitDequeue
  PROVE  SInv'
<1> DEFINE t == Count(jtime)
<1>1. /\ jpc = "dequeue_lock" /\ jpc' = "status" /\ jidx = 1 /\ jfrom' = 1
      /\ UNCHANGED <<now, jtime, down_vars>> /\ Count(jtime)' = t
  BY DEF JitDequeue, SInv, Chosen, env_vars
<1>2. 1 \in DOMAIN nodes /\ jpkt' = nodes[1] /\ nodes' = Removed(nodes, 1)
  BY <1>1 DEF JitDequeue, IInv, IndexInRange, NodeAt
<1>3. Ordered(nodes, t) /\ Within(nodes, t) /\ Timely(nodes, t, TX_START_DELAY + JIT_LAG)
      /\ Ahead(nodes[1], t) < TX_JIT_DELAY
  BY <1>1 DEF SInv, InOrder, Notice, Chosen
<1> DEFINE s == Removed(nodes, 1)
<1>4. /\ \A k \in DOMAIN s : \E j \in DOMAIN nodes : j # 1 /\ s[k] = nodes[j]
      /\ Ordered(s, t) /\ Within(s, t)
  BY <1>2, <1>3, ScheduleTypes, RemovedOrder DEF Punctual
<1> HIDE DEF s
<1>5. \A k \in DOMAIN s : Ahead(nodes[1], t) < Ahead(s[k], t)
                          /\ Ahead(s[k], t) >= TX_START_DELAY + 2 * JIT_LAG
                          /\ Follows(s[k].post)
  <2>1. SUFFICES ASSUME NEW k \in DOMAIN s
                 PROVE  /\ Ahead(nodes[1], t) < Ahead(s[k], t)
                        /\ Ahead(s[k], t) >= TX_START_DELAY + 2 * JIT_LAG
                        /\ Follows(s[k].post)
    OBVIOUS
  <2>2. PICK j \in DOMAIN nodes : j # 1 /\ s[k] = nodes[j]
    BY <1>4
  <2>3. Ahead(nodes[1], t) < Ahead(nodes[j], t)
    <3>1. j \in Nat /\ 1 < j
      BY <2>2, ScheduleTypes
    <3> QED BY <1>2, <1>3, <3>1 DEF Ordered
  <2>4. /\ nodes[1] \in Node /\ nodes[j] \in Node /\ t \in Counter
        /\ Ahead(nodes[1], t) \in Nat /\ Ahead(nodes[j], t) \in Nat
    BY <1>2, ScheduleTypes
  <2>5. nodes[1].count \in Counter /\ nodes[j].count \in Counter /\ nodes[1].post \in Nat
    BY <2>4 DEF Node
  <2>6. Elapsed(nodes[j].count, nodes[1].count) = Ahead(nodes[j], t) - Ahead(nodes[1], t)
    <3>1. Elapsed(nodes[j].count, t) >= Elapsed(nodes[1].count, t)
      BY <2>3, <2>4 DEF Ahead
    <3> HIDE DEF t
    <3> QED BY <2>4, <2>5, <3>1, LeadDistance DEF Ahead
  <2>7. Elapsed(nodes[j].count, nodes[1].count)
          > nodes[1].post + TX_START_DELAY + TX_MARGIN_DELAY
    BY <1>2, <2>2, ScheduleTypes DEF Disjoint, Apart
  <2>8. Follows(nodes[1].post) /\ Follows(nodes[j].post)
    BY <1>2 DEF SInv, Spaced
  <2>9. Ahead(nodes[1], t) >= TX_START_DELAY + JIT_LAG
    BY <1>2, <1>3 DEF Timely
  <2> HIDE DEF t
  <2>10. Ahead(nodes[j], t) >= TX_START_DELAY + 2 * JIT_LAG
    BY <2>4, <2>5, <2>6, <2>7, <2>8, <2>9, JitConstants, ThreadConstants DEF Follows
  <2> QED BY <2>2, <2>3, <2>8, <2>10
<1> HIDE DEF t
<1>6. Notice' = TX_START_DELAY + 2 * JIT_LAG
  BY <1>1 DEF Notice
<1>7. InOrder'
  BY <1>1, <1>2, <1>4, <1>5, <1>6 DEF InOrder, Timely, s
<1>8. Taken'
  <2>1. Ahead(nodes[1], t) >= TX_START_DELAY + JIT_LAG
    BY <1>2, <1>3 DEF Timely
  <2> QED BY <1>1, <1>2, <1>3, <1>5, <2>1 DEF Taken, s
<1>9. Spaced'
  BY <1>1, <1>2, <1>5 DEF SInv, Spaced, down_vars, s
<1>10. (ClockRead /\ Chosen)'
  BY <1>1 DEF SInv, ClockRead, Chosen, down_vars
<1> QED BY <1>7, <1>8, <1>9, <1>10 DEF SInv

\* The steps of thread_down up to the call of jit_enqueue: what it takes over lasts long
\* enough, and the time it reads is new.
LEMMA DownSchedule ==
  ASSUME IInv, SInv, Punctual, DownRecv \/ DownBeacon \/ DownRefilled \/ DownFull
  PROVE  SInv'
<1>1. UNCHANGED <<queue_vars, env_vars, jit_vars>> /\ Count(jtime)' = Count(jtime)
      /\ nodes' = nodes /\ now' = now /\ jtime' = jtime
  BY DEF DownRecv, DownBeacon, DownRefilled, DownFull, jit_vars, queue_vars, env_vars
<1>2. (InOrder /\ Chosen /\ Taken)'
  BY <1>1 DEF SInv, InOrder, Notice, Chosen, Taken, jit_vars
<1>3. now \in Nat /\ dtime \in Nat /\ DOWN_LAG \in Nat
  BY ScheduleTypes, ThreadConstants
<1>4. SUFFICES /\ dpc' # "recv" => dtime' <= now /\ now - dtime' <= DOWN_LAG
               /\ dmsg'.type # "NONE" => Follows(PostDelay(dmsg'))
               /\ dpkt'.type # "NONE" => Follows(PostDelay(dpkt'))
  <2>1. SInv /\ SInv' <=> SInv /\ (ClockRead /\ Spaced)'
    BY <1>2 DEF SInv
  <2>2. Spaced'
    BY <1>1, <1>4 DEF SInv, Spaced
  <2>3. ClockRead'
    BY <1>1, <1>4 DEF SInv, ClockRead
  <2> QED BY <2>1, <2>2, <2>3
<1>5. CASE DownRecv
  <2>1. dtime' = now /\ dpkt' = dpkt
    BY <1>5 DEF DownRecv
  <2>2. dmsg'.type # "NONE" => Follows(PostDelay(dmsg'))
    <3>1. CASE dmsg' = NoPacket
      BY <3>1 DEF NoPacket
    <3>2. CASE \E type \in DOWN_TYPES, d \in OFFSETS, toa \in AIRTIMES :
                 dmsg' = [type |-> type, toa |-> toa,
                          count |-> IF type = "C" THEN 0 ELSE Count(now + d)]
      <4>1. PICK type \in DOWN_TYPES, d \in OFFSETS, toa \in AIRTIMES :
              dmsg' = [type |-> type, toa |-> toa,
                       count |-> IF type = "C" THEN 0 ELSE Count(now + d)]
        BY <3>2
      <4>2. type # "BEACON"
        BY ThreadConstants
      <4>3. PostDelay(dmsg') = toa
        BY <4>1, <4>2 DEF PostDelay
      <4> QED BY <4>3 DEF Punctual
    <3> QED BY <1>5, <3>1, <3>2 DEF DownRecv
  <2>3. now - now = 0 /\ now <= now /\ 0 <= DOWN_LAG
    BY <1>3
  <2> QED BY <2>1, <2>2, <2>3 DEF SInv, Spaced
<1>6. CASE DownBeacon
  <2>1. dtime' = now /\ dmsg' = dmsg /\ dpkt'.type = "BEACON"
    BY <1>6 DEF DownBeacon
  <2>2. PostDelay(dpkt') = BEACON_RESERVED
    BY <2>1 DEF PostDelay
  <2>3. now - now = 0 /\ now <= now /\ 0 <= DOWN_LAG
    BY <1>3
  <2> QED BY <2>1, <2>2, <2>3 DEF SInv, Spaced, Punctual
<1>7. CASE DownRefilled
  <2>1. /\ dmsg' = NoPacket
        /\ \/ dpc' = "recv" /\ dpkt' = dpkt
           \/ /\ dpc' = "full" /\ dtime' = now
              /\ dmsg.type # "NONE" /\ PostDelay(dpkt') = PostDelay(dmsg)
    BY <1>7, HandedOver DEF DownRefilled, Packet, PktType
  <2>2. now - now = 0 /\ now <= now /\ 0 <= DOWN_LAG
    BY <1>3
  <2>3. dmsg'.type = "NONE"
    BY <2>1 DEF NoPacket
  <2> QED BY <2>1, <2>2, <2>3 DEF SInv, Spaced
<1>8. CASE DownFull
  <2>1. /\ dpc = "full" /\ dmsg' = dmsg
        /\ dpkt' = dpkt \/ dpkt' = NoPacket
        /\ dpc' = "recv" \/ dtime' = dtime
    BY <1>8 DEF DownFull, DownAnswered
  <2>2. NoPacket.type = "NONE"
    BY DEF NoPacket
  <2> QED BY <2>1, <2>2 DEF SInv, Spaced, ClockRead
<1> QED BY <1>5, <1>6, <1>7, <1>8

\* The packet jit_enqueue judges reserves as much as the one it was given.
LEMMA TimedPost ==
  ASSUME NEW q, NEW pkt \in Packet
  PROVE  PostDelay(Timed(q, pkt)) = PostDelay(pkt)
<1> DEFINE new == [pkt EXCEPT !.count = AsapCount(q, pkt)]
<1>1. new.type = pkt.type /\ new.toa = pkt.toa
  BY DEF Packet
<1>2. Timed(q, pkt) = new \/ Timed(q, pkt) = pkt
  BY DEF Timed
<1> HIDE DEF new
<1> QED BY <1>1, <1>2 DEF PostDelay

\* A packet accepted has the lead that criteria 1 asks for, less what its time stamp is
\* older than the last look of thread_jit at the clock; it goes behind everything that is
\* due.
LEMMA AcceptedAhead ==
  ASSUME IInv, SInv, Punctual, WithinReach, dpc = "enqueue", Answer = "OK"
  PROVE  /\ Judged \in Packet /\ Judged.type = dpkt.type
         /\ Ahead(Judged, Count(jtime)) = Ahead(Judged, Count(dtime)) - (jtime - dtime)
         /\ Ahead(Judged, Count(jtime)) \in Nat
         /\ Ahead(Judged, Count(jtime)) > TX_JIT_DELAY
         /\ Ahead(Judged, Count(jtime)) < TX_MAX_ADVANCE_DELAY
<1> DEFINE e == Ahead(Judged, Count(dtime))
<1>1. Judged \in Packet /\ Judged.type = dpkt.type
  <2>1. dpkt \in Packet
    BY DEF IInv, CallArmed
  <2> QED BY <2>1, ScheduleTypes, TimedType DEF Judged
<1>2. Judged.count \in Counter
  BY <1>1 DEF Packet
<1>3. jtime \in Nat /\ dtime \in Nat /\ now \in Nat
      /\ Count(dtime) \in Counter
  BY ScheduleTypes
<1>4. e \in Nat /\ e \in Counter
  <2>1. Judged.count \in Int /\ Count(dtime) \in Int
    BY <1>2, <1>3 DEF Counter
  <2> QED BY <2>1, ElapsedType DEF Ahead
<1>5. e > TX_START_DELAY + TX_MARGIN_DELAY + TX_JIT_DELAY
  <2>1. ~TooLate(Count(dtime), Judged)
    BY DEF Answer, Verdict
  <2>2. ~(e <= TX_START_DELAY + TX_MARGIN_DELAY + TX_JIT_DELAY)
    BY <2>1 DEF TooLate, Ahead
  <2> HIDE DEF e
  <2> QED BY <1>4, <2>2, JitConstants
<1>6. e + JIT_LAG < TX_MAX_ADVANCE_DELAY
  BY DEF WithinReach
<1>7. /\ jtime <= now /\ now - jtime <= JIT_LAG
      /\ dtime <= now /\ now - dtime <= DOWN_LAG
  BY DEF SInv, ClockRead
<1>8. /\ TX_START_DELAY \in Nat /\ TX_MARGIN_DELAY \in Nat /\ TX_JIT_DELAY \in Nat
      /\ JIT_LAG \in Nat /\ DOWN_LAG \in Nat /\ TX_MAX_ADVANCE_DELAY \in Nat
      /\ COUNTER_RANGE \in Nat /\ 2 * TX_MAX_ADVANCE_DELAY <= COUNTER_RANGE
      /\ DOWN_LAG <= TX_START_DELAY + TX_MARGIN_DELAY
  BY JitConstants, ThreadConstants DEF Punctual, HalfAhead
<1> HIDE DEF e
<1>9. /\ jtime - dtime <= e /\ e - (jtime - dtime) < TX_MAX_ADVANCE_DELAY
      /\ e - (jtime - dtime) > TX_JIT_DELAY
      /\ e - (jtime - dtime) < COUNTER_RANGE
      /\ e - (jtime - dtime) \in Nat
  BY <1>3, <1>4, <1>5, <1>6, <1>7, <1>8
<1>10. Ahead(Judged, Count(jtime)) = e - (jtime - dtime)
  <2>1. /\ jtime - dtime <= Elapsed(Judged.count, Count(dtime))
        /\ Elapsed(Judged.count, Count(dtime)) - (jtime - dtime) < COUNTER_RANGE
        /\ jtime \in Int /\ dtime \in Int
    BY <1>3, <1>9 DEF e, Ahead
  <2>2. Elapsed(Judged.count, Count(jtime))
          = Elapsed(Judged.count, Count(dtime)) - (jtime - dtime)
    BY <1>2, <2>1, LeadShrinks
  <2> QED BY <2>2 DEF e, Ahead
<1> QED BY <1>1, <1>9, <1>10 DEF e

\* The node of a packet is due with it and reserves as much.
LEMMA NodeOfIs ==
  ASSUME NEW pkt
  PROVE  /\ \A time : Ahead(NodeOf(pkt), time) = Ahead(pkt, time)
         /\ NodeOf(pkt).post = PostDelay(pkt) /\ NodeOf(pkt).pre = PreDelay(pkt.type)
         /\ NodeOf(pkt).count = pkt.count /\ NodeOf(pkt).type = pkt.type
  BY DEF NodeOf, Ahead

\* jit_enqueue: the new node goes behind all that are due, so that the first node, the
\* index handed on and the packet taken out stay what they are.
LEMMA EnqueueSchedule ==
  ASSUME IInv, SInv, Punctual, WithinReach, DownEnqueue, IInv'
  PROVE  SInv'
<1> DEFINE t == Count(jtime)
<1>1. /\ UNCHANGED <<env_vars, jit_vars>> /\ dpc = "enqueue" /\ DownAnswered(Answer)
      /\ Count(jtime)' = t /\ now' = now /\ jtime' = jtime /\ jpc' = jpc /\ jfrom' = jfrom
      /\ jidx' = jidx /\ jpkt' = jpkt
  BY DEF DownEnqueue, jit_vars, env_vars
<1>2. /\ dmsg' = dmsg /\ dpkt' = NoPacket
      /\ dpc' = "recv" \/ dtime' = dtime
  BY <1>1 DEF DownAnswered
<1>3. ClockRead'
  BY <1>1, <1>2 DEF SInv, ClockRead
<1>4. Notice' = Notice
  BY <1>1 DEF Notice
<1>5. CASE Answer # "OK"
  <2>1. nodes' = nodes
    BY <1>5 DEF DownEnqueue, queue_vars
  <2>2. (InOrder /\ Chosen /\ Taken)'
    BY <1>1, <1>4, <2>1 DEF SInv, InOrder, Chosen, Taken
  <2>3. Spaced'
    BY <1>2, <2>1 DEF SInv, Spaced, NoPacket
  <2> QED BY <1>3, <2>2, <2>3 DEF SInv
<1>6. CASE Answer = "OK"
  <2> DEFINE new == NodeOf(Judged)
  <2>1. /\ Judged \in Packet
        /\ Ahead(Judged, t) \in Nat
        /\ Ahead(Judged, t) > TX_JIT_DELAY
        /\ Ahead(Judged, t) < TX_MAX_ADVANCE_DELAY
    BY <1>1, <1>6, AcceptedAhead
  <2>2. nodes' = Inserted(nodes, Judged)
    BY <1>6 DEF DownEnqueue
  <2>3. Disjoint(nodes')
    BY DEF IInv, NoOverlap
  <2>4. Ordered(nodes, t) /\ Within(nodes, t) /\ Timely(nodes, t, Notice)
    BY DEF SInv, InOrder
  <2>5. /\ nodes \in Seq(Node) /\ t \in Counter
        /\ DOMAIN nodes = 1 .. Len(nodes) /\ Len(nodes) \in Nat
        /\ nodes' \in Seq(Node) /\ DOMAIN nodes' = 1 .. Len(nodes') /\ Len(nodes') \in Nat
    <3>1. nodes' \in Seq(Node)
      BY DEF IInv, TypeOK
    <3>2. DOMAIN nodes' = 1 .. Len(nodes') /\ Len(nodes') \in Nat
      BY <3>1
    <3> QED BY <3>1, <3>2, ScheduleTypes
  <2>6. new.post = PostDelay(dpkt) /\ Ahead(new, t) = Ahead(Judged, t)
    <3>1. dpkt \in Packet
      BY <1>1 DEF IInv, CallArmed
    <3>2. PostDelay(Judged) = PostDelay(dpkt)
      BY <3>1, TimedPost DEF Judged
    <3> QED BY <3>2, NodeOfIs
  <2>7. /\ \A k \in DOMAIN nodes' : nodes'[k] = new \/ \E i \in DOMAIN nodes : nodes'[k] = nodes[i]
        /\ \A i \in DOMAIN nodes : \E k \in DOMAIN nodes' : nodes'[k] = nodes[i]
        /\ Ordered(nodes', t) /\ Within(nodes', t)
    <3> HIDE DEF t
    <3>1. Disjoint(Inserted(nodes, Judged))
      BY <2>2, <2>3
    <3> QED BY <2>1, <2>2, <2>4, <2>5, <3>1, InsertedOrder DEF Punctual
  <2>8. /\ TX_START_DELAY \in Nat /\ JIT_LAG \in Nat /\ TX_JIT_DELAY \in Nat
        /\ TX_START_DELAY + 2 * JIT_LAG <= TX_JIT_DELAY
        /\ Notice \in Nat /\ Notice <= TX_JIT_DELAY
    <3>1. /\ TX_START_DELAY \in Nat /\ JIT_LAG \in Nat /\ TX_JIT_DELAY \in Nat
          /\ TX_START_DELAY + 2 * JIT_LAG <= TX_JIT_DELAY
      BY JitConstants, ThreadConstants DEF Punctual
    <3>2. Notice = TX_START_DELAY + JIT_LAG \/ Notice = TX_START_DELAY + 2 * JIT_LAG
      BY DEF Notice
    <3> HIDE DEF Notice
    <3> QED BY <3>1, <3>2
  <2>9. Ahead(new, t) \in Nat /\ Ahead(new, t) > TX_JIT_DELAY
    BY <2>1, <2>6
  <2> HIDE DEF t, new, Notice
  <2>10. Timely(nodes', t, Notice)
    <3>1. SUFFICES ASSUME NEW k \in DOMAIN nodes' PROVE Ahead(nodes'[k], t) >= Notice
      BY DEF Timely
    <3>2. CASE nodes'[k] = new
      BY <2>8, <2>9, <3>2
    <3>3. CASE \E i \in DOMAIN nodes : nodes'[k] = nodes[i]
      BY <2>4, <3>3 DEF Timely
    <3> QED BY <2>7, <3>2, <3>3
  <2>11. InOrder'
    BY <1>1, <1>4, <2>7, <2>10 DEF InOrder
  <2>12. Taken'
    <3>1. SUFFICES ASSUME jpc \in {"status", "send"}, NEW k \in DOMAIN nodes'
                   PROVE  Ahead(jpkt, t) < Ahead(nodes'[k], t)
      BY <1>1 DEF SInv, Taken, t
    <3>2. /\ Ahead(jpkt, t) < TX_JIT_DELAY
          /\ \A i \in DOMAIN nodes : Ahead(jpkt, t) < Ahead(nodes[i], t)
      BY <3>1 DEF SInv, Taken, t
    <3>3. Ahead(jpkt, t) \in Nat
      BY <2>5, ScheduleTypes
    <3>4. CASE nodes'[k] = new
      BY <2>8, <2>9, <3>2, <3>3, <3>4
    <3>5. CASE \E i \in DOMAIN nodes : nodes'[k] = nodes[i]
      BY <3>2, <3>5
    <3> QED BY <2>7, <3>4, <3>5
  <2>13. Chosen'
    <3>1. SUFFICES ASSUME jpc \in {"dequeue", "dequeue_lock"}
                   PROVE  jidx = 1 /\ Ahead(nodes'[1], t) < TX_JIT_DELAY
      BY <1>1 DEF SInv, Chosen, t
    <3>2. jidx = 1 /\ Ahead(nodes[1], t) < TX_JIT_DELAY
      BY <3>1 DEF SInv, Chosen, t
    <3>3. 1 \in DOMAIN nodes
      BY <3>1, <3>2 DEF IInv, IndexInRange
    <3>4. PICK k \in DOMAIN nodes' : nodes'[k] = nodes[1]
      BY <2>7, <3>3
    <3>5. 1 \in DOMAIN nodes' /\ k \in Nat /\ k >= 1
      BY <2>5
    <3>6. k = 1 \/ Ahead(nodes'[1], t) < Ahead(nodes'[k], t)
      BY <2>7, <3>5 DEF Ordered
    <3>7. /\ nodes'[1] \in Node /\ nodes[1] \in Node
          /\ Ahead(nodes'[1], t) \in Nat /\ Ahead(nodes[1], t) \in Nat
      <4>1. nodes'[1] \in Node /\ nodes[1] \in Node
        BY <2>5, <3>3, <3>5
      <4> QED BY <2>5, <4>1, ScheduleTypes
    <3>8. Ahead(nodes'[1], t) <= Ahead(nodes[1], t)
      BY <3>4, <3>6, <3>7
    <3> QED BY <2>8, <3>2, <3>7, <3>8
  <2>14. Spaced'
    <3>1. Follows(new.post)
      <4>1. dpkt.type # "NONE"
        BY <1>1 DEF IInv, CallArmed, Packet, PktType
      <4> QED BY <2>6, <4>1 DEF SInv, Spaced
    <3>2. \A k \in DOMAIN nodes' : Follows(nodes'[k].post)
      BY <2>7, <3>1 DEF SInv, Spaced
    <3> QED BY <1>2, <3>2 DEF SInv, Spaced, NoPacket
  <2> QED BY <1>3, <2>11, <2>12, <2>13, <2>14 DEF SInv
<1> QED BY <1>5, <1>6

\* Every step of punctual threads keeps the invariant, as long as what is accepted is
\* within reach.
LEMMA NextSchedule ==
  ASSUME Punctual
  PROVE  IInv /\ SInv /\ WithinReach /\ [Next]_vars => SInv'
<1> SUFFICES ASSUME IInv, SInv, WithinReach, [Next]_vars PROVE SInv'
  OBVIOUS
<1>1. CASE Tick \/ GpsChange
  BY <1>1, EnvSchedule
<1>2. CASE JitPoll
  BY <1>2, PollSchedule
<1>3. CASE \/ JitPeekEmpty \/ JitPeekLock \/ JitPick \/ JitDequeueEmpty
           \/ JitStatus \/ JitSend \/ JitSendFail
  BY <1>3, LocalSchedule
<1>4. CASE JitPurge
  BY <1>4, NothingOutdated DEF JitPurge, SInv, Chosen
<1>5. CASE JitDequeue
  BY <1>5, DequeueSchedule
<1>6. CASE DownRecv \/ DownBeacon \/ DownRefilled \/ DownFull
  BY <1>6, DownSchedule
<1>7. CASE DownEnqueue
  BY <1>7, NextStep, EnqueueSchedule
<1>8. CASE UNCHANGED vars
  <2>1. Count(jtime)' = Count(jtime) /\ Notice' = Notice
    BY <1>8 DEF vars, Notice
  <2> QED BY <1>8, <2>1 DEF vars, SInv, ClockRead, InOrder, Chosen, Taken, Spaced
<1> QED BY <1>1, <1>2, <1>3, <1>4, <1>5, <1>6, <1>7, <1>8 DEF Next, JitNext, DownNext

\* Threads that are punctual keep the schedule.
THEOREM ScheduleKept ==
  ASSUME Punctual
  PROVE  Spec /\ []WithinReach => [](IInv /\ SInv)
<1>1. Init => IInv /\ SInv
  BY InitIInv, InitSInv
<1>2. (IInv /\ SInv) /\ WithinReach /\ [Next]_vars => (IInv /\ SInv)'
  BY NextStep, NextSchedule
<1> QED BY <1>1, <1>2, PTL DEF Spec

\* jit_peek never drops a node: none is missed until it is outdated (jitqueue.c:397).
THEOREM NothingMissed ==
  ASSUME Punctual
  PROVE  Spec /\ []WithinReach => []NeverMissed
<1>1. IInv /\ SInv => NeverMissed
  BY NothingOutdated DEF NeverMissed
<1> QED BY <1>1, ScheduleKept, PTL

\* A packet that is due before all others is first under compare.
LEMMA SoonestTakenOut ==
  ASSUME Punctual, IInv, SInv
  PROVE  NextFirst
<1>1. SUFFICES ASSUME jpc = "status", NEW i \in DOMAIN nodes
               PROVE  compare(jpkt, nodes[i]) < 0
  BY DEF NextFirst
<1> DEFINE t == Count(jtime)
<1>2. /\ jpkt \in Node /\ nodes[i] \in Node /\ t \in Counter
      /\ Ahead(jpkt, t) \in Nat /\ Ahead(nodes[i], t) \in Nat
  BY ScheduleTypes
<1>3. Ahead(jpkt, t) < Ahead(nodes[i], t)
  BY <1>1 DEF SInv, Taken
<1>4. Ahead(nodes[i], t) < TX_MAX_ADVANCE_DELAY
  BY DEF SInv, InOrder, Within
<1> HIDE DEF t
<1>5. Ahead(jpkt, t) < TX_MAX_ADVANCE_DELAY
  BY <1>2, <1>3, <1>4, JitConstants
<1>6. compare(jpkt, nodes[i]) = Ahead(jpkt, t) - Ahead(nodes[i], t)
  BY <1>2, <1>4, <1>5, CompareIs DEF Punctual
<1> QED BY <1>2, <1>3, <1>6

\* The packet taken out is due before all that stay, although the index of jit_peek is
\* used in another mutex section and thread_down may insert and sort in between.
THEOREM SoonestTaken ==
  ASSUME Punctual
  PROVE  Spec /\ []WithinReach => []NextFirst
<1>1. IInv /\ SInv => NextFirst
  BY SoonestTakenOut
<1> QED BY <1>1, ScheduleKept, PTL

\* What the notice leaves of a packet's lead when it is programmed.
LEMMA SentNotLate ==
  ASSUME IInv, SInv
  PROVE  ProgrammedInTime
<1>1. SUFFICES ASSUME jpc = "send"
               PROVE  Elapsed(jpkt.count, Count(now)) \in TX_START_DELAY .. TX_JIT_DELAY
  BY DEF ProgrammedInTime
<1> DEFINE e == Elapsed(jpkt.count, Count(jtime))
<1>2. jpkt \in Node /\ jpkt.count \in Counter /\ now \in Int /\ jtime \in Int
      /\ Count(jtime) \in Counter
  BY ScheduleTypes DEF Node
<1>3. e \in Counter /\ e \in Nat
  <2>1. jpkt.count \in Int /\ Count(jtime) \in Int
    BY <1>2 DEF Counter
  <2> QED BY <2>1, ElapsedType
<1>4. e >= TX_START_DELAY + JIT_LAG /\ e < TX_JIT_DELAY
  BY <1>1 DEF SInv, Taken, Ahead
<1>5. now - jtime >= 0 /\ now - jtime <= JIT_LAG
  BY <1>2 DEF SInv, ClockRead
<1>6. e < COUNTER_RANGE /\ COUNTER_RANGE \in Nat
  <2> HIDE DEF e
  <2> QED BY <1>3, JitConstants DEF Counter
<1>7. TX_START_DELAY \in Nat /\ JIT_LAG \in Nat /\ TX_JIT_DELAY \in Nat
  BY JitConstants, ThreadConstants
<1>8. now - jtime <= e /\ e - (now - jtime) < COUNTER_RANGE
      /\ e - (now - jtime) \in TX_START_DELAY .. TX_JIT_DELAY
  <2> HIDE DEF e
  <2> QED BY <1>2, <1>3, <1>4, <1>5, <1>6, <1>7
<1>9. Elapsed(jpkt.count, Count(now)) = e - (now - jtime)
  BY <1>2, <1>8, LeadShrinks
<1> QED BY <1>8, <1>9

\* Every packet reaches the concentrator before its start delay begins, and none earlier
\* than its JiT delay (lora_pkt_fwd.c:2587-2668).
THEOREM SentInTime ==
  ASSUME Punctual
  PROVE  Spec /\ []WithinReach => []ProgrammedInTime
<1>1. IInv /\ SInv => ProgrammedInTime
  BY SentNotLate
<1> QED BY <1>1, ScheduleKept, PTL

-----------------------------------------------------------------------------
(* The concentrator.                                                       *)

\* Beacons are off, or all downlinks are of Class B.  Else a Class A or Class C downlink may
\* lie in the pre-delay of a beacon, all but its start delay, and be on the air when the
\* beacon is handed out.
OneKind == BEACON_PERIOD = 0 \/ DOWN_TYPES \subseteq {"B"}

\* What jit_enqueue accepts is due no sooner than the JiT delay after the end of a packet
\* that has left the queue: the one thread_jit holds, or the one the concentrator has.  The
\* collision test does not see either.
AirClear ==
  dpc = "enqueue" /\ Answer = "OK" =>
    LET due == dtime + Ahead(Judged, Count(dtime))
    IN  /\ due >= tx.stop + TX_JIT_DELAY
        /\ jpc \in {"status", "send"} =>
             due >= jtime + Ahead(jpkt, Count(jtime)) + jpkt.post + TX_JIT_DELAY

\* Nodes are farther apart than NoOverlap says: the next is handed out only when one is over.
Separate(q) ==
  \A i, j \in DOMAIN q : q[i].count # q[j].count =>
    Elapsed(q[j].count, q[i].count)
      > q[i].post + TX_START_DELAY + TX_JIT_DELAY + TX_MARGIN_DELAY

\* Every node reserves the JiT delay as well.
Reserved(q) == \A i \in DOMAIN q : q[i].pre >= TX_START_DELAY + TX_JIT_DELAY

\* What OneKind makes of the packets under way.
Kinds ==
  \/ /\ BEACON_PERIOD = 0
     /\ \A i \in DOMAIN nodes : nodes[i].type # "BEACON"
     /\ dpkt.type # "BEACON"
  \/ /\ DOWN_TYPES \subseteq {"B"}
     /\ dmsg.type \notin {"A", "C"} /\ dpkt.type \notin {"A", "C"}

\* No node is handed out before the concentrator is through with what it has, and once a
\* packet is taken out it is through.
Silent ==
  /\ tx.start <= tx.stop
  /\ \A i \in DOMAIN nodes : jtime + Ahead(nodes[i], Count(jtime)) >= tx.stop + TX_JIT_DELAY
  /\ jpc \in {"status", "send"} =>
       /\ now >= tx.stop
       /\ \A i \in DOMAIN nodes :
            Ahead(nodes[i], Count(jtime)) >= Ahead(jpkt, Count(jtime)) + jpkt.post + TX_JIT_DELAY

\* The invariant of a concentrator that is always free, on top of IInv and SInv.
AirInv == Separate(nodes) /\ Reserved(nodes) /\ Kinds /\ Silent

\* Initially there is nothing to send.
LEMMA InitAir ==
  ASSUME OneKind
  PROVE  Init => AirInv
<1> SUFFICES ASSUME Init PROVE AirInv
  OBVIOUS
<1>1. DOMAIN nodes = {} /\ dmsg.type = "NONE" /\ dpkt.type = "NONE"
  BY DEF Init, NoPacket
<1>2. Kinds
  BY <1>1 DEF OneKind, Kinds
<1>3. Silent
  BY <1>1 DEF Init, Silent, NoTx
<1> QED BY <1>1, <1>2, <1>3 DEF AirInv, Separate, Reserved

\* The types of the concentrator's program.
LEMMA AirTypes ==
  ASSUME IInv
  PROVE  tx.start \in Nat /\ tx.stop \in Nat /\ tx \in [start : Nat, stop : Nat] /\ jpkt.post \in Nat
<1>1. tx \in [start : Nat, stop : Nat] /\ jpkt \in Node
  BY DEF IInv, TypeOK
<1> QED BY <1>1 DEF Node

\* A transmission that is over leaves nothing; until then the nodes stay away from it.
LEMMA EnvAir ==
  ASSUME IInv, SInv, AirInv, Tick \/ GpsChange
  PROVE  AirInv'
<1>1. UNCHANGED <<nodes, jtime, jpc, jpkt, dmsg, dpkt>> /\ Count(jtime)' = Count(jtime)
  BY DEF Tick, GpsChange, queue_vars, jit_vars, down_vars
<1>2. (Separate(nodes) /\ Reserved(nodes) /\ Kinds)'
  BY <1>1 DEF AirInv, Separate, Reserved, Kinds
<1>3. /\ tx' = tx \/ tx' = NoTx
      /\ now' \in Nat /\ now \in Nat /\ now' >= now /\ tx.stop \in Nat
  <2>1. now \in Nat /\ tx.stop \in Nat
    BY ScheduleTypes, AirTypes
  <2>2. CASE Tick
    BY <2>1, <2>2 DEF Tick
  <2>3. CASE GpsChange
    BY <2>1, <2>3 DEF GpsChange
  <2> QED BY <2>1, <2>2, <2>3
<1> SUFFICES Silent'
  BY <1>2 DEF AirInv
<1>4. CASE tx' = tx
  <2>1. jpc \in {"status", "send"} => now' >= tx.stop
    BY <1>3 DEF AirInv, Silent
  <2> QED BY <1>1, <1>4, <2>1 DEF AirInv, Silent
<1>5. CASE tx' = NoTx
  <2>1. tx'.start = 0 /\ tx'.stop = 0
    BY <1>5 DEF NoTx
  <2>2. \A i \in DOMAIN nodes : jtime + Ahead(nodes[i], Count(jtime)) >= 0 + TX_JIT_DELAY
    <3>1. SUFFICES ASSUME NEW i \in DOMAIN nodes
                   PROVE  jtime + Ahead(nodes[i], Count(jtime)) >= 0 + TX_JIT_DELAY
      OBVIOUS
    <3>2. jtime + Ahead(nodes[i], Count(jtime)) >= tx.stop + TX_JIT_DELAY
      BY DEF AirInv, Silent
    <3>3. jtime \in Nat /\ Ahead(nodes[i], Count(jtime)) \in Nat /\ tx.stop \in Nat
      BY ScheduleTypes, AirTypes
    <3> QED BY <3>2, <3>3, JitConstants
  <2>3. now' >= 0
    BY <1>3
  <2> QED BY <1>1, <2>1, <2>2, <2>3 DEF AirInv, Silent
<1> QED BY <1>3, <1>4, <1>5

\* Reading the time does not change when the nodes are due.
LEMMA PollAir ==
  ASSUME IInv, SInv, AirInv, JitPoll
  PROVE  AirInv'
<1>1. /\ UNCHANGED <<jpkt, queue_vars, env_vars, down_vars>>
      /\ jpc = "poll" /\ jpc' = "peek" /\ jtime' = now
  BY DEF JitPoll
<1>2. nodes' = nodes /\ now' = now /\ tx' = tx /\ Count(jtime)' = Count(now)
      /\ dmsg' = dmsg /\ dpkt' = dpkt
  BY <1>1 DEF queue_vars, env_vars, down_vars
<1>3. (Separate(nodes) /\ Reserved(nodes) /\ Kinds)'
  BY <1>2 DEF AirInv, Separate, Reserved, Kinds
<1>4. \A i \in DOMAIN nodes :
        now + Ahead(nodes[i], Count(now)) = jtime + Ahead(nodes[i], Count(jtime))
  <2>1. SUFFICES ASSUME NEW i \in DOMAIN nodes
                 PROVE  now + Ahead(nodes[i], Count(now)) = jtime + Ahead(nodes[i], Count(jtime))
    OBVIOUS
  <2> DEFINE c == nodes[i].count
             e == Elapsed(c, Count(jtime))
  <2>2. nodes[i] \in Node /\ Count(jtime) \in Counter /\ now \in Nat /\ jtime \in Nat
    BY ScheduleTypes
  <2>3. c \in Counter /\ c \in Int /\ Count(jtime) \in Int
    BY <2>2 DEF Node, Counter
  <2>4. e \in Nat /\ e < COUNTER_RANGE
    <3>1. e \in Counter /\ e \in Nat
      BY <2>3, ElapsedType
    <3> HIDE DEF e
    <3> QED BY <3>1, JitConstants DEF Counter
  <2>5. e >= TX_START_DELAY + 2 * JIT_LAG
    BY <1>1 DEF SInv, InOrder, Timely, Notice, Ahead
  <2>6. now - jtime <= JIT_LAG /\ jtime <= now
    BY DEF SInv, ClockRead
  <2>7. now - jtime <= e /\ e - (now - jtime) < COUNTER_RANGE
    BY <2>2, <2>4, <2>5, <2>6, JitConstants, ThreadConstants
  <2> HIDE DEF c
  <2>8. Elapsed(c, Count(now)) = e - (now - jtime)
    BY <2>2, <2>3, <2>7, LeadShrinks
  <2> QED BY <2>2, <2>4, <2>8 DEF Ahead, c
<1>5. Silent'
  BY <1>1, <1>2, <1>4 DEF AirInv, Silent
<1> QED BY <1>3, <1>5 DEF AirInv

\* The other steps of thread_jit that leave the queue alone; lgw_send gives the concentrator
\* a packet that ends before the next is handed out.
LEMMA LocalAir ==
  ASSUME IInv, SInv, AirInv,
         \/ JitPeekEmpty \/ JitPeekLock \/ JitPick \/ JitDequeueEmpty
         \/ JitStatus \/ JitSend \/ JitSendFail
  PROVE  AirInv'
<1>1. UNCHANGED <<nodes, now, jtime, dmsg, dpkt>> /\ Count(jtime)' = Count(jtime)
  BY DEF JitPeekEmpty, JitPeekLock, JitPick, JitDequeueEmpty, JitStatus, JitSend, JitSendFail,
     env_vars, queue_vars, down_vars
<1>2. (Separate(nodes) /\ Reserved(nodes) /\ Kinds)'
  BY <1>1 DEF AirInv, Separate, Reserved, Kinds
<1>3. SUFFICES Silent'
  BY <1>2 DEF AirInv
<1>4. CASE JitPeekEmpty \/ JitPeekLock \/ JitPick \/ JitDequeueEmpty \/ JitSendFail
  <2>1. tx' = tx /\ jpc' \notin {"status", "send"}
    BY <1>4 DEF JitPeekEmpty, JitPeekLock, JitPick, JitDequeueEmpty, JitSendFail, env_vars
  <2> QED BY <1>1, <2>1 DEF AirInv, Silent
<1>5. CASE JitStatus
  <2>1. tx' = tx /\ jpc = "status" /\ (jpc' = "poll" \/ jpkt' = jpkt)
        /\ jpc' \in {"poll", "send"}
    BY <1>5 DEF JitStatus, env_vars
  <2>2. CASE jpc' = "poll"
    BY <1>1, <2>1, <2>2 DEF AirInv, Silent
  <2>3. CASE jpkt' = jpkt
    BY <1>1, <2>1, <2>3 DEF AirInv, Silent
  <2> QED BY <2>1, <2>2, <2>3
<1>6. CASE JitSend
  <2> DEFINE e == Elapsed(jpkt.count, Count(jtime))
             f == Elapsed(jpkt.count, Count(now))
  <2>1. /\ jpc = "send" /\ jpc' = "poll"
        /\ tx' = [start |-> now + f, stop |-> now + f + jpkt.post]
    BY <1>6 DEF JitSend
  <2>2. jpkt \in Node /\ jpkt.count \in Counter /\ now \in Nat /\ jtime \in Nat
        /\ Count(jtime) \in Counter /\ jpkt.post \in Nat
    BY ScheduleTypes DEF Node
  <2>3. e \in Counter /\ e \in Nat
    <3>1. jpkt.count \in Int /\ Count(jtime) \in Int
      BY <2>2 DEF Counter
    <3> QED BY <3>1, ElapsedType
  <2>4. e >= TX_START_DELAY + JIT_LAG
    BY <2>1 DEF SInv, Taken, Ahead
  <2>5. now - jtime >= 0 /\ now - jtime <= JIT_LAG
    BY <2>2 DEF SInv, ClockRead
  <2>6. now - jtime <= e /\ e - (now - jtime) < COUNTER_RANGE
    <3> HIDE DEF e
    <3>1. e < COUNTER_RANGE
      BY <2>3, JitConstants DEF Counter
    <3> QED BY <2>2, <2>3, <2>4, <2>5, <3>1, JitConstants, ThreadConstants
  <2>7. f = e - (now - jtime)
    BY <2>2, <2>6, LeadShrinks
  <2>8. \A i \in DOMAIN nodes :
          Ahead(nodes[i], Count(jtime)) >= e + jpkt.post + TX_JIT_DELAY
    BY <2>1 DEF AirInv, Silent, Ahead
  <2> HIDE DEF e, f
  <2>9. f \in Nat /\ now + f + jpkt.post = jtime + e + jpkt.post
    BY <2>2, <2>3, <2>6, <2>7
  <2>10. tx'.start = now + f /\ tx'.stop = jtime + e + jpkt.post /\ tx'.start <= tx'.stop
    BY <2>1, <2>2, <2>9
  <2>11. \A i \in DOMAIN nodes :
           jtime + Ahead(nodes[i], Count(jtime)) >= tx'.stop + TX_JIT_DELAY
    <3>1. SUFFICES ASSUME NEW i \in DOMAIN nodes
                   PROVE  jtime + Ahead(nodes[i], Count(jtime)) >= tx'.stop + TX_JIT_DELAY
      OBVIOUS
    <3>2. Ahead(nodes[i], Count(jtime)) \in Nat
      BY ScheduleTypes
    <3> QED BY <2>2, <2>3, <2>8, <2>10, <3>2, JitConstants
  <2> QED BY <1>1, <2>1, <2>10, <2>11 DEF Silent
<1> QED BY <1>4, <1>5, <1>6

\* The distance of two nodes is the difference of their leads.
LEMMA NodeDistance ==
  ASSUME NEW p \in Node, NEW r \in Node, NEW time \in Counter,
         Ahead(p, time) <= Ahead(r, time)
  PROVE  Elapsed(r.count, p.count) = Ahead(r, time) - Ahead(p, time)
<1>1. p.count \in Counter /\ r.count \in Counter
  BY DEF Node
<1>2. p.count \in Int /\ r.count \in Int /\ time \in Int
  BY <1>1 DEF Counter
<1>3. Elapsed(p.count, time) \in Nat /\ Elapsed(r.count, time) \in Nat
  BY <1>2, ElapsedType
<1>4. Elapsed(r.count, time) >= Elapsed(p.count, time)
  BY <1>3 DEF Ahead
<1> QED BY <1>1, <1>4, LeadDistance DEF Ahead

\* The node taken out leaves the others where they are: the next is handed out when this
\* one is over, and the concentrator is through with the last.
LEMMA DequeueAir ==
  ASSUME IInv, SInv, AirInv, Punctual, JitDequeue
  PROVE  AirInv'
<1> DEFINE t == Count(jtime)
           s == Removed(nodes, 1)
<1>1. /\ jpc = "dequeue_lock" /\ jpc' = "status" /\ jidx = 1
      /\ UNCHANGED <<now, tx, jtime, dmsg, dpkt>> /\ Count(jtime)' = t
  BY DEF JitDequeue, SInv, Chosen, env_vars, down_vars
<1>2. 1 \in DOMAIN nodes /\ jpkt' = nodes[1] /\ nodes' = s
  BY <1>1 DEF JitDequeue, IInv, IndexInRange, NodeAt
<1>3. Ordered(nodes, t) /\ Within(nodes, t) /\ Ahead(nodes[1], t) < TX_JIT_DELAY
  BY <1>1 DEF SInv, InOrder, Chosen
<1>4. \A k \in DOMAIN s : \E j \in DOMAIN nodes : j # 1 /\ s[k] = nodes[j]
  BY <1>2, <1>3, ScheduleTypes, RemovedOrder DEF Punctual
<1> HIDE DEF s
<1>5. Separate(s)
  <2>1. SUFFICES ASSUME NEW i \in DOMAIN s, NEW j \in DOMAIN s, s[i].count # s[j].count
                 PROVE  Elapsed(s[j].count, s[i].count)
                          > s[i].post + TX_START_DELAY + TX_JIT_DELAY + TX_MARGIN_DELAY
    BY DEF Separate
  <2>2. PICK k \in DOMAIN nodes : s[i] = nodes[k]
    BY <1>4
  <2>3. PICK l \in DOMAIN nodes : s[j] = nodes[l]
    BY <1>4
  <2> QED BY <2>1, <2>2, <2>3 DEF AirInv, Separate
<1>6. Reserved(s)
  BY <1>4 DEF AirInv, Reserved
<1>7. Kinds'
  <2>1. (\A i \in DOMAIN nodes : nodes[i].type # "BEACON")
          => \A k \in DOMAIN s : s[k].type # "BEACON"
    BY <1>4
  <2> QED BY <1>1, <1>2, <2>1 DEF AirInv, Kinds
<1>8. /\ nodes[1] \in Node /\ nodes[1].post \in Nat /\ t \in Counter /\ Ahead(nodes[1], t) \in Nat
      /\ now \in Nat /\ jtime \in Nat /\ tx.stop \in Nat
  <2>1. nodes[1] \in Node /\ t \in Counter /\ now \in Nat /\ jtime \in Nat /\ tx.stop \in Nat
        /\ Ahead(nodes[1], t) \in Nat
    BY <1>2, ScheduleTypes, AirTypes
  <2> QED BY <2>1 DEF Node
<1>9. now >= tx.stop
  <2>1. jtime + Ahead(nodes[1], t) >= tx.stop + TX_JIT_DELAY
    BY <1>2 DEF AirInv, Silent
  <2>2. jtime <= now
    BY DEF SInv, ClockRead
  <2> HIDE DEF t
  <2> QED BY <1>3, <1>8, <2>1, <2>2, JitConstants
<1>10. \A k \in DOMAIN s :
         /\ jtime + Ahead(s[k], t) >= tx.stop + TX_JIT_DELAY
         /\ Ahead(s[k], t) >= Ahead(nodes[1], t) + nodes[1].post + TX_JIT_DELAY
  <2>1. SUFFICES ASSUME NEW k \in DOMAIN s
                 PROVE  /\ jtime + Ahead(s[k], t) >= tx.stop + TX_JIT_DELAY
                        /\ Ahead(s[k], t) >= Ahead(nodes[1], t) + nodes[1].post + TX_JIT_DELAY
    OBVIOUS
  <2>2. PICK j \in DOMAIN nodes : j # 1 /\ s[k] = nodes[j]
    BY <1>4
  <2>3. nodes[j] \in Node /\ Ahead(nodes[j], t) \in Nat /\ j \in Nat /\ 1 < j
    BY <2>2, ScheduleTypes
  <2>4. Ahead(nodes[1], t) < Ahead(nodes[j], t)
    BY <1>2, <1>3, <2>3 DEF Ordered
  <2>5. jtime + Ahead(nodes[j], t) >= tx.stop + TX_JIT_DELAY
    BY DEF AirInv, Silent
  <2> HIDE DEF t
  <2>6. Elapsed(nodes[j].count, nodes[1].count) = Ahead(nodes[j], t) - Ahead(nodes[1], t)
    BY <1>8, <2>3, <2>4, NodeDistance
  <2>7. nodes[1].count # nodes[j].count
    BY <1>8, <2>3, <2>4 DEF Ahead
  <2>8. Elapsed(nodes[j].count, nodes[1].count)
          > nodes[1].post + TX_START_DELAY + TX_JIT_DELAY + TX_MARGIN_DELAY
    BY <1>2, <2>7 DEF AirInv, Separate
  <2>9. Ahead(nodes[j], t) >= Ahead(nodes[1], t) + nodes[1].post + TX_JIT_DELAY
    BY <1>8, <2>3, <2>6, <2>8, JitConstants
  <2> QED BY <2>2, <2>5, <2>9
<1>11. Silent'
  <2>1. tx.start <= tx.stop
    BY DEF AirInv, Silent
  <2> HIDE DEF t
  <2> QED BY <1>1, <1>2, <1>9, <1>10, <2>1 DEF Silent
<1> QED BY <1>2, <1>5, <1>6, <1>7, <1>11 DEF AirInv

\* The steps of thread_down up to the call of jit_enqueue keep to the kinds.
LEMMA DownAir ==
  ASSUME IInv, SInv, AirInv, DownRecv \/ DownBeacon \/ DownRefilled \/ DownFull
  PROVE  AirInv'
<1>1. UNCHANGED <<nodes, now, tx, jtime, jpc, jpkt>> /\ Count(jtime)' = Count(jtime)
  BY DEF DownRecv, DownBeacon, DownRefilled, DownFull, jit_vars, queue_vars, env_vars
<1>2. (Separate(nodes) /\ Reserved(nodes) /\ Silent)'
  BY <1>1 DEF AirInv, Separate, Reserved, Silent
<1>3. SUFFICES Kinds'
  BY <1>2 DEF AirInv
<1>4. NoPacket.type = "NONE"
  BY DEF NoPacket
<1>5. CASE DownRecv
  <2>1. dpkt' = dpkt
    BY <1>5 DEF DownRecv
  <2>2. dmsg'.type \in DOWN_TYPES \/ dmsg'.type = "NONE"
    <3>1. CASE dmsg' = NoPacket
      BY <1>4, <3>1
    <3>2. CASE \E type \in DOWN_TYPES, d \in OFFSETS, toa \in AIRTIMES :
                 dmsg' = [type |-> type, toa |-> toa,
                          count |-> IF type = "C" THEN 0 ELSE Count(now + d)]
      BY <3>2
    <3> QED BY <1>5, <3>1, <3>2 DEF DownRecv
  <2> QED BY <1>1, <2>1, <2>2 DEF AirInv, Kinds
<1>6. CASE DownBeacon
  <2>1. dmsg' = dmsg /\ dpkt'.type = "BEACON" /\ BEACON_PERIOD # 0
    BY <1>6 DEF DownBeacon, Refilling
  <2> QED BY <1>1, <2>1 DEF AirInv, Kinds
<1>7. CASE DownRefilled \/ DownFull
  <2>1. /\ dmsg' = dmsg \/ dmsg' = NoPacket
        /\ dpkt' = dpkt \/ dpkt' = NoPacket \/ dpkt'.type = dmsg.type
    BY <1>7, HandedOver DEF DownRefilled, DownFull, DownAnswered
  <2>2. dmsg.type # "BEACON"
    BY DEF IInv, CallArmed
  <2> QED BY <1>1, <1>4, <2>1, <2>2 DEF AirInv, Kinds
<1> QED BY <1>5, <1>6, <1>7

\* A packet accepted keeps its distance from every node whose pre-delay is tested whole, and
\* its own always is.
LEMMA AcceptedSeparate ==
  ASSUME NEW q \in Seq(Node), NEW time, NEW pkt \in Packet, Reserved(q),
         Verdict(q, time, pkt) = "OK", NEW i \in DOMAIN q
  PROVE  /\ Elapsed(pkt.count, q[i].count)
              > q[i].post + TX_START_DELAY + TX_JIT_DELAY + TX_MARGIN_DELAY
         /\ q[i].type # "BEACON" \/ pkt.type \notin {"A", "C"} =>
              Elapsed(q[i].count, pkt.count)
                > PostDelay(pkt) + TX_START_DELAY + TX_JIT_DELAY + TX_MARGIN_DELAY
<1> DEFINE new == NodeOf(pkt)
           to == Elapsed(pkt.count, q[i].count)
           from == Elapsed(q[i].count, pkt.count)
<1>1. /\ new.count = pkt.count /\ new.post = PostDelay(pkt) /\ new.type = pkt.type
      /\ new.pre = PreDelay(pkt.type) /\ new \in Node
  BY NodeOfIs, NodeOfType
<1> HIDE DEF new
<1>2. ~Collides(q[i], new)
  BY DEF Verdict, new
<1>3. ~(to <= new.pre + q[i].post + TX_MARGIN_DELAY)
  BY <1>1, <1>2 DEF Collides, jit_collision_test
<1>4. ASSUME q[i].type # "BEACON" \/ pkt.type \notin {"A", "C"}
      PROVE  ~(from <= q[i].pre + new.post + TX_MARGIN_DELAY)
  <2>1. TargetPreDelay(q[i], new.type) = q[i].pre
    BY <1>1, <1>4 DEF TargetPreDelay
  <2> QED BY <1>1, <1>2, <2>1 DEF Collides, jit_collision_test
<1>5. new.pre >= TX_START_DELAY + TX_JIT_DELAY
  BY <1>1, JitConstants DEF PreDelay
<1>6. q[i].pre >= TX_START_DELAY + TX_JIT_DELAY
  BY DEF Reserved
<1>7. q[i].count \in Int /\ pkt.count \in Int /\ q[i].post \in Nat /\ q[i].pre \in Nat
      /\ new.post \in Nat /\ new.pre \in Nat
  <2>1. q[i] \in Node
    OBVIOUS
  <2> QED BY <1>1, <2>1 DEF Node, Packet, Counter
<1>8. to \in Nat /\ from \in Nat
  BY <1>7, ElapsedType
<1> HIDE DEF to, from
<1>9. to > q[i].post + TX_START_DELAY + TX_JIT_DELAY + TX_MARGIN_DELAY
  <2> DEFINE before == new.pre
             after == q[i].post
  <2>1. before \in Nat /\ after \in Nat
    BY <1>7
  <2>2. ~(to <= before + after + TX_MARGIN_DELAY)
    BY <1>3
  <2>3. before >= TX_START_DELAY + TX_JIT_DELAY
    BY <1>5
  <2> HIDE DEF before, after
  <2>4. to > after + TX_START_DELAY + TX_JIT_DELAY + TX_MARGIN_DELAY
    BY <1>8, <2>1, <2>2, <2>3, JitConstants
  <2> QED BY <2>4 DEF after
<1>10. ASSUME q[i].type # "BEACON" \/ pkt.type \notin {"A", "C"}
       PROVE  from > new.post + TX_START_DELAY + TX_JIT_DELAY + TX_MARGIN_DELAY
  <2> DEFINE before == q[i].pre
             after == new.post
  <2>1. before \in Nat /\ after \in Nat
    BY <1>7
  <2>2. ~(from <= before + after + TX_MARGIN_DELAY)
    BY <1>4, <1>10
  <2>3. before >= TX_START_DELAY + TX_JIT_DELAY
    BY <1>6
  <2> HIDE DEF before, after
  <2>4. from > after + TX_START_DELAY + TX_JIT_DELAY + TX_MARGIN_DELAY
    BY <1>8, <2>1, <2>2, <2>3, JitConstants
  <2> QED BY <2>4 DEF after
<1> QED BY <1>1, <1>9, <1>10 DEF to, from

\* A packet accepted is separate from the nodes and stays away from what is on the air.
LEMMA EnqueueAir ==
  ASSUME IInv, SInv, AirInv, Punctual, WithinReach, AirClear, DownEnqueue, IInv'
  PROVE  AirInv'
<1> DEFINE t == Count(jtime)
<1>1. /\ UNCHANGED <<now, tx, jtime, jpc, jpkt, dmsg>> /\ Count(jtime)' = t
      /\ dpc = "enqueue" /\ dpkt' = NoPacket
  BY DEF DownEnqueue, DownAnswered, jit_vars, env_vars
<1>2. NoPacket.type = "NONE"
  BY DEF NoPacket
<1>3. CASE Answer # "OK"
  <2>1. nodes' = nodes
    BY <1>3 DEF DownEnqueue, queue_vars
  <2>2. (Separate(nodes) /\ Reserved(nodes) /\ Silent)'
    BY <1>1, <2>1 DEF AirInv, Separate, Reserved, Silent
  <2>3. Kinds'
    BY <1>1, <1>2, <2>1 DEF AirInv, Kinds
  <2> QED BY <2>2, <2>3 DEF AirInv
<1>4. CASE Answer = "OK"
  <2> DEFINE new == NodeOf(Judged)
             e == Ahead(Judged, t)
  <2>1. /\ Judged \in Packet /\ Judged.type = dpkt.type
        /\ e = Ahead(Judged, Count(dtime)) - (jtime - dtime)
        /\ e \in Nat /\ e < TX_MAX_ADVANCE_DELAY
    BY <1>1, <1>4, AcceptedAhead
  <2>2. nodes' = Inserted(nodes, Judged)
    BY <1>4 DEF DownEnqueue
  <2>3. \A k \in DOMAIN nodes' : nodes'[k] = new \/ \E i \in DOMAIN nodes : nodes'[k] = nodes[i]
    <3>1. Disjoint(Inserted(nodes, Judged))
      BY <2>2 DEF IInv, NoOverlap
    <3>2. Within(nodes, t)
      BY DEF SInv, InOrder
    <3>3. t \in Counter /\ nodes \in Seq(Node)
      BY ScheduleTypes
    <3> HIDE DEF t
    <3> QED BY <2>1, <2>2, <3>1, <3>2, <3>3, InsertedOrder DEF Punctual
  <2>4. /\ new.count = Judged.count /\ new.post = PostDelay(Judged) /\ new.type = dpkt.type
        /\ new.pre = PreDelay(Judged.type) /\ Ahead(new, t) = e
    BY <2>1, NodeOfIs
  <2>5. \A i \in DOMAIN nodes :
          /\ Elapsed(new.count, nodes[i].count)
               > nodes[i].post + TX_START_DELAY + TX_JIT_DELAY + TX_MARGIN_DELAY
          /\ Elapsed(nodes[i].count, new.count)
               > new.post + TX_START_DELAY + TX_JIT_DELAY + TX_MARGIN_DELAY
    <3>1. nodes \in Seq(Node) /\ Reserved(nodes)
      BY ScheduleTypes DEF AirInv
    <3>2. Verdict(nodes, Count(dtime), Judged) = "OK"
      BY <1>4 DEF Answer
    <3>3. \A i \in DOMAIN nodes : nodes[i].type # "BEACON" \/ Judged.type \notin {"A", "C"}
      BY <2>1 DEF AirInv, Kinds
    <3> HIDE DEF new
    <3> QED BY <2>1, <2>4, <3>1, <3>2, <3>3, AcceptedSeparate
  <2> HIDE DEF new
  <2>6. Separate(nodes')
    <3>1. SUFFICES ASSUME NEW i \in DOMAIN nodes', NEW j \in DOMAIN nodes',
                          nodes'[i].count # nodes'[j].count
                   PROVE  Elapsed(nodes'[j].count, nodes'[i].count)
                            > nodes'[i].post + TX_START_DELAY + TX_JIT_DELAY + TX_MARGIN_DELAY
      BY DEF Separate
    <3>2. CASE nodes'[i] = new /\ nodes'[j] = new
      BY <3>1, <3>2
    <3>3. CASE nodes'[i] = new /\ \E l \in DOMAIN nodes : nodes'[j] = nodes[l]
      BY <2>5, <3>3
    <3>4. CASE nodes'[j] = new /\ \E k \in DOMAIN nodes : nodes'[i] = nodes[k]
      BY <2>5, <3>4
    <3>5. CASE /\ \E k \in DOMAIN nodes : nodes'[i] = nodes[k]
               /\ \E l \in DOMAIN nodes : nodes'[j] = nodes[l]
      <4>1. PICK k \in DOMAIN nodes : nodes'[i] = nodes[k]
        BY <3>5
      <4>2. PICK l \in DOMAIN nodes : nodes'[j] = nodes[l]
        BY <3>5
      <4> QED BY <3>1, <4>1, <4>2 DEF AirInv, Separate
    <3> QED BY <2>3, <3>2, <3>3, <3>4, <3>5
  <2>7. Reserved(nodes')
    <3>1. new.pre >= TX_START_DELAY + TX_JIT_DELAY
      BY <2>4, JitConstants DEF PreDelay
    <3> QED BY <2>3, <3>1 DEF AirInv, Reserved
  <2>8. Kinds'
    <3>1. (/\ \A i \in DOMAIN nodes : nodes[i].type # "BEACON"
           /\ dpkt.type # "BEACON") => \A k \in DOMAIN nodes' : nodes'[k].type # "BEACON"
      BY <2>3, <2>4
    <3> QED BY <1>1, <1>2, <3>1 DEF AirInv, Kinds
  <2>9. /\ jtime + e >= tx.stop + TX_JIT_DELAY
        /\ jpc \in {"status", "send"} => e >= Ahead(jpkt, t) + jpkt.post + TX_JIT_DELAY
    <3> DEFINE a == Ahead(Judged, Count(dtime))
               h == Ahead(jpkt, t)
    <3>1. /\ dtime + a >= tx.stop + TX_JIT_DELAY
          /\ jpc \in {"status", "send"} => dtime + a >= jtime + h + jpkt.post + TX_JIT_DELAY
      BY <1>1, <1>4 DEF AirClear
    <3>2. jtime \in Nat /\ dtime \in Nat /\ h \in Nat /\ jpkt.post \in Nat /\ tx.stop \in Nat
      BY ScheduleTypes, AirTypes
    <3>3. a \in Nat
      <4>1. Judged.count \in Int /\ Count(dtime) \in Int
        BY <2>1, ScheduleTypes DEF Packet, Counter
      <4> QED BY <4>1, ElapsedType DEF Ahead
    <3>4. e = a - (jtime - dtime)
      BY <2>1
    <3> HIDE DEF a, h, e
    <3>5. jtime + e >= tx.stop + TX_JIT_DELAY
      BY <3>1, <3>2, <3>3, <3>4, JitConstants
    <3>6. ASSUME jpc \in {"status", "send"} PROVE e >= h + jpkt.post + TX_JIT_DELAY
      <4>1. dtime + a >= jtime + h + jpkt.post + TX_JIT_DELAY
        BY <3>1, <3>6
      <4> QED BY <3>2, <3>3, <3>4, <4>1, JitConstants
    <3> QED BY <3>5, <3>6 DEF h
  <2>10. Silent'
    <3>1. \A k \in DOMAIN nodes' : jtime + Ahead(nodes'[k], t) >= tx.stop + TX_JIT_DELAY
      <4>1. SUFFICES ASSUME NEW k \in DOMAIN nodes'
                     PROVE  jtime + Ahead(nodes'[k], t) >= tx.stop + TX_JIT_DELAY
        OBVIOUS
      <4>2. CASE nodes'[k] = new
        BY <2>4, <2>9, <4>2
      <4>3. CASE \E i \in DOMAIN nodes : nodes'[k] = nodes[i]
        BY <4>3 DEF AirInv, Silent
      <4> QED BY <2>3, <4>2, <4>3
    <3>2. jpc \in {"status", "send"} =>
            \A k \in DOMAIN nodes' : Ahead(nodes'[k], t) >= Ahead(jpkt, t) + jpkt.post + TX_JIT_DELAY
      <4>1. SUFFICES ASSUME jpc \in {"status", "send"}, NEW k \in DOMAIN nodes'
                     PROVE  Ahead(nodes'[k], t) >= Ahead(jpkt, t) + jpkt.post + TX_JIT_DELAY
        OBVIOUS
      <4>2. CASE nodes'[k] = new
        BY <2>4, <2>9, <4>1, <4>2
      <4>3. CASE \E i \in DOMAIN nodes : nodes'[k] = nodes[i]
        BY <4>1, <4>3 DEF AirInv, Silent
      <4> QED BY <2>3, <4>2, <4>3
    <3>3. tx.start <= tx.stop /\ (jpc \in {"status", "send"} => now >= tx.stop)
      BY DEF AirInv, Silent
    <3> HIDE DEF t
    <3> QED BY <1>1, <3>1, <3>2, <3>3 DEF Silent
  <2> QED BY <2>6, <2>7, <2>8, <2>10 DEF AirInv
<1> QED BY <1>3, <1>4

\* Every step keeps the invariant, as long as what is accepted is clear of what has left
\* the queue.
LEMMA NextAir ==
  ASSUME Punctual
  PROVE  IInv /\ SInv /\ AirInv /\ WithinReach /\ AirClear /\ [Next]_vars => AirInv'
<1> SUFFICES ASSUME IInv, SInv, AirInv, WithinReach, AirClear, [Next]_vars PROVE AirInv'
  OBVIOUS
<1>1. CASE Tick \/ GpsChange
  BY <1>1, EnvAir
<1>2. CASE JitPoll
  BY <1>2, PollAir
<1>3. CASE \/ JitPeekEmpty \/ JitPeekLock \/ JitPick \/ JitDequeueEmpty
           \/ JitStatus \/ JitSend \/ JitSendFail
  BY <1>3, LocalAir
<1>4. CASE JitPurge
  BY <1>4, NothingOutdated DEF JitPurge, SInv, Chosen
<1>5. CASE JitDequeue
  BY <1>5, DequeueAir
<1>6. CASE DownRecv \/ DownBeacon \/ DownRefilled \/ DownFull
  BY <1>6, DownAir
<1>7. CASE DownEnqueue
  BY <1>7, NextStep, EnqueueAir
<1>8. CASE UNCHANGED vars
  <2>1. Count(jtime)' = Count(jtime)
    BY <1>8 DEF vars
  <2> QED BY <1>8, <2>1 DEF vars, AirInv, Separate, Reserved, Kinds, Silent
<1> QED BY <1>1, <1>2, <1>3, <1>4, <1>5, <1>6, <1>7, <1>8 DEF Next, JitNext, DownNext

\* What is waiting and what has left the queue are done with before the next is taken out.
LEMMA AirFree ==
  ASSUME IInv, AirInv
  PROVE  ConcentratorFree
<1>1. tx.start \in Nat /\ tx.stop \in Nat /\ now \in Nat
  BY ScheduleTypes, AirTypes
<1>2. tx.start <= tx.stop /\ (jpc \in {"status", "send"} => now >= tx.stop)
  BY DEF AirInv, Silent
<1> QED BY <1>1, <1>2 DEF ConcentratorFree, TxStatus

\* "Once the packet is queued, it has to be sent over the air" (jitqueue.h:114) holds but for
\* what the collision test cannot see: if nothing is accepted too close to a packet that has
\* left the queue, no packet taken out ever meets a concentrator that is emitting, nor
\* overwrites one that is scheduled.
THEOREM AirKept ==
  ASSUME Punctual, OneKind
  PROVE  Spec /\ []WithinReach /\ []AirClear => []ConcentratorFree
<1>1. Init => IInv /\ SInv /\ AirInv
  BY InitIInv, InitSInv, InitAir
<1>2. (IInv /\ SInv /\ AirInv) /\ WithinReach /\ AirClear /\ [Next]_vars
        => (IInv /\ SInv /\ AirInv)'
  BY NextStep, NextSchedule, NextAir
<1>3. IInv /\ SInv /\ AirInv => ConcentratorFree
  BY AirFree
<1> QED BY <1>1, <1>2, <1>3, PTL DEF Spec

-----------------------------------------------------------------------------
(* A server that plans ahead.                                              *)

\* No offset is so short that a packet that reserves `post' could still be on its way
\* through thread_jit, or on the air, when the new one is handed out.
RoomFor(post) == \A d \in OFFSETS : 2 * DOWN_LAG + 2 * TX_JIT_DELAY + post <= d

\* Beacons are off, downlinks are of Class A or B, and their time stamps lie within what
\* criteria 2 allows and no closer than two JiT delays and the longest packet.
PlansAhead ==
  /\ BEACON_PERIOD = 0
  /\ DOWN_TYPES \subseteq {"A", "B"}
  /\ \A d \in OFFSETS : d + JIT_LAG < TX_MAX_ADVANCE_DELAY
  /\ RoomFor(0)
  /\ \A toa \in AIRTIMES : RoomFor(toa)

\* A downlink on its way through thread_down still has the time stamp it had on arrival.
Arrived ==
  /\ dmsg.type # "NONE" =>
       /\ dpc = "refill" /\ dmsg.type \in {"A", "B"}
       /\ \E d \in OFFSETS : dmsg.count = Count(dtime + d)
       /\ RoomFor(PostDelay(dmsg))
  /\ dpc \in {"full", "enqueue"} =>
       /\ dpkt.type \in {"A", "B"}
       /\ \E d \in OFFSETS, lag \in 0 .. DOWN_LAG : dpkt.count = Count(dtime + (d - lag))
       /\ RoomFor(PostDelay(dpkt))

\* What is queued, held or programmed is over before a packet that arrives now is due.
Passing ==
  /\ \A i \in DOMAIN nodes : RoomFor(nodes[i].post)
  /\ jpc \in {"status", "send"} => RoomFor(jpkt.post)
  /\ \A d \in OFFSETS : tx.stop + TX_JIT_DELAY + 2 * DOWN_LAG <= now + d

PlanInv == Arrived /\ Passing

\* The lead of a time stamp is how far it lies ahead.
LEMMA LeadOfCount ==
  ASSUME NEW t \in Int, NEW k \in Int, 0 <= k, k < COUNTER_RANGE
  PROVE  Elapsed(Count(t + k), Count(t)) = k
<1> DEFINE u == t + k
<1>1. COUNTER_RANGE \in Nat /\ COUNTER_ORIGIN \in Int /\ u \in Int
  BY JitConstants, ThreadConstants
<1> HIDE DEF u
<1>2. Count(t) \in Int /\ Count(u) \in Int
  BY <1>1, CountType, JitConstants DEF Counter
<1>3. PICK m \in Int : t + COUNTER_ORIGIN = COUNTER_RANGE * m + Count(t)
  BY CountTurns
<1>4. PICK n \in Int : u + COUNTER_ORIGIN = COUNTER_RANGE * n + Count(u)
  BY <1>1, CountTurns
<1> DEFINE w == m - n
<1>5. w \in Int /\ COUNTER_RANGE * w = COUNTER_RANGE * m - COUNTER_RANGE * n
  BY <1>1
<1> DEFINE y == COUNTER_RANGE * m
           z == COUNTER_RANGE * n
           v == COUNTER_RANGE * w
<1>6. /\ y \in Int /\ z \in Int /\ v \in Int /\ v = y - z
      /\ t + COUNTER_ORIGIN = y + Count(t) /\ u + COUNTER_ORIGIN = z + Count(u)
  BY <1>1, <1>3, <1>4, <1>5
<1> HIDE DEF w, y, z, v
<1>7. Count(u) - Count(t) = v + k
  <2>1. u = t + k
    BY DEF u
  <2>2. Count(t) = t + COUNTER_ORIGIN - y /\ Count(u) = u + COUNTER_ORIGIN - z
    BY <1>1, <1>2, <1>6
  <2> QED BY <1>1, <1>2, <1>6, <2>1, <2>2
<1>8. Count(u) - Count(t) = COUNTER_RANGE * w + k
  BY <1>7 DEF v
<1>9. Elapsed(Count(u), Count(t)) = k
  BY <1>2, <1>5, <1>8, ElapsedIs
<1> QED BY <1>9 DEF u

\* Initially nothing is under way.
LEMMA InitPlan ==
  ASSUME PlansAhead
  PROVE  Init => PlanInv
<1> SUFFICES ASSUME Init PROVE PlanInv
  OBVIOUS
<1>1. Arrived
  BY DEF Init, Arrived, NoPacket
<1>2. \A d \in OFFSETS : tx.stop + TX_JIT_DELAY + 2 * DOWN_LAG <= now + d
  <2>1. SUFFICES ASSUME NEW d \in OFFSETS
                 PROVE  tx.stop + TX_JIT_DELAY + 2 * DOWN_LAG <= now + d
    OBVIOUS
  <2>2. tx.stop = 0 /\ now \in Nat /\ d \in Int
    BY ThreadConstants DEF Init, NoTx
  <2>3. 2 * DOWN_LAG + 2 * TX_JIT_DELAY + 0 <= d
    BY DEF PlansAhead, RoomFor
  <2> QED BY <2>2, <2>3, JitConstants, ThreadConstants
<1>3. DOMAIN nodes = {} /\ jpc = "poll"
  BY DEF Init
<1> QED BY <1>1, <1>2, <1>3 DEF PlanInv, Passing

\* With such a server every packet accepted is within reach and clear of what has left the
\* queue.
LEMMA PlanReaches ==
  ASSUME Punctual, PlansAhead, IInv, SInv, PlanInv
  PROVE  WithinReach /\ AirClear
<1> SUFFICES ASSUME dpc = "enqueue", Answer = "OK"
             PROVE  WithinReach /\ AirClear
  BY DEF WithinReach, AirClear
<1>1. PICK d \in OFFSETS, lag \in 0 .. DOWN_LAG : dpkt.count = Count(dtime + (d - lag))
  BY DEF PlanInv, Arrived
<1>2. d \in Int /\ lag \in Nat /\ lag <= DOWN_LAG /\ DOWN_LAG \in Nat /\ JIT_LAG \in Nat
      /\ TX_JIT_DELAY \in Nat /\ TX_MAX_ADVANCE_DELAY \in Nat /\ COUNTER_RANGE \in Nat
      /\ 2 * TX_MAX_ADVANCE_DELAY <= COUNTER_RANGE
  BY ThreadConstants, JitConstants DEF Punctual, HalfAhead
<1>3. d + JIT_LAG < TX_MAX_ADVANCE_DELAY /\ 2 * DOWN_LAG + 2 * TX_JIT_DELAY + 0 <= d
  BY DEF PlansAhead, RoomFor
<1> DEFINE k == d - lag
<1>4. k \in Int /\ 0 <= k /\ k < COUNTER_RANGE /\ k + JIT_LAG < TX_MAX_ADVANCE_DELAY
  BY <1>2, <1>3
<1>5. Judged = dpkt
  BY DEF PlanInv, Arrived, Judged, Timed
<1>6. dtime \in Nat /\ now \in Nat /\ jtime \in Nat /\ tx.stop \in Nat /\ jpkt.post \in Nat
      /\ Ahead(jpkt, Count(jtime)) \in Nat
  BY ScheduleTypes, AirTypes
<1>7. Ahead(Judged, Count(dtime)) = k
  <2> HIDE DEF k
  <2>1. Elapsed(Count(dtime + k), Count(dtime)) = k
    BY <1>4, <1>6, LeadOfCount
  <2>2. dpkt.count = Count(dtime + k)
    BY <1>1 DEF k
  <2> QED BY <1>5, <2>1, <2>2 DEF Ahead
<1>8. now <= dtime + DOWN_LAG /\ jtime <= now
  <2>1. now - dtime <= DOWN_LAG /\ jtime <= now
    BY DEF SInv, ClockRead
  <2> QED BY <1>2, <1>6, <2>1
<1>9. dtime + k >= tx.stop + TX_JIT_DELAY
  <2>1. tx.stop + TX_JIT_DELAY + 2 * DOWN_LAG <= now + d
    BY DEF PlanInv, Passing
  <2> QED BY <1>2, <1>6, <1>8, <2>1
<1>10. ASSUME jpc \in {"status", "send"}
       PROVE  dtime + k >= jtime + Ahead(jpkt, Count(jtime)) + jpkt.post + TX_JIT_DELAY
  <2>1. 2 * DOWN_LAG + 2 * TX_JIT_DELAY + jpkt.post <= d
    BY <1>10 DEF PlanInv, Passing, RoomFor
  <2>2. Ahead(jpkt, Count(jtime)) < TX_JIT_DELAY
    BY <1>10 DEF SInv, Taken
  <2> QED BY <1>2, <1>6, <1>8, <2>1, <2>2
<1>11. WithinReach
  BY <1>4, <1>7 DEF WithinReach
<1> HIDE DEF k
<1> QED BY <1>7, <1>9, <1>10, <1>11 DEF AirClear

\* The environment: time only brings the end of a transmission closer.
LEMMA EnvPlan ==
  ASSUME IInv, SInv, PlanInv, Tick \/ GpsChange
  PROVE  PlanInv'
<1>1. UNCHANGED <<nodes, jpc, jpkt, down_vars>>
  BY DEF Tick, GpsChange, queue_vars, jit_vars
<1>2. Arrived'
  BY <1>1 DEF PlanInv, Arrived, down_vars
<1>3. \A d \in OFFSETS : tx'.stop + TX_JIT_DELAY + 2 * DOWN_LAG <= now' + d
  <2>1. SUFFICES ASSUME NEW d \in OFFSETS
                 PROVE  tx'.stop + TX_JIT_DELAY + 2 * DOWN_LAG <= now' + d
    OBVIOUS
  <2>2. tx.stop + TX_JIT_DELAY + 2 * DOWN_LAG <= now + d
    BY DEF PlanInv, Passing
  <2>3. now \in Nat /\ tx.stop \in Nat /\ d \in Int
    BY ScheduleTypes, AirTypes, ThreadConstants
  <2>4. CASE Tick
    <3>1. now' = now + 1 /\ (tx'.stop = tx.stop \/ tx'.stop = 0)
      BY <2>4 DEF Tick, NoTx
    <3> QED BY <2>2, <2>3, <3>1, JitConstants, ThreadConstants
  <2>5. CASE GpsChange
    BY <2>2, <2>5 DEF GpsChange
  <2> QED BY <2>4, <2>5
<1>4. Passing'
  BY <1>1, <1>3 DEF PlanInv, Passing
<1> QED BY <1>2, <1>4 DEF PlanInv

\* thread_jit hands the packet on to the concentrator, and takes it from the queue.
LEMMA JitPlan ==
  ASSUME IInv, SInv, PlanInv, Punctual, JitNext
  PROVE  PlanInv'
<1>1. UNCHANGED <<now, down_vars>>
  BY DEF JitNext, JitPoll, JitPeekEmpty, JitPeekLock, JitPurge, JitPick, JitDequeueEmpty,
     JitDequeue, JitStatus, JitSend, JitSendFail, env_vars
<1>2. Arrived'
  BY <1>1 DEF PlanInv, Arrived, down_vars
<1>3. SUFFICES Passing'
  BY <1>2 DEF PlanInv
<1>4. CASE \/ JitPoll \/ JitPeekEmpty \/ JitPeekLock \/ JitPick \/ JitDequeueEmpty
           \/ JitStatus \/ JitSendFail
  <2>1. nodes' = nodes /\ tx' = tx
        /\ (jpc' \in {"status", "send"} => jpkt' = jpkt /\ jpc \in {"status", "send"})
    BY <1>4 DEF JitPoll, JitPeekEmpty, JitPeekLock, JitPick, JitDequeueEmpty,
       JitStatus, JitSendFail, env_vars, queue_vars
  <2> QED BY <1>1, <2>1 DEF PlanInv, Passing
<1>5. CASE JitPurge
  BY <1>5, NothingOutdated DEF JitPurge, SInv, Chosen
<1>6. CASE JitDequeue
  <2>1. /\ jpc = "dequeue_lock" /\ tx' = tx
        /\ jidx = 1
    BY <1>6 DEF JitDequeue, SInv, Chosen, env_vars
  <2>2. 1 \in DOMAIN nodes /\ jpkt' = nodes[1] /\ nodes' = Removed(nodes, 1)
    BY <1>6, <2>1 DEF JitDequeue, IInv, IndexInRange, NodeAt
  <2>3. \A k \in DOMAIN nodes' : \E j \in DOMAIN nodes : j # 1 /\ nodes'[k] = nodes[j]
    <3>1. Within(nodes, Count(jtime))
      BY DEF SInv, InOrder
    <3> QED BY <2>2, <3>1, ScheduleTypes, RemovedOrder DEF Punctual
  <2> QED BY <1>1, <2>1, <2>2, <2>3 DEF PlanInv, Passing
<1>7. CASE JitSend
  <2> DEFINE e == Elapsed(jpkt.count, Count(now))
  <2>1. /\ jpc = "send" /\ jpc' = "poll" /\ nodes' = nodes
        /\ tx'.stop = now + e + jpkt.post
    BY <1>7 DEF JitSend, queue_vars
  <2>2. e \in TX_START_DELAY .. TX_JIT_DELAY
    BY <2>1, SentNotLate DEF ProgrammedInTime
  <2>3. \A d \in OFFSETS : tx'.stop + TX_JIT_DELAY + 2 * DOWN_LAG <= now + d
    <3>1. SUFFICES ASSUME NEW d \in OFFSETS
                   PROVE  tx'.stop + TX_JIT_DELAY + 2 * DOWN_LAG <= now + d
      OBVIOUS
    <3>2. 2 * DOWN_LAG + 2 * TX_JIT_DELAY + jpkt.post <= d
      BY <2>1 DEF PlanInv, Passing, RoomFor
    <3>3. now \in Nat /\ jpkt.post \in Nat /\ d \in Int
      BY ScheduleTypes, AirTypes, ThreadConstants
    <3> HIDE DEF e
    <3> QED BY <2>1, <2>2, <3>2, <3>3, JitConstants, ThreadConstants
  <2> QED BY <1>1, <2>1, <2>3 DEF PlanInv, Passing
<1> QED BY <1>4, <1>5, <1>6, <1>7 DEF JitNext

\* thread_down carries the time stamp from the arrival to jit_enqueue.
LEMMA DownPlan ==
  ASSUME IInv, SInv, PlanInv, Punctual, PlansAhead, WithinReach, DownNext, IInv'
  PROVE  PlanInv'
<1>1. UNCHANGED <<now, tx, jtime, jpc, jpkt>> /\ Count(jtime)' = Count(jtime)
  BY DEF DownNext, DownRecv, DownBeacon, DownRefilled, DownFull, DownEnqueue, jit_vars, env_vars
<1>2. NoPacket.type = "NONE"
  BY DEF NoPacket
<1>3. CASE DownRecv
  <2>1. dtime' = now /\ dpc' = "refill" /\ nodes' = nodes
    BY <1>3 DEF DownRecv, queue_vars
  <2>2. dmsg'.type # "NONE" =>
          /\ dmsg'.type \in {"A", "B"}
          /\ \E d \in OFFSETS : dmsg'.count = Count(now + d)
          /\ RoomFor(PostDelay(dmsg'))
    <3>1. CASE dmsg' = NoPacket
      BY <1>2, <3>1
    <3>2. CASE \E type \in DOWN_TYPES, d \in OFFSETS, toa \in AIRTIMES :
                 dmsg' = [type |-> type, toa |-> toa,
                          count |-> IF type = "C" THEN 0 ELSE Count(now + d)]
      <4>1. PICK type \in DOWN_TYPES, d \in OFFSETS, toa \in AIRTIMES :
              dmsg' = [type |-> type, toa |-> toa,
                       count |-> IF type = "C" THEN 0 ELSE Count(now + d)]
        BY <3>2
      <4>2. type \in {"A", "B"} /\ RoomFor(toa)
        BY DEF PlansAhead
      <4>3. PostDelay(dmsg') = toa /\ dmsg'.count = Count(now + d) /\ dmsg'.type = type
        BY <4>1, <4>2 DEF PostDelay
      <4> QED BY <4>2, <4>3
    <3> QED BY <1>3, <3>1, <3>2 DEF DownRecv
  <2>3. Arrived'
    BY <2>1, <2>2 DEF Arrived
  <2> QED BY <1>1, <2>1, <2>3 DEF PlanInv, Passing
<1>4. CASE DownBeacon
  BY <1>4 DEF DownBeacon, Refilling, PlansAhead
<1>5. CASE DownRefilled
  <2>1. dmsg' = NoPacket /\ nodes' = nodes
        /\ \/ dpc' = "recv"
           \/ /\ dpc' = "full" /\ dtime' = now /\ dmsg # NoPacket
              /\ dmsg.type # "C" => dpkt' = dmsg
    BY <1>5, HandedOver DEF DownRefilled, queue_vars
  <2>2. ASSUME dpc' = "full"
        PROVE  /\ dmsg.type \in {"A", "B"}
               /\ \E d \in OFFSETS, lag \in 0 .. DOWN_LAG : dmsg.count = Count(now + (d - lag))
               /\ RoomFor(PostDelay(dmsg))
    <3>1. dmsg.type # "NONE"
      BY <2>1, <2>2 DEF IInv, TypeOK, Packet, PktType
    <3>2. PICK d \in OFFSETS : dmsg.count = Count(dtime + d)
      BY <3>1 DEF PlanInv, Arrived
    <3>3. dtime <= now /\ now - dtime <= DOWN_LAG /\ dtime \in Nat /\ now \in Nat /\ d \in Int
      BY <1>5, ScheduleTypes, ThreadConstants DEF DownRefilled, SInv, ClockRead
    <3>4. now - dtime \in 0 .. DOWN_LAG /\ now + (d - (now - dtime)) = dtime + d
      BY <3>3, ThreadConstants
    <3>5. dmsg.count = Count(now + (d - (now - dtime)))
      BY <3>2, <3>4
    <3> QED BY <3>1, <3>4, <3>5 DEF PlanInv, Arrived
  <2>3. Arrived'
    BY <1>2, <2>1, <2>2 DEF Arrived
  <2> QED BY <1>1, <2>1, <2>3 DEF PlanInv, Passing
<1>6. dpc \in {"full", "enqueue"} => dmsg.type = "NONE" /\ dpkt.type # "BEACON"
  BY DEF PlanInv, Arrived
<1>7. CASE DownFull
  <2>1. /\ dpc = "full" /\ nodes' = nodes /\ dmsg' = dmsg
        /\ \/ dpc' \in {"recv", "refill"}
           \/ dpc' = "enqueue" /\ dpkt' = dpkt /\ dtime' = dtime
    BY <1>7 DEF DownFull, DownAnswered, queue_vars
  <2>2. Arrived'
    BY <1>6, <2>1 DEF PlanInv, Arrived
  <2> QED BY <1>1, <2>1, <2>2 DEF PlanInv, Passing
<1>8. CASE DownEnqueue
  <2>1. dpc = "enqueue" /\ dmsg' = dmsg /\ dpc' \in {"recv", "refill"}
    BY <1>8 DEF DownEnqueue, DownAnswered
  <2>2. Arrived'
    BY <1>6, <2>1 DEF PlanInv, Arrived
  <2>3. \A k \in DOMAIN nodes' : RoomFor(nodes'[k].post)
    <3>1. CASE Answer # "OK"
      <4>1. nodes' = nodes
        BY <1>8, <3>1 DEF DownEnqueue, queue_vars
      <4> QED BY <4>1 DEF PlanInv, Passing
    <3>2. CASE Answer = "OK"
      <4>1. nodes' = Inserted(nodes, Judged)
        BY <1>8, <3>2 DEF DownEnqueue
      <4>2. Judged \in Packet /\ Ahead(Judged, Count(jtime)) < TX_MAX_ADVANCE_DELAY
        BY <2>1, <3>2, AcceptedAhead
      <4>3. \A k \in DOMAIN nodes' :
              nodes'[k] = NodeOf(Judged) \/ \E i \in DOMAIN nodes : nodes'[k] = nodes[i]
        <5>1. Disjoint(Inserted(nodes, Judged))
          BY <4>1 DEF IInv, NoOverlap
        <5>2. Within(nodes, Count(jtime))
          BY DEF SInv, InOrder
        <5> QED BY <4>1, <4>2, <5>1, <5>2, ScheduleTypes, InsertedOrder DEF Punctual
      <4>4. NodeOf(Judged).post = PostDelay(dpkt)
        <5>1. dpkt \in Packet
          BY <2>1 DEF IInv, CallArmed
        <5> QED BY <5>1, NodeOfIs, TimedPost DEF Judged
      <4>5. RoomFor(PostDelay(dpkt))
        BY <2>1 DEF PlanInv, Arrived
      <4> QED BY <4>3, <4>4, <4>5 DEF PlanInv, Passing
    <3> QED BY <3>1, <3>2
  <2> QED BY <1>1, <2>2, <2>3 DEF PlanInv, Passing
<1> QED BY <1>3, <1>4, <1>5, <1>7, <1>8 DEF DownNext

\* Every step keeps what is planned apart.
LEMMA NextPlan ==
  ASSUME Punctual, PlansAhead
  PROVE  IInv /\ SInv /\ PlanInv /\ WithinReach /\ [Next]_vars => PlanInv'
<1> SUFFICES ASSUME IInv, SInv, PlanInv, WithinReach, [Next]_vars PROVE PlanInv'
  OBVIOUS
<1>1. CASE Tick \/ GpsChange
  BY <1>1, EnvPlan
<1>2. CASE JitNext
  BY <1>2, JitPlan
<1>3. CASE DownNext
  BY <1>3, NextStep, DownPlan
<1>4. CASE UNCHANGED vars
  BY <1>4 DEF vars, PlanInv, Arrived, Passing
<1> QED BY <1>1, <1>2, <1>3, <1>4 DEF Next

\* With punctual threads, beacons off and a server that plans ahead the whole promise of the
\* queue holds, without any further condition: nothing is missed, packets leave in the order
\* in which they are due and in time, and the concentrator is free for each.
THEOREM PlannedIsSent ==
  ASSUME Punctual, PlansAhead
  PROVE  Spec => [](NeverMissed /\ NextFirst /\ ProgrammedInTime /\ ConcentratorFree)
<1> DEFINE All == IInv /\ SInv /\ AirInv /\ PlanInv
<1>1. Init => All
  BY InitIInv, InitSInv, InitAir, InitPlan DEF OneKind, PlansAhead
<1>2. All /\ [Next]_vars => All'
  BY PlanReaches, NextStep, NextSchedule, NextAir, NextPlan
<1>3. All => NeverMissed /\ NextFirst /\ ProgrammedInTime /\ ConcentratorFree
  BY NothingOutdated, SoonestTakenOut, SentNotLate, AirFree DEF NeverMissed
<1> QED BY <1>1, <1>2, <1>3, PTL DEF Spec

-----------------------------------------------------------------------------
(* Immediate downlinks.                                                    *)

\* The counter has room for a packet that reserves `post' behind all that is queued.
FitsIn(post) ==
  2 * (TX_MAX_ADVANCE_DELAY + post + 2 * (TX_START_DELAY + TX_JIT_DELAY + TX_MARGIN_DELAY))
    <= COUNTER_RANGE

\* What the ASAP search relies on: one second is more than criteria 1 asks for, the counter
\* has room behind the queue, and no slot behind a node is behind the beacon that follows as
\* well, with the JiT delay the new packet keeps from the node.
SlotRoom ==
  /\ TX_JIT_DELAY > 0
  /\ TX_JIT_DELAY <= BEACON_RESERVED + TX_START_DELAY + TX_MARGIN_DELAY + 1
  /\ ASAP_DELAY > TX_START_DELAY + TX_MARGIN_DELAY + TX_JIT_DELAY
  /\ ASAP_DELAY <= TX_MAX_ADVANCE_DELAY
  /\ FitsIn(BEACON_RESERVED)
  /\ \A toa \in AIRTIMES : FitsIn(toa)

\* Every node reserves what jit_enqueue computed for its type.
Genuine(q) ==
  \A i \in DOMAIN q :
    /\ q[i].pre = PreDelay(q[i].type)
    /\ q[i].type = "BEACON" => q[i].post = BEACON_RESERVED
    /\ FitsIn(q[i].post)

\* All nodes but the beacons are as far behind the others as Separate says: only the guard of
\* a beacon is not tested whole.
Spread(q) ==
  \A i, j \in DOMAIN q : q[i].count # q[j].count /\ q[j].type # "BEACON" =>
    Elapsed(q[j].count, q[i].count)
      > q[i].post + TX_START_DELAY + TX_JIT_DELAY + TX_MARGIN_DELAY

\* The time stamp the ASAP search tries first comes from the time thread_down has read.
Tried ==
  dpc \in {"full", "enqueue"} /\ dpkt.type = "C" => dpkt.count \in AsapTimes(Count(dtime))

\* The invariant of the ASAP search, on top of IInv and SInv.
SlotInv ==
  /\ Genuine(nodes) /\ Spread(nodes)
  /\ dmsg.type # "NONE" => FitsIn(PostDelay(dmsg))
  /\ dpkt.type # "NONE" => FitsIn(PostDelay(dpkt))
  /\ Tried

\* Initially there is nothing to find a slot among.
LEMMA InitSlot == Init => SlotInv
<1> SUFFICES ASSUME Init PROVE SlotInv
  OBVIOUS
<1>1. DOMAIN nodes = {} /\ dmsg.type = "NONE" /\ dpkt.type = "NONE"
  BY DEF Init, NoPacket
<1> QED BY <1>1 DEF SlotInv, Genuine, Spread, Tried

\* The steps of thread_down up to the call of jit_enqueue take over packets that fit.
LEMMA DownSlot ==
  ASSUME SlotRoom, IInv, SlotInv, DownRecv \/ DownBeacon \/ DownRefilled \/ DownFull
  PROVE  SlotInv'
<1>1. nodes' = nodes
  BY DEF DownRecv, DownBeacon, DownRefilled, DownFull, queue_vars
<1>2. (Genuine(nodes) /\ Spread(nodes))'
  BY <1>1 DEF SlotInv, Genuine, Spread
<1>3. NoPacket.type = "NONE"
  BY DEF NoPacket
<1> SUFFICES /\ dmsg'.type # "NONE" => FitsIn(PostDelay(dmsg'))
             /\ dpkt'.type # "NONE" => FitsIn(PostDelay(dpkt'))
             /\ Tried'
  BY <1>2 DEF SlotInv
<1>4. CASE DownRecv
  <2>1. dpkt' = dpkt /\ Tried'
    BY <1>4 DEF DownRecv, Tried
  <2>2. CASE dmsg' = NoPacket
    BY <1>3, <2>1, <2>2 DEF SlotInv
  <2>3. CASE \E type \in DOWN_TYPES, d \in OFFSETS, toa \in AIRTIMES :
               dmsg' = [type |-> type, toa |-> toa,
                        count |-> IF type = "C" THEN 0 ELSE Count(now + d)]
    <3>1. PICK type \in DOWN_TYPES, d \in OFFSETS, toa \in AIRTIMES :
            dmsg' = [type |-> type, toa |-> toa,
                     count |-> IF type = "C" THEN 0 ELSE Count(now + d)]
      BY <2>3
    <3>2. type # "BEACON"
      BY ThreadConstants
    <3>3. PostDelay(dmsg') = toa
      BY <3>1, <3>2 DEF PostDelay
    <3> QED BY <2>1, <3>3 DEF SlotInv, SlotRoom
  <2> QED BY <1>4, <2>2, <2>3 DEF DownRecv
<1>5. CASE DownBeacon
  <2>1. dmsg' = dmsg /\ dpkt'.type = "BEACON"
    BY <1>5 DEF DownBeacon
  <2>2. PostDelay(dpkt') = BEACON_RESERVED
    BY <2>1 DEF PostDelay
  <2> QED BY <2>1, <2>2 DEF SlotInv, SlotRoom, Tried
<1>6. CASE DownRefilled
  <2>1. CASE dpc' = "recv"
    BY <1>3, <1>6, <2>1 DEF DownRefilled, SlotInv, Tried
  <2>2. CASE dpc' # "recv"
    <3>1. /\ dmsg' = NoPacket /\ dtime' = now /\ PostDelay(dpkt') = PostDelay(dmsg)
          /\ dmsg.type # "NONE"
          /\ dpkt'.type = "C" => dpkt'.count \in AsapTimes(Count(now))
      BY <1>6, <2>2, HandedOver DEF DownRefilled, Packet, PktType
    <3>2. Tried'
      BY <3>1 DEF Tried, Count
    <3> QED BY <1>3, <3>1, <3>2 DEF SlotInv
  <2> QED BY <2>1, <2>2
<1>7. CASE DownFull
  <2>1. /\ dmsg' = dmsg
        /\ \/ dpkt' = NoPacket
           \/ dpkt' = dpkt /\ dtime' = dtime /\ dpc = "full"
    BY <1>7 DEF DownFull, DownAnswered
  <2>2. Tried'
    BY <1>3, <2>1 DEF SlotInv, Tried, Count
  <2> QED BY <1>3, <2>1, <2>2 DEF SlotInv
<1> QED BY <1>4, <1>5, <1>6, <1>7

\* What is left of a queue when nodes are taken out is still genuine and spread.
LEMMA PartSlot ==
  ASSUME NEW q \in Seq(Node), NEW s \in Seq(Node), Genuine(q), Spread(q),
         \A k \in DOMAIN s : \E j \in DOMAIN q : s[k] = q[j]
  PROVE  Genuine(s) /\ Spread(s)
<1>1. Genuine(s)
  <2>1. SUFFICES ASSUME NEW k \in DOMAIN s
                 PROVE  /\ s[k].pre = PreDelay(s[k].type)
                        /\ s[k].type = "BEACON" => s[k].post = BEACON_RESERVED
                        /\ FitsIn(s[k].post)
    BY DEF Genuine
  <2>2. PICK j \in DOMAIN q : s[k] = q[j]
    OBVIOUS
  <2> QED BY <2>2 DEF Genuine
<1>2. Spread(s)
  <2>1. SUFFICES ASSUME NEW i \in DOMAIN s, NEW j \in DOMAIN s,
                        s[i].count # s[j].count, s[j].type # "BEACON"
                 PROVE  Elapsed(s[j].count, s[i].count)
                          > s[i].post + TX_START_DELAY + TX_JIT_DELAY + TX_MARGIN_DELAY
    BY DEF Spread
  <2>2. PICK k \in DOMAIN q : s[i] = q[k]
    OBVIOUS
  <2>3. PICK l \in DOMAIN q : s[j] = q[l]
    OBVIOUS
  <2> QED BY <2>1, <2>2, <2>3 DEF Spread
<1> QED BY <1>1, <1>2

\* jit_enqueue adds a genuine node, spread from the others.
LEMMA EnqueueSlot ==
  ASSUME IInv, SInv, SlotInv, Punctual, WithinReach, DownEnqueue, IInv'
  PROVE  SlotInv'
<1> DEFINE t == Count(jtime)
<1>1. dpc = "enqueue" /\ dmsg' = dmsg /\ dpkt' = NoPacket /\ NoPacket.type = "NONE"
  BY DEF DownEnqueue, DownAnswered, NoPacket
<1>2. SUFFICES (Genuine(nodes) /\ Spread(nodes))'
  BY <1>1 DEF SlotInv, Tried
<1>3. CASE Answer # "OK"
  <2>1. nodes' = nodes
    BY <1>3 DEF DownEnqueue, queue_vars
  <2> QED BY <2>1 DEF SlotInv, Genuine, Spread
<1>4. CASE Answer = "OK"
  <2> DEFINE new == NodeOf(Judged)
  <2>1. Judged \in Packet /\ Ahead(Judged, t) < TX_MAX_ADVANCE_DELAY
    BY <1>1, <1>4, AcceptedAhead
  <2>2. nodes' = Inserted(nodes, Judged)
    BY <1>4 DEF DownEnqueue
  <2>3. \A k \in DOMAIN nodes' : nodes'[k] = new \/ \E i \in DOMAIN nodes : nodes'[k] = nodes[i]
    <3>1. Disjoint(Inserted(nodes, Judged))
      BY <2>2 DEF IInv, NoOverlap
    <3>2. Within(nodes, t)
      BY DEF SInv, InOrder
    <3>3. t \in Counter /\ nodes \in Seq(Node)
      BY ScheduleTypes
    <3> HIDE DEF t
    <3> QED BY <2>1, <2>2, <3>1, <3>2, <3>3, InsertedOrder DEF Punctual
  <2>4. new.count = Judged.count /\ new.post = PostDelay(Judged) /\ new.type = Judged.type
        /\ new.pre = PreDelay(Judged.type)
    BY NodeOfIs
  <2>5. FitsIn(new.post)
    <3>1. dpkt \in Packet /\ dpkt.type # "NONE"
      BY <1>1 DEF IInv, CallArmed, Packet, PktType
    <3>2. PostDelay(Judged) = PostDelay(dpkt)
      BY <3>1, TimedPost DEF Judged
    <3> QED BY <2>4, <3>1, <3>2 DEF SlotInv
  <2>6. new.type = "BEACON" => new.post = BEACON_RESERVED
    BY <2>4 DEF PostDelay
  <2>7. \A i \in DOMAIN nodes :
          /\ Elapsed(new.count, nodes[i].count)
               > nodes[i].post + TX_START_DELAY + TX_JIT_DELAY + TX_MARGIN_DELAY
          /\ nodes[i].type # "BEACON" =>
               Elapsed(nodes[i].count, new.count)
                 > new.post + TX_START_DELAY + TX_JIT_DELAY + TX_MARGIN_DELAY
    <3>1. nodes \in Seq(Node)
      BY ScheduleTypes
    <3>2. Reserved(nodes)
      BY JitConstants DEF SlotInv, Genuine, Reserved, PreDelay
    <3>3. Verdict(nodes, Count(dtime), Judged) = "OK"
      BY <1>4 DEF Answer
    <3> HIDE DEF new
    <3> QED BY <2>1, <2>4, <3>1, <3>2, <3>3, AcceptedSeparate
  <2> HIDE DEF new
  <2>8. Genuine(nodes')
    <3>1. SUFFICES ASSUME NEW k \in DOMAIN nodes'
                   PROVE  /\ nodes'[k].pre = PreDelay(nodes'[k].type)
                          /\ nodes'[k].type = "BEACON" => nodes'[k].post = BEACON_RESERVED
                          /\ FitsIn(nodes'[k].post)
      BY DEF Genuine
    <3>2. CASE nodes'[k] = new
      BY <2>4, <2>5, <2>6, <3>2
    <3>3. CASE \E i \in DOMAIN nodes : nodes'[k] = nodes[i]
      BY <3>3 DEF SlotInv, Genuine
    <3> QED BY <2>3, <3>2, <3>3
  <2>9. Spread(nodes')
    <3>1. SUFFICES ASSUME NEW i \in DOMAIN nodes', NEW j \in DOMAIN nodes',
                          nodes'[i].count # nodes'[j].count, nodes'[j].type # "BEACON"
                   PROVE  Elapsed(nodes'[j].count, nodes'[i].count)
                            > nodes'[i].post + TX_START_DELAY + TX_JIT_DELAY + TX_MARGIN_DELAY
      BY DEF Spread
    <3>2. CASE nodes'[i] = new /\ nodes'[j] = new
      BY <3>1, <3>2
    <3>3. CASE nodes'[i] = new /\ \E l \in DOMAIN nodes : nodes'[j] = nodes[l]
      BY <2>7, <3>1, <3>3
    <3>4. CASE nodes'[j] = new /\ \E k \in DOMAIN nodes : nodes'[i] = nodes[k]
      BY <2>7, <3>4
    <3>5. CASE /\ \E k \in DOMAIN nodes : nodes'[i] = nodes[k]
               /\ \E l \in DOMAIN nodes : nodes'[j] = nodes[l]
      <4>1. PICK k \in DOMAIN nodes : nodes'[i] = nodes[k]
        BY <3>5
      <4>2. PICK l \in DOMAIN nodes : nodes'[j] = nodes[l]
        BY <3>5
      <4> QED BY <3>1, <4>1, <4>2 DEF SlotInv, Spread
    <3> QED BY <2>3, <3>2, <3>3, <3>4, <3>5
  <2> QED BY <2>8, <2>9
<1> QED BY <1>3, <1>4

\* Every step of punctual threads keeps the invariant.
LEMMA NextSlot ==
  ASSUME Punctual, SlotRoom
  PROVE  IInv /\ SInv /\ SlotInv /\ WithinReach /\ [Next]_vars => SlotInv'
<1> SUFFICES ASSUME IInv, SInv, SlotInv, WithinReach, [Next]_vars PROVE SlotInv'
  OBVIOUS
<1>1. CASE \/ Tick \/ GpsChange \/ JitPoll \/ JitPeekEmpty \/ JitPeekLock \/ JitPick
           \/ JitDequeueEmpty \/ JitStatus \/ JitSend \/ JitSendFail \/ UNCHANGED vars
  <2>1. UNCHANGED <<nodes, dmsg, dpkt, dpc, dtime>>
    BY <1>1 DEF Tick, GpsChange, JitPoll, JitPeekEmpty, JitPeekLock, JitPick,
       JitDequeueEmpty, JitStatus, JitSend, JitSendFail, vars, queue_vars, down_vars
  <2> QED BY <2>1 DEF SlotInv, Genuine, Spread, Tried, Count
<1>2. CASE JitPurge
  BY <1>2, NothingOutdated DEF JitPurge, SInv, Chosen
<1>3. CASE JitDequeue
  <2> DEFINE t == Count(jtime)
  <2>1. jidx = 1 /\ 1 \in DOMAIN nodes /\ nodes' = Removed(nodes, 1) /\ UNCHANGED <<dmsg, dpkt, dpc, dtime>>
    BY <1>3 DEF JitDequeue, SInv, Chosen, IInv, IndexInRange, down_vars
  <2>2. Within(nodes, t)
    BY DEF SInv, InOrder
  <2>3. \A k \in DOMAIN nodes' : \E j \in DOMAIN nodes : nodes'[k] = nodes[j]
    BY <2>1, <2>2, ScheduleTypes, RemovedOrder DEF Punctual
  <2>4. nodes \in Seq(Node) /\ nodes' \in Seq(Node)
    BY NextStep DEF IInv, TypeOK
  <2>5. Genuine(nodes') /\ Spread(nodes')
    BY <2>3, <2>4, PartSlot DEF SlotInv
  <2> QED BY <2>1, <2>5 DEF SlotInv, Tried, Count
<1>4. CASE DownRecv \/ DownBeacon \/ DownRefilled \/ DownFull
  BY <1>4, DownSlot
<1>5. CASE DownEnqueue
  BY <1>5, NextStep, EnqueueSlot
<1> QED BY <1>1, <1>2, <1>3, <1>4, <1>5 DEF Next, JitNext, DownNext

\* What is due later by less than a turn of the counter has the longer lead.
LEMMA LeadGrows ==
  ASSUME NEW a \in Counter, NEW time \in Counter, NEW k \in Nat,
         Elapsed(a, time) + k < COUNTER_RANGE
  PROVE  /\ (a + k) % COUNTER_RANGE \in Counter
         /\ Elapsed((a + k) % COUNTER_RANGE, time) = Elapsed(a, time) + k
<1> DEFINE x == a + k
           c == x % COUNTER_RANGE
           e == Elapsed(a, time)
<1>1. COUNTER_RANGE \in Nat \ {0} /\ a \in Int /\ time \in Int /\ x \in Int
  BY JitConstants DEF Counter
<1>2. e \in Nat
  BY <1>1, ElapsedType
<1>3. PICK m \in Int : a - time = COUNTER_RANGE * m + e
  BY <1>1, ElapsedTurns
<1> HIDE DEF x, e
<1>4. x \div COUNTER_RANGE \in Int /\ c \in Int /\ c \in Counter
      /\ x = COUNTER_RANGE * (x \div COUNTER_RANGE) + c
  <2>1. x \div COUNTER_RANGE \in Int /\ x = COUNTER_RANGE * (x \div COUNTER_RANGE) + c
    BY <1>1, DivMod
  <2>2. c \in 0 .. COUNTER_RANGE - 1
    BY <1>1
  <2> QED BY <1>1, <2>1, <2>2 DEF Counter
<1> DEFINE n == x \div COUNTER_RANGE
           w == m - n
<1> HIDE DEF c
<1>5. w \in Int /\ COUNTER_RANGE * w = COUNTER_RANGE * m - COUNTER_RANGE * n
  BY <1>1, <1>4
<1>6. c - time = COUNTER_RANGE * w + (e + k)
  <2> DEFINE y == COUNTER_RANGE * m
             z == COUNTER_RANGE * n
             v == COUNTER_RANGE * w
  <2>1. y \in Int /\ z \in Int /\ v = y - z /\ x = z + c /\ a - time = y + e
    BY <1>1, <1>3, <1>4, <1>5
  <2>2. x = a + k
    BY DEF x
  <2> HIDE DEF y, z, v, w, n
  <2>3. c - time = v + (e + k)
    BY <1>1, <1>2, <1>4, <2>1, <2>2
  <2> QED BY <2>3 DEF v
<1> HIDE DEF w
<1> DEFINE f == e + k
<1>7. f \in Int /\ 0 <= f /\ f < COUNTER_RANGE
  BY <1>2 DEF e
<1> HIDE DEF f
<1>8. c - time = COUNTER_RANGE * w + f
  BY <1>6 DEF f
<1>9. Elapsed(c, time) = f
  BY <1>1, <1>4, <1>5, <1>7, <1>8, ElapsedIs
<1> QED BY <1>4, <1>9 DEF c, e, f, x

\* A genuine node asks of a Class C packet no more than the start and the JiT delay, and it
\* fits.
LEMMA GenuineNode ==
  ASSUME NEW q \in Seq(Node), NEW i \in DOMAIN q, Genuine(q)
  PROVE  /\ q[i] \in Node /\ q[i].count \in Counter /\ q[i].post \in Nat /\ q[i].pre \in Nat
         /\ TargetPreDelay(q[i], "C") \in Nat
         /\ TargetPreDelay(q[i], "C") <= TX_START_DELAY + TX_JIT_DELAY
         /\ TX_START_DELAY + TX_JIT_DELAY <= q[i].pre
         /\ TargetPreDelay(q[i], "C") <= q[i].pre
         /\ q[i].type = "BEACON" => q[i].post = BEACON_RESERVED
         /\ FitsIn(q[i].post)
<1>1. q[i] \in Node
  OBVIOUS
<1>2. q[i].count \in Counter /\ q[i].post \in Nat /\ q[i].pre \in Nat
  BY <1>1 DEF Node
<1>3. /\ q[i].pre = PreDelay(q[i].type)
      /\ q[i].type = "BEACON" => q[i].post = BEACON_RESERVED
      /\ FitsIn(q[i].post)
  BY DEF Genuine
<1>4. /\ q[i].type = "BEACON" => TargetPreDelay(q[i], "C") = TX_START_DELAY
      /\ q[i].type # "BEACON" => TargetPreDelay(q[i], "C") = q[i].pre
  BY DEF TargetPreDelay
<1>5. CASE q[i].type = "BEACON"
  <2>1. q[i].pre = TX_START_DELAY + TX_JIT_DELAY + BEACON_GUARD
    BY <1>3, <1>5 DEF PreDelay
  <2> QED BY <1>1, <1>2, <1>3, <1>4, <1>5, <2>1, JitConstants
<1>6. CASE q[i].type # "BEACON"
  <2>1. q[i].pre = TX_START_DELAY + TX_JIT_DELAY
    BY <1>3, <1>6, JitConstants DEF PreDelay
  <2> QED BY <1>1, <1>2, <1>3, <1>4, <1>6, <2>1, JitConstants
<1> QED BY <1>5, <1>6

\* The slot behind node i lies before the node that follows, if it is clear of it: behind it,
\* too, it could only be if that reserved less than the JiT delay the slot keeps from node i.
LEMMA SlotBefore ==
  ASSUME SlotRoom, NEW q \in Seq(Node), NEW time \in Counter,
         Ordered(q, time), Disjoint(q), Genuine(q), Spread(q),
         NEW i \in DOMAIN q, i + 1 \in DOMAIN q, NEW c \in Counter,
         Elapsed(c, time) = Ahead(q[i], time) + q[i].post + TX_START_DELAY + 2 * TX_JIT_DELAY
                              + TX_MARGIN_DELAY,
         Elapsed(c, q[i + 1].count)
           > TX_START_DELAY + TX_JIT_DELAY + q[i + 1].post + TX_MARGIN_DELAY
  PROVE  Elapsed(c, time) < Ahead(q[i + 1], time)
<1> DEFINE p == q[i]
           r == q[i + 1]
           ep == Ahead(p, time)
           er == Ahead(r, time)
           lead == Elapsed(c, time)
<1>1. /\ p \in Node /\ p.count \in Counter /\ p.post \in Nat
      /\ r \in Node /\ r.count \in Counter /\ r.post \in Nat
      /\ r.type = "BEACON" => r.post = BEACON_RESERVED
  BY GenuineNode
<1>2. ep \in Nat /\ er \in Nat /\ lead \in Nat
  <2>1. p.count \in Int /\ r.count \in Int /\ c \in Int /\ time \in Int
    BY <1>1 DEF Counter
  <2> QED BY <2>1, ElapsedType DEF Ahead
<1>3. ep < er
  <2>1. i \in Nat /\ i < i + 1
    OBVIOUS
  <2> QED BY <2>1 DEF Ordered
<1>4. Apart(p, r)
  <2>1. i \in Nat /\ i # i + 1
    OBVIOUS
  <2> QED BY <2>1 DEF Disjoint
<1>5. r.type # "BEACON" /\ p.count # r.count =>
        Elapsed(r.count, p.count) > p.post + TX_START_DELAY + TX_JIT_DELAY + TX_MARGIN_DELAY
  BY DEF Spread
<1>6. /\ lead = ep + p.post + TX_START_DELAY + 2 * TX_JIT_DELAY + TX_MARGIN_DELAY
      /\ Elapsed(c, r.count) > TX_START_DELAY + TX_JIT_DELAY + r.post + TX_MARGIN_DELAY
  OBVIOUS
<1>7. lead >= er => Elapsed(c, r.count) = lead - er
  BY <1>1, LeadDistance DEF Ahead
<1>8. p.count # r.count
  BY <1>2, <1>3 DEF Ahead
<1> HIDE DEF p, r
<1>9. Elapsed(r.count, p.count) = er - ep
  BY <1>1, <1>2, <1>3, NodeDistance
<1> DEFINE pp == p.post
           rp == r.post
<1> HIDE DEF ep, er, lead
<1>10. SUFFICES ASSUME lead >= er PROVE FALSE
  BY <1>2 DEF lead, er, r
<1>11. lead - er > TX_START_DELAY + TX_JIT_DELAY + r.post + TX_MARGIN_DELAY
  BY <1>6, <1>7, <1>10
<1>12. er - ep < p.post + TX_JIT_DELAY - r.post
  <2>1. /\ pp \in Nat /\ rp \in Nat
        /\ lead = ep + pp + TX_START_DELAY + 2 * TX_JIT_DELAY + TX_MARGIN_DELAY
        /\ lead - er > TX_START_DELAY + TX_JIT_DELAY + rp + TX_MARGIN_DELAY
    BY <1>1, <1>6, <1>11
  <2> HIDE DEF pp, rp
  <2>2. er - ep < pp + TX_JIT_DELAY - rp
    BY <1>2, <2>1, JitConstants
  <2> QED BY <2>2 DEF pp, rp
<1>13. CASE r.type # "BEACON"
  <2>1. er - ep > p.post + TX_START_DELAY + TX_JIT_DELAY + TX_MARGIN_DELAY
    BY <1>5, <1>8, <1>9, <1>13
  <2> QED BY <1>1, <1>2, <1>12, <2>1, JitConstants
<1>14. CASE r.type = "BEACON"
  <2>1. er - ep > p.post + TX_START_DELAY + TX_MARGIN_DELAY
    BY <1>4, <1>9 DEF Apart
  <2>2. r.post = BEACON_RESERVED
    BY <1>1, <1>14
  <2>3. TX_JIT_DELAY <= BEACON_RESERVED + TX_START_DELAY + TX_MARGIN_DELAY + 1
    BY DEF SlotRoom
  <2> QED BY <1>1, <1>2, <1>12, <2>1, <2>2, <2>3, JitConstants
<1> QED BY <1>13, <1>14

\* The slot behind node i is clear of all nodes, if it is clear of the next: the nodes before
\* end sooner, and the later ones ask for no more than the next does.
LEMMA SlotClear ==
  ASSUME SlotRoom, NEW q \in Seq(Node), NEW time \in Counter,
         Ordered(q, time), Within(q, time), Disjoint(q), Genuine(q), Spread(q),
         NEW post \in Nat, FitsIn(post), NEW i \in DOMAIN q, NEW c \in Counter,
         Elapsed(c, time) = Ahead(q[i], time) + q[i].post + TX_START_DELAY + 2 * TX_JIT_DELAY
                              + TX_MARGIN_DELAY,
         i + 1 \in DOMAIN q =>
           ~jit_collision_test(c, TX_START_DELAY + TX_JIT_DELAY, post,
                               q[i + 1].count, q[i + 1].pre, q[i + 1].post),
         NEW j \in DOMAIN q
  PROVE  ~jit_collision_test(c, TX_START_DELAY + TX_JIT_DELAY, post,
                             q[j].count, TargetPreDelay(q[j], "C"), q[j].post)
<1> DEFINE lead == Elapsed(c, time)
           ei == Ahead(q[i], time)
           ej == Ahead(q[j], time)
           pi == q[i].post
           pj == q[j].post
           asked == TargetPreDelay(q[j], "C")
           to == Elapsed(c, q[j].count)
           from == Elapsed(q[j].count, c)
<1>1. SUFFICES /\ to > TX_START_DELAY + TX_JIT_DELAY + pj + TX_MARGIN_DELAY
               /\ from > asked + post + TX_MARGIN_DELAY
  <2>1. to \in Nat /\ from \in Nat /\ pj \in Nat /\ asked \in Nat
    <3>1. q[j].count \in Int /\ c \in Int /\ pj \in Nat /\ asked \in Nat
      BY GenuineNode DEF Counter
    <3> QED BY <3>1, ElapsedType
  <2>2. /\ ~(to <= TX_START_DELAY + TX_JIT_DELAY + pj + TX_MARGIN_DELAY)
        /\ ~(from <= asked + post + TX_MARGIN_DELAY)
    <3> HIDE DEF to, from, pj, asked
    <3> QED BY <1>1, <2>1, JitConstants
  <2> QED BY <2>2 DEF jit_collision_test
<1>2. /\ q[i] \in Node /\ q[i].count \in Counter /\ pi \in Nat /\ FitsIn(pi)
      /\ q[j] \in Node /\ q[j].count \in Counter /\ pj \in Nat /\ FitsIn(pj)
      /\ asked \in Nat /\ asked <= TX_START_DELAY + TX_JIT_DELAY
      /\ i \in Nat /\ j \in Nat /\ Len(q) \in Nat /\ DOMAIN q = 1 .. Len(q)
  BY GenuineNode
<1>3. ei \in Nat /\ ej \in Nat /\ lead \in Nat
  <2>1. q[i].count \in Int /\ q[j].count \in Int /\ c \in Int /\ time \in Int
    BY <1>2 DEF Counter
  <2> QED BY <2>1, ElapsedType DEF Ahead
<1>4. ei < TX_MAX_ADVANCE_DELAY /\ ej < TX_MAX_ADVANCE_DELAY
  BY DEF Within
<1>5. lead = ei + pi + TX_START_DELAY + 2 * TX_JIT_DELAY + TX_MARGIN_DELAY
  OBVIOUS
<1>6. /\ lead >= ej => to = lead - ej
      /\ lead > ej => from = COUNTER_RANGE - (lead - ej)
      /\ ej > lead => from = ej - lead /\ to = COUNTER_RANGE - (ej - lead)
  <2>1. /\ lead >= ej => to = lead - ej
        /\ lead < ej => to = COUNTER_RANGE - (ej - lead)
    BY <1>2, LeadDistance DEF Ahead
  <2>2. /\ ej >= lead => from = ej - lead
        /\ ej < lead => from = COUNTER_RANGE - (lead - ej)
    BY <1>2, LeadDistance DEF Ahead
  <2> HIDE DEF lead, ej, to, from
  <2> QED BY <1>3, <2>1, <2>2
<1>7. /\ 2 * (TX_MAX_ADVANCE_DELAY + pi + 2 * (TX_START_DELAY + TX_JIT_DELAY + TX_MARGIN_DELAY))
           <= COUNTER_RANGE
      /\ 2 * (TX_MAX_ADVANCE_DELAY + pj + 2 * (TX_START_DELAY + TX_JIT_DELAY + TX_MARGIN_DELAY))
           <= COUNTER_RANGE
      /\ 2 * (TX_MAX_ADVANCE_DELAY + post + 2 * (TX_START_DELAY + TX_JIT_DELAY + TX_MARGIN_DELAY))
           <= COUNTER_RANGE
      /\ TX_JIT_DELAY > 0
  BY <1>2 DEF FitsIn, SlotRoom
<1>8. CASE j <= i
  <2>1. lead - ej > TX_START_DELAY + TX_JIT_DELAY + pj + TX_MARGIN_DELAY
    <3>1. CASE j = i
      <4>1. ej = ei /\ pj = pi
        BY <3>1
      <4> HIDE DEF lead, ei, ej, pi, pj
      <4> QED BY <1>2, <1>3, <1>5, <1>7, <4>1, JitConstants
    <3>2. CASE j < i
      <4>1. ej < ei
        BY <3>2 DEF Ordered
      <4>2. Apart(q[j], q[i])
        BY <1>2, <3>2 DEF Disjoint
      <4>3. Elapsed(q[i].count, q[j].count) = ei - ej
        BY <1>2, <1>3, <4>1, NodeDistance
      <4>4. ei - ej > pj + TX_START_DELAY + TX_MARGIN_DELAY
        BY <4>2, <4>3 DEF Apart
      <4> HIDE DEF lead, ei, ej, pi, pj
      <4> QED BY <1>2, <1>3, <1>5, <4>4, JitConstants
    <3> QED BY <1>2, <1>8, <3>1, <3>2
  <2> HIDE DEF lead, ei, ej, pi, pj, asked, to, from
  <2>2. lead > ej /\ to = lead - ej /\ from = COUNTER_RANGE - (lead - ej)
    BY <1>2, <1>3, <1>6, <2>1, JitConstants
  <2>3. from > asked + post + TX_MARGIN_DELAY
    BY <1>2, <1>3, <1>4, <1>5, <1>7, <2>2, JitConstants
  <2> QED BY <2>1, <2>2, <2>3
<1>9. CASE j > i
  <2> DEFINE n == i + 1
             en == Ahead(q[n], time)
             pn == q[n].post
  <2>1. n \in DOMAIN q /\ n <= j
    BY <1>2, <1>9
  <2>2. /\ q[n] \in Node /\ q[n].count \in Counter /\ pn \in Nat /\ q[n].pre \in Nat
        /\ TX_START_DELAY + TX_JIT_DELAY <= q[n].pre
    BY <2>1, GenuineNode
  <2>3. en \in Nat
    <3>1. q[n].count \in Int /\ time \in Int
      BY <2>2 DEF Counter
    <3> QED BY <3>1, ElapsedType DEF Ahead
  <2>4. /\ Elapsed(c, q[n].count) > TX_START_DELAY + TX_JIT_DELAY + pn + TX_MARGIN_DELAY
        /\ Elapsed(q[n].count, c) > q[n].pre + post + TX_MARGIN_DELAY
    <3> DEFINE u == Elapsed(c, q[n].count)
               v == Elapsed(q[n].count, c)
               w == q[n].pre
    <3>1. u \in Nat /\ v \in Nat /\ w \in Nat
      <4>1. q[n].count \in Int /\ c \in Int
        BY <2>2 DEF Counter
      <4> QED BY <2>2, <4>1, ElapsedType
    <3>2. /\ ~(u <= TX_START_DELAY + TX_JIT_DELAY + pn + TX_MARGIN_DELAY)
          /\ ~(v <= w + post + TX_MARGIN_DELAY)
      BY <2>1 DEF jit_collision_test
    <3> HIDE DEF u, v, w, pn
    <3>3. /\ u > TX_START_DELAY + TX_JIT_DELAY + pn + TX_MARGIN_DELAY
          /\ v > w + post + TX_MARGIN_DELAY
      BY <2>2, <3>1, <3>2, JitConstants
    <3> QED BY <3>3 DEF u, v, w
  <2>5. lead < en
    BY <1>5, <2>1, <2>4, SlotBefore
  <2>6. Elapsed(q[n].count, c) = en - lead
    BY <1>3, <2>2, <2>3, <2>5, LeadDistance DEF Ahead
  <2>7. en <= ej
    <3>1. CASE n = j
      BY <1>3, <3>1
    <3>2. CASE n < j
      <4>1. en < ej
        BY <2>1, <3>2 DEF Ordered
      <4> QED BY <1>3, <2>3, <4>1
    <3> QED BY <1>2, <2>1, <3>1, <3>2
  <2> DEFINE w == q[n].pre
  <2>8. w \in Nat /\ TX_START_DELAY + TX_JIT_DELAY <= w /\ en - lead > w + post + TX_MARGIN_DELAY
    BY <2>2, <2>4, <2>6
  <2> HIDE DEF lead, ei, ej, en, pi, pj, asked, to, from, w
  <2>9. ej > lead /\ from = ej - lead /\ to = COUNTER_RANGE - (ej - lead)
    BY <1>3, <1>6, <2>3, <2>5, <2>7
  <2>10. from > asked + post + TX_MARGIN_DELAY
    BY <1>2, <1>3, <2>3, <2>7, <2>8, <2>9, JitConstants
  <2>11. to > TX_START_DELAY + TX_JIT_DELAY + pj + TX_MARGIN_DELAY
    BY <1>2, <1>3, <1>4, <1>7, <2>9, JitConstants
  <2> QED BY <2>10, <2>11
<1> QED BY <1>2, <1>8, <1>9

\* A slot that is clear of a node stays clear of it when its guard is not asked for.
LEMMA FirstClear ==
  ASSUME NEW q \in Seq(Node), Genuine(q), NEW post \in Nat, NEW c \in Counter,
         NEW j \in DOMAIN q,
         ~jit_collision_test(c, TX_START_DELAY + TX_JIT_DELAY, post, q[j].count, q[j].pre, q[j].post)
  PROVE  ~jit_collision_test(c, TX_START_DELAY + TX_JIT_DELAY, post,
                             q[j].count, TargetPreDelay(q[j], "C"), q[j].post)
<1> DEFINE asked == TargetPreDelay(q[j], "C")
           pre == q[j].pre
           from == Elapsed(q[j].count, c)
<1>1. q[j].count \in Counter /\ pre \in Nat /\ asked \in Nat /\ asked <= pre
  BY GenuineNode
<1>2. from \in Nat
  <2>1. q[j].count \in Int /\ c \in Int
    BY <1>1 DEF Counter
  <2> QED BY <2>1, ElapsedType
<1>3. /\ ~(Elapsed(c, q[j].count) <= TX_START_DELAY + TX_JIT_DELAY + q[j].post + TX_MARGIN_DELAY)
      /\ ~(from <= pre + post + TX_MARGIN_DELAY)
  BY DEF jit_collision_test
<1>4. ~(from <= asked + post + TX_MARGIN_DELAY)
  <2> HIDE DEF asked, pre, from
  <2> QED BY <1>1, <1>2, <1>3, JitConstants
<1> QED BY <1>3, <1>4 DEF jit_collision_test

\* What the ASAP search returns: the time stamp it tries first, if no node is in the way, else the slot
\* behind a node that is the last or whose successor is not in the way.
LEMMA AsapIs ==
  ASSUME NEW q \in Seq(Node), NEW pkt \in Packet, pkt.type = "C"
  PROVE  LET pre == TX_START_DELAY + TX_JIT_DELAY
             c == AsapCount(q, pkt)
             clear(i) == ~jit_collision_test(c, pre, PostDelay(pkt),
                                             q[i].count, q[i].pre, q[i].post)
         IN  \/ c = pkt.count /\ \A i \in DOMAIN q : clear(i)
             \/ \E i \in DOMAIN q :
                  /\ c = (q[i].count + (q[i].post + pre + TX_JIT_DELAY + TX_MARGIN_DELAY))
                           % COUNTER_RANGE
                  /\ i + 1 \in DOMAIN q => clear(i + 1)
<1> DEFINE pre == PreDelay(pkt.type)
           post == PostDelay(pkt)
           first == pkt.count
           after(i) == (q[i].count + q[i].post + pre + TX_JIT_DELAY + TX_MARGIN_DELAY)
                         % COUNTER_RANGE
           hits(c, i) == jit_collision_test(c, pre, post, q[i].count, q[i].pre, q[i].post)
           fits(i) == i = Len(q) \/ ~hits(after(i), i + 1)
           S == {i \in DOMAIN q : fits(i)}
           asap == AsapCount(q, pkt)
<1>1. pre = TX_START_DELAY + TX_JIT_DELAY /\ pre \in Nat
  BY JitConstants DEF PreDelay
<1>2. asap = IF \A i \in DOMAIN q : ~hits(first, i) THEN first ELSE after(Least(S))
  BY DEF AsapCount
<1>3. \A i \in DOMAIN q :
        after(i) = (q[i].count + (q[i].post + pre + TX_JIT_DELAY + TX_MARGIN_DELAY))
                     % COUNTER_RANGE
  <2>1. SUFFICES ASSUME NEW i \in DOMAIN q
                 PROVE  q[i].count + q[i].post + pre + TX_JIT_DELAY + TX_MARGIN_DELAY
                          = q[i].count + (q[i].post + pre + TX_JIT_DELAY + TX_MARGIN_DELAY)
    OBVIOUS
  <2>2. q[i] \in Node
    OBVIOUS
  <2>3. q[i].count \in Nat /\ q[i].post \in Nat
    BY <2>2 DEF Node, Counter
  <2> DEFINE a == q[i].count
             b == q[i].post
  <2> HIDE DEF a, b, pre
  <2>4. a + b + pre + TX_JIT_DELAY + TX_MARGIN_DELAY
          = a + (b + pre + TX_JIT_DELAY + TX_MARGIN_DELAY)
    <3>1. a \in Nat /\ b \in Nat
      BY <2>3 DEF a, b
    <3> QED BY <1>1, <3>1, JitConstants
  <2> QED BY <2>4 DEF a, b
<1>4. CASE \A i \in DOMAIN q : ~hits(first, i)
  <2>1. asap = first
    BY <1>2, <1>4
  <2>2. \A i \in DOMAIN q : ~jit_collision_test(asap, pre, post, q[i].count, q[i].pre, q[i].post)
    BY <1>4, <2>1
  <2> HIDE DEF pre, post, asap
  <2> QED BY <1>1, <2>1, <2>2 DEF post, asap
<1>5. CASE ~ \A i \in DOMAIN q : ~hits(first, i)
  <2> DEFINE k == Least(S)
  <2>1. asap = after(k)
    BY <1>2, <1>5
  <2>2. k \in S
    <3>1. q # <<>>
      BY <1>5
    <3>2. Len(q) \in S /\ S \subseteq Nat
      BY <3>1
    <3> HIDE DEF S
    <3> QED BY <3>2, LeastIn
  <2>3. k \in DOMAIN q /\ fits(k)
    BY <2>2
  <2> HIDE DEF k, S
  <2>4. k + 1 \in DOMAIN q =>
          ~jit_collision_test(asap, pre, post, q[k + 1].count, q[k + 1].pre, q[k + 1].post)
    <3>1. ASSUME k + 1 \in DOMAIN q PROVE k # Len(q)
      <4>1. Len(q) \in Nat /\ DOMAIN q = 1 .. Len(q)
        OBVIOUS
      <4>2. k \in DOMAIN q
        BY <2>3
      <4> QED BY <3>1, <4>1, <4>2
    <3>2. ASSUME k + 1 \in DOMAIN q PROVE ~hits(asap, k + 1)
      BY <2>1, <2>3, <3>1, <3>2
    <3> QED BY <3>2
  <2>5. asap = (q[k].count + (q[k].post + pre + TX_JIT_DELAY + TX_MARGIN_DELAY)) % COUNTER_RANGE
    BY <1>3, <2>1, <2>3
  <2> HIDE DEF pre, post, asap, after
  <2> QED BY <1>1, <2>3, <2>4, <2>5 DEF post, asap
<1> QED BY <1>4, <1>5

\* The slot of the ASAP search is clear of every node, and it is not too late unless the
\* counter is about to wrap and the first time stamp was cut.
LEMMA SlotFound ==
  ASSUME Punctual, SlotRoom, IInv, SInv, SlotInv, dpc = "enqueue", dpkt.type = "C"
  PROVE  LET c == AsapCount(nodes, dpkt)
         IN  /\ \/ Elapsed(c, Count(dtime)) > TX_START_DELAY + TX_MARGIN_DELAY + TX_JIT_DELAY
                \/ CutTooLate
             /\ \A j \in DOMAIN nodes :
                  ~jit_collision_test(c, TX_START_DELAY + TX_JIT_DELAY, PostDelay(dpkt),
                                      nodes[j].count, TargetPreDelay(nodes[j], "C"),
                                      nodes[j].post)
<1> DEFINE c == AsapCount(nodes, dpkt)
           post == PostDelay(dpkt)
           reach == TX_START_DELAY + TX_JIT_DELAY
<1>1. dpkt \in Packet /\ post \in Nat /\ FitsIn(post)
  <2>1. dpkt \in Packet
    BY DEF IInv, CallArmed
  <2>2. post = dpkt.toa
    BY DEF PostDelay
  <2>3. FitsIn(post)
    BY DEF SlotInv
  <2> QED BY <2>1, <2>2, <2>3 DEF Packet
<1>2. /\ nodes \in Seq(Node) /\ Count(dtime) \in Counter /\ Count(jtime) \in Counter
      /\ dtime \in Nat /\ jtime \in Nat /\ now \in Nat /\ Disjoint(nodes)
  BY ScheduleTypes
<1>3. Genuine(nodes) /\ Spread(nodes)
  BY DEF SlotInv
<1>4. \/ c = dpkt.count
         /\ \A i \in DOMAIN nodes :
              ~jit_collision_test(c, reach, post, nodes[i].count, nodes[i].pre, nodes[i].post)
      \/ \E i \in DOMAIN nodes :
           /\ c = (nodes[i].count + (nodes[i].post + reach + TX_JIT_DELAY + TX_MARGIN_DELAY))
                    % COUNTER_RANGE
           /\ i + 1 \in DOMAIN nodes =>
                ~jit_collision_test(c, reach, post,
                                    nodes[i + 1].count, nodes[i + 1].pre, nodes[i + 1].post)
  BY <1>1, <1>2, AsapIs
<1>5. /\ COUNTER_RANGE \in Nat \ {0} /\ ASAP_DELAY \in Nat
      /\ TX_START_DELAY \in Nat /\ TX_JIT_DELAY \in Nat /\ TX_MARGIN_DELAY \in Nat
      /\ TX_MAX_ADVANCE_DELAY \in Nat /\ JIT_LAG \in Nat /\ DOWN_LAG \in Nat
  BY JitConstants, ThreadConstants
<1> HIDE DEF c, post
<1>6. CASE /\ c = dpkt.count
           /\ \A i \in DOMAIN nodes :
                ~jit_collision_test(c, reach, post, nodes[i].count, nodes[i].pre, nodes[i].post)
  <2> DEFINE u == Count(dtime)
             sum == u + ASAP_DELAY
  <2>1. u \in Counter /\ u \in Int /\ u \in Nat /\ u < COUNTER_RANGE
    <3> HIDE DEF u
    <3>1. u \in Counter
      BY <1>2 DEF u
    <3> QED BY <1>5, <3>1 DEF Counter
  <2>2. /\ c \in Counter
        /\ \/ c = sum /\ sum < COUNTER_RANGE
           \/ c = sum % COUNTER_RANGE
           \/ c = COUNTER_RANGE - 1 /\ sum >= COUNTER_RANGE
    <3>1. c \in AsapTimes(u)
      BY <1>6 DEF SlotInv, Tried
    <3>2. c \in Counter
      BY <2>1, <3>1, AsapTimesType
    <3> QED BY <1>5, <2>1, <3>1, <3>2 DEF AsapTimes
  <2>3. \A j \in DOMAIN nodes :
          ~jit_collision_test(c, reach, post,
                              nodes[j].count, TargetPreDelay(nodes[j], "C"), nodes[j].post)
    BY <1>1, <1>2, <1>3, <1>6, <2>2, FirstClear
  <2>4. CASE c = sum % COUNTER_RANGE
    <3> HIDE DEF u
    <3>1. Elapsed(u, u) = 0
      <4>1. u - u = COUNTER_RANGE * 0 + 0 /\ 0 < COUNTER_RANGE
        BY <1>5, <2>1
      <4> QED BY <2>1, <4>1, ElapsedIs
    <3>2. Elapsed(u, u) + ASAP_DELAY < COUNTER_RANGE
      BY <1>5, <3>1 DEF SlotRoom, FitsIn, Punctual, HalfAhead
    <3>3. Elapsed(c, u) = Elapsed(u, u) + ASAP_DELAY
      BY <1>5, <2>1, <2>4, <3>2, LeadGrows
    <3>4. Elapsed(c, u) = ASAP_DELAY
      BY <1>5, <3>1, <3>3
    <3> QED BY <2>3, <3>4 DEF c, post, u, SlotRoom
  <2>5. CASE c = sum /\ sum < COUNTER_RANGE
    <3>1. sum \in 0 .. COUNTER_RANGE - 1
      BY <1>5, <2>1, <2>5
    <3> HIDE DEF sum
    <3>2. sum % COUNTER_RANGE = sum
      BY <1>5, <3>1
    <3> QED BY <2>4, <2>5, <3>2
  <2>6. CASE c = COUNTER_RANGE - 1 /\ sum >= COUNTER_RANGE
    <3> HIDE DEF u
    <3> DEFINE left == COUNTER_RANGE - 1 - u
    <3>1. Elapsed(c, u) = left
      <4>1. c - u = COUNTER_RANGE * 0 + left /\ left \in Nat /\ left < COUNTER_RANGE
        BY <1>5, <2>1, <2>6
      <4> HIDE DEF left
      <4> QED BY <2>1, <2>2, <4>1, ElapsedIs DEF Counter
    <3>2. \/ Elapsed(c, u) > TX_START_DELAY + TX_MARGIN_DELAY + TX_JIT_DELAY
          \/ left <= TX_START_DELAY + TX_MARGIN_DELAY + TX_JIT_DELAY
      BY <1>5, <2>1, <3>1
    <3>3. left <= TX_START_DELAY + TX_MARGIN_DELAY + TX_JIT_DELAY => CutTooLate
      BY <1>6, <2>6 DEF CutTooLate, u
    <3> QED BY <2>3, <3>2, <3>3 DEF c, post, u
  <2> QED BY <2>2, <2>4, <2>5, <2>6
<1>7. ASSUME NEW i \in DOMAIN nodes,
             c = (nodes[i].count + (nodes[i].post + reach + TX_JIT_DELAY + TX_MARGIN_DELAY))
                   % COUNTER_RANGE,
             i + 1 \in DOMAIN nodes =>
               ~jit_collision_test(c, reach, post,
                                   nodes[i + 1].count, nodes[i + 1].pre, nodes[i + 1].post)
      PROVE  /\ Elapsed(c, Count(dtime)) > TX_START_DELAY + TX_MARGIN_DELAY + TX_JIT_DELAY
             /\ \A j \in DOMAIN nodes :
                  ~jit_collision_test(c, reach, post,
                                      nodes[j].count, TargetPreDelay(nodes[j], "C"),
                                      nodes[j].post)
  <2> DEFINE t == Count(jtime)
             a == nodes[i].count
             pi == nodes[i].post
             k == pi + reach + TX_JIT_DELAY + TX_MARGIN_DELAY
             e == Elapsed(a, t)
  <2>1. a \in Counter /\ pi \in Nat /\ FitsIn(pi)
    BY <1>2, <1>3, GenuineNode
  <2>2. e \in Nat
    <3>1. a \in Int /\ t \in Int
      BY <1>2, <2>1 DEF Counter
    <3> QED BY <3>1, ElapsedType
  <2>3. e >= TX_START_DELAY + JIT_LAG /\ e < TX_MAX_ADVANCE_DELAY
    <3>1. e >= Notice /\ e < TX_MAX_ADVANCE_DELAY
      BY DEF SInv, InOrder, Timely, Within, Ahead
    <3>2. Notice = TX_START_DELAY + JIT_LAG \/ Notice = TX_START_DELAY + 2 * JIT_LAG
      BY DEF Notice
    <3> HIDE DEF e, Notice
    <3> QED BY <1>5, <2>2, <3>1, <3>2
  <2>4. /\ jtime <= now /\ now - jtime <= JIT_LAG
        /\ dtime <= now /\ now - dtime <= DOWN_LAG
        /\ DOWN_LAG <= TX_START_DELAY + TX_MARGIN_DELAY
    BY DEF SInv, ClockRead, Punctual
  <2>5. 2 * (TX_MAX_ADVANCE_DELAY + pi + 2 * (TX_START_DELAY + TX_JIT_DELAY + TX_MARGIN_DELAY))
          <= COUNTER_RANGE /\ TX_JIT_DELAY > 0
    BY <2>1 DEF FitsIn, SlotRoom
  <2>6. c = (a + k) % COUNTER_RANGE
    BY <1>7
  <2> HIDE DEF a, pi, e
  <2>7. k \in Nat /\ e + k < COUNTER_RANGE
    BY <1>5, <2>1, <2>2, <2>3, <2>5
  <2>8. c \in Counter /\ Elapsed(c, t) = e + k
    <3> HIDE DEF k, t
    <3>1. t \in Counter
      BY <1>2 DEF t
    <3>2. Elapsed(a, t) + k < COUNTER_RANGE
      BY <2>7 DEF e
    <3> QED BY <2>1, <2>6, <2>7, <3>1, <3>2, LeadGrows DEF e
  <2>9. /\ dtime - jtime <= e + k /\ e + k - (dtime - jtime) < COUNTER_RANGE
        /\ e + k - (dtime - jtime) > TX_START_DELAY + TX_MARGIN_DELAY + TX_JIT_DELAY
    BY <1>2, <1>5, <2>1, <2>2, <2>3, <2>4, <2>5
  <2>10. Elapsed(c, Count(dtime)) > TX_START_DELAY + TX_MARGIN_DELAY + TX_JIT_DELAY
    <3> DEFINE l == e + k
    <3> HIDE DEF k
    <3>1. Elapsed(c, Count(jtime)) = l
      BY <2>8
    <3>2. dtime - jtime <= l /\ l - (dtime - jtime) < COUNTER_RANGE
          /\ l - (dtime - jtime) > TX_START_DELAY + TX_MARGIN_DELAY + TX_JIT_DELAY
      BY <1>2, <1>5, <2>2, <2>7, <2>9
    <3> HIDE DEF l
    <3>3. Elapsed(c, Count(dtime)) = l - (dtime - jtime)
      BY <1>2, <2>8, <3>1, <3>2, LeadShrinks
    <3> QED BY <3>2, <3>3
  <2>11. ASSUME NEW j \in DOMAIN nodes
         PROVE  ~jit_collision_test(c, reach, post,
                                    nodes[j].count, TargetPreDelay(nodes[j], "C"), nodes[j].post)
    <3>1. Ordered(nodes, t) /\ Within(nodes, t)
      BY DEF SInv, InOrder
    <3>2. Elapsed(c, t) = Ahead(nodes[i], t) + nodes[i].post + TX_START_DELAY + 2 * TX_JIT_DELAY
                            + TX_MARGIN_DELAY
      <4>1. e + k = e + pi + TX_START_DELAY + 2 * TX_JIT_DELAY + TX_MARGIN_DELAY
        BY <1>5, <2>1, <2>2
      <4> QED BY <2>8, <4>1 DEF e, a, pi, Ahead
    <3>3. t \in Counter
      BY <1>2
    <3> HIDE DEF t, k
    <3> QED BY <1>1, <1>2, <1>3, <1>7, <2>8, <3>1, <3>2, <3>3, SlotClear
  <2> QED BY <2>10, <2>11
<1>8. CASE \E i \in DOMAIN nodes :
             /\ c = (nodes[i].count + (nodes[i].post + reach + TX_JIT_DELAY + TX_MARGIN_DELAY))
                      % COUNTER_RANGE
             /\ i + 1 \in DOMAIN nodes =>
                  ~jit_collision_test(c, reach, post,
                                      nodes[i + 1].count, nodes[i + 1].pre, nodes[i + 1].post)
  BY <1>7, <1>8 DEF c, post
<1> QED BY <1>4, <1>6, <1>8

\* The packet of the ASAP search passes the three criteria, but for the first when the time
\* stamp was cut.
LEMMA SlotAccepted ==
  ASSUME Punctual, SlotRoom, IInv, SInv, SlotInv
  PROVE  ClassCAccepted
<1>1. SUFFICES ASSUME dpc = "enqueue", dpkt.type = "C"
               PROVE  Answer = "OK" \/ (Answer = "TOO_LATE" /\ CutTooLate)
  BY DEF ClassCAccepted
<1> DEFINE c == AsapCount(nodes, dpkt)
           post == PostDelay(dpkt)
           reach == TX_START_DELAY + TX_JIT_DELAY
           new == NodeOf(Judged)
<1>2. /\ \/ Elapsed(c, Count(dtime)) > TX_START_DELAY + TX_MARGIN_DELAY + TX_JIT_DELAY
         \/ CutTooLate
      /\ \A j \in DOMAIN nodes :
           ~jit_collision_test(c, reach, post,
                               nodes[j].count, TargetPreDelay(nodes[j], "C"), nodes[j].post)
  BY <1>1, SlotFound
<1>3. dpkt \in Packet
  BY <1>1 DEF IInv, CallArmed
<1>4. Judged.count = c /\ Judged.type = "C" /\ PostDelay(Judged) = post
  <2>1. Judged = [dpkt EXCEPT !.count = c]
    BY <1>1 DEF Judged, Timed
  <2>2. Judged.count = c /\ Judged.type = "C"
    <3> HIDE DEF c
    <3> QED BY <1>1, <1>3, <2>1 DEF Packet
  <2>3. PostDelay(Judged) = post
    BY <1>3, TimedPost DEF Judged
  <2> QED BY <2>2, <2>3
<1>5. /\ new.count = c /\ new.post = post /\ new.type = "C"
      /\ new.pre = reach
  <2>1. new.count = c /\ new.post = post /\ new.type = "C" /\ new.pre = PreDelay("C")
    BY <1>4, NodeOfIs
  <2>2. PreDelay("C") = reach
    BY JitConstants DEF PreDelay
  <2> QED BY <2>1, <2>2
<1> HIDE DEF c, post, reach, new
<1>6. \A j \in DOMAIN nodes : ~Collides(nodes[j], new)
  BY <1>2, <1>5 DEF Collides
<1>7. TooLate(Count(dtime), Judged) => CutTooLate
  <2>1. Elapsed(c, Count(dtime)) \in Nat
    <3>1. c \in Counter /\ Count(dtime) \in Counter
      <4>1. Judged \in Packet /\ Count(dtime) \in Counter
        BY <1>3, ScheduleTypes, TimedType DEF Judged
      <4> QED BY <1>4, <4>1 DEF Packet
    <3>2. c \in Int /\ Count(dtime) \in Int
      BY <3>1 DEF Counter
    <3> QED BY <3>2, ElapsedType
  <2> DEFINE e == Elapsed(c, Count(dtime))
  <2>2. /\ e \in Nat
        /\ e > TX_START_DELAY + TX_MARGIN_DELAY + TX_JIT_DELAY \/ CutTooLate
    BY <1>2, <2>1
  <2>3. TooLate(Count(dtime), Judged) <=> e <= TX_START_DELAY + TX_MARGIN_DELAY + TX_JIT_DELAY
    BY <1>4 DEF TooLate
  <2> HIDE DEF e
  <2> QED BY <2>2, <2>3, JitConstants
<1>8. ~TooEarly(Count(dtime), Judged)
  BY <1>4 DEF TooEarly
<1> QED BY <1>6, <1>7, <1>8 DEF Answer, Verdict, new

\* "ASAP" downlinks always find a slot, whatever is queued around them: an immediate downlink
\* is refused only when the queue is full or, in a build that cuts `time_us + 1E6', in the
\* last moments before the counter wraps (jitqueue.c:173-222).
THEOREM ImmediateAccepted ==
  ASSUME Punctual, SlotRoom
  PROVE  Spec /\ []WithinReach => []ClassCAccepted
<1>1. Init => IInv /\ SInv /\ SlotInv
  BY InitIInv, InitSInv, InitSlot
<1>2. (IInv /\ SInv /\ SlotInv) /\ WithinReach /\ [Next]_vars => (IInv /\ SInv /\ SlotInv)'
  BY NextStep, NextSchedule, NextSlot
<1>3. IInv /\ SInv /\ SlotInv => ClassCAccepted
  BY SlotAccepted
<1> QED BY <1>1, <1>2, <1>3, PTL DEF Spec
=============================================================================
