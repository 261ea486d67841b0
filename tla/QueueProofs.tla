---------------------------- MODULE QueueProofs ----------------------------
(***************************************************************************)
(* What WaitQueue guarantees for any number of threads, any high-water      *)
(* marks and any messages, and what LogQueue keeps of it.                   *)
(***************************************************************************)
EXTENDS LogQueue, DataFacts

-----------------------------------------------------------------------------
(* The bytes of a sequence of messages.                                    *)

\* g gives the bytes of each prefix of c.
Running(c, g) ==
  /\ g \in [0 .. Len(c) -> Int]
  /\ g[0] = 0
  /\ \A k \in 1 .. Len(c) : g[k] = g[k - 1] + c[k].len

\* Every sequence of messages has running totals, none of them negative: were
\* there a prefix without, the shortest one would extend the one before.
LEMMA RunningExists ==
  ASSUME NEW c \in Seq(StoredMessage)
  PROVE  \E g : Running(c, g) /\ \A k \in 0 .. Len(c) : g[k] >= 0
<1> DEFINE Upto(n, g) == /\ g \in [0 .. n -> Nat]
                         /\ g[0] = 0
                         /\ \A k \in 1 .. n : g[k] = g[k - 1] + c[k].len
           Bad == {n \in 0 .. Len(c) : ~ \E g : Upto(n, g)}
<1>1. Len(c) \in Nat /\ \A k \in 1 .. Len(c) : c[k].len \in Nat
  <2>1. ASSUME NEW k \in 1 .. Len(c) PROVE c[k].len \in Nat
    <3>1. c[k] \in StoredMessage
      OBVIOUS
    <3> QED BY <3>1, CallConstants DEF StoredMessage
  <2> QED BY <2>1
<1>2. Bad = {}
  <2> SUFFICES ASSUME Bad # {} PROVE FALSE
    OBVIOUS
  <2>1. Bad \subseteq Nat
    BY <1>1
  <2>2. PICK n \in Bad : \A m \in Bad : n <= m
    <3> HIDE DEF Bad
    <3> QED BY <2>1, SmallestExists
  <2>3. n \in 0 .. Len(c) /\ ~ \E g : Upto(n, g)
    BY <2>2
  <2>4. n # 0
    <3>1. Upto(0, [k \in 0 .. 0 |-> 0])
      OBVIOUS
    <3> HIDE DEF Upto
    <3> QED BY <2>3, <3>1
  <2>5. n - 1 \in 0 .. Len(c) /\ n - 1 \notin Bad
    <3> HIDE DEF Bad
    <3> QED BY <1>1, <2>1, <2>2, <2>3, <2>4
  <2>6. PICK g : Upto(n - 1, g)
    <3> HIDE DEF Upto
    <3> QED BY <2>5
  <2> DEFINE h == [k \in 0 .. n |-> IF k = n THEN g[n - 1] + c[n].len ELSE g[k]]
  <2>7. Upto(n, h)
    <3>1. n \in Nat /\ n >= 1 /\ c[n].len \in Nat
      BY <1>1, <2>3, <2>4
    <3>2. h \in [0 .. n -> Nat] /\ h[0] = 0
      BY <2>6, <3>1
    <3>3. ASSUME NEW k \in 1 .. n PROVE h[k] = h[k - 1] + c[k].len
      <4>1. CASE k = n
        BY <2>6, <3>1, <4>1
      <4>2. CASE k # n
        <5>1. k \in 1 .. n - 1 /\ k - 1 \in 0 .. n - 1
          BY <3>1, <4>2
        <5> QED BY <2>6, <3>1, <5>1
      <4> QED BY <4>1, <4>2
    <3> QED BY <3>2, <3>3
  <2> HIDE DEF Upto, h
  <2> QED BY <2>3, <2>7
<1>3. PICK g : Upto(Len(c), g)
  <2>1. Len(c) \in 0 .. Len(c)
    BY <1>1
  <2> HIDE DEF Upto
  <2> QED BY <1>2, <2>1
<1> QED BY <1>1, <1>3 DEF Running

\* Running totals are unique: at the first place where two differ they agree on
\* the place before.
LEMMA RunningUnique ==
  ASSUME NEW c \in Seq(StoredMessage), NEW g, Running(c, g), NEW h, Running(c, h)
  PROVE  \A k \in 0 .. Len(c) : g[k] = h[k]
<1> DEFINE Bad == {k \in 0 .. Len(c) : g[k] # h[k]}
<1>1. Len(c) \in Nat
  OBVIOUS
<1>2. Bad = {}
  <2> SUFFICES ASSUME Bad # {} PROVE FALSE
    OBVIOUS
  <2>1. Bad \subseteq Nat
    BY <1>1
  <2>2. PICK n \in Bad : \A m \in Bad : n <= m
    <3> HIDE DEF Bad
    <3> QED BY <2>1, SmallestExists
  <2>3. n \in 1 .. Len(c)
    BY <1>1, <2>2 DEF Running
  <2>4. n - 1 \in 0 .. Len(c) /\ n - 1 \notin Bad
    BY <1>1, <2>2, <2>3
  <2>5. g[n - 1] = h[n - 1]
    BY <2>4
  <2> QED BY <2>2, <2>3, <2>5 DEF Running
<1> QED BY <1>2

\* Buffered is the last of the running totals.
LEMMA BufferedRuns ==
  ASSUME NEW c \in Seq(StoredMessage), NEW g, Running(c, g)
  PROVE  Buffered(c) = g[Len(c)]
<1> DEFINE S == 0 .. Len(c)
           step(f) == [n \in S |-> IF n = 0 THEN 0 ELSE f[n - 1] + c[n].len]
           sum == CHOOSE f : f = step(f)
<1>1. Len(c) \in Nat
  OBVIOUS
<1>2. g = step(g)
  <2>1. g = [n \in S |-> g[n]]
    BY DEF Running
  <2>2. \A n \in S : g[n] = IF n = 0 THEN 0 ELSE g[n - 1] + c[n].len
    BY <1>1 DEF Running
  <2> QED BY <2>1, <2>2
<1>3. sum = step(sum)
  BY <1>2
<1>4. Buffered(c) = sum[Len(c)]
  BY DEF Buffered
<1> HIDE DEF sum
<1>5. ASSUME NEW n \in S, n # 0, sum[n] # g[n] PROVE sum[n - 1] # g[n - 1]
  BY <1>1, <1>2, <1>3, <1>5
<1> DEFINE Bad == {n \in S : sum[n] # g[n]}
<1>6. Bad = {}
  <2> SUFFICES ASSUME Bad # {} PROVE FALSE
    OBVIOUS
  <2>1. Bad \subseteq Nat
    BY <1>1
  <2>2. PICK n \in Bad : \A m \in Bad : n <= m
    <3> HIDE DEF Bad
    <3> QED BY <2>1, SmallestExists
  <2>3. sum[0] = 0 /\ g[0] = 0
    <3>1. 0 \in S
      BY <1>1
    <3> QED BY <1>3, <3>1 DEF Running
  <2>4. n \in S /\ n # 0 /\ n - 1 \in S
    BY <1>1, <2>2, <2>3
  <2>5. n - 1 \in Bad
    BY <1>5, <2>2, <2>4
  <2> QED BY <1>1, <2>2, <2>4, <2>5
<1>7. Len(c) \in S
  BY <1>1
<1> QED BY <1>4, <1>6, <1>7

\* What a queue holds is a number of bytes.
LEMMA BufferedType ==
  ASSUME NEW c \in Seq(StoredMessage)
  PROVE  Buffered(c) \in Nat
<1>1. PICK g : Running(c, g) /\ \A k \in 0 .. Len(c) : g[k] >= 0
  BY RunningExists
<1>2. Len(c) \in 0 .. Len(c) /\ Buffered(c) = g[Len(c)] /\ g[Len(c)] \in Int
  BY <1>1, BufferedRuns DEF Running
<1> QED BY <1>1, <1>2

\* An empty queue holds no bytes.
LEMMA BufferedEmpty == Buffered(<<>>) = 0
<1>1. Running(<<>>, [k \in 0 .. 0 |-> 0])
  BY DEF Running
<1>2. <<>> \in Seq(StoredMessage) /\ Len(<<>>) = 0
  OBVIOUS
<1> QED BY <1>1, <1>2, BufferedRuns

\* A message stored adds its bytes (Queue::send).
LEMMA BufferedAppend ==
  ASSUME NEW c \in Seq(StoredMessage), NEW m \in StoredMessage
  PROVE  Buffered(Append(c, m)) = Buffered(c) + m.len
<1> DEFINE n == Len(c) + 1
           a == Append(c, m)
<1>1. PICK g : Running(c, g)
  BY RunningExists
<1> DEFINE h == [k \in 0 .. n |-> IF k = n THEN g[Len(c)] + m.len ELSE g[k]]
<1>2. Len(c) \in Nat /\ m.len \in Int /\ g[Len(c)] \in Int
  BY <1>1, CallConstants DEF Running, StoredMessage
<1>3. /\ a \in Seq(StoredMessage) /\ Len(a) = n /\ a[n] = m
      /\ \A k \in 1 .. Len(c) : a[k] = c[k]
  OBVIOUS
<1>4. Running(a, h)
  <2>1. h \in [0 .. n -> Int] /\ h[0] = 0
    BY <1>1, <1>2 DEF Running
  <2>2. ASSUME NEW k \in 1 .. n PROVE h[k] = h[k - 1] + a[k].len
    <3>1. CASE k = n
      BY <1>2, <1>3, <3>1
    <3>2. CASE k # n
      <4>1. k \in 1 .. Len(c) /\ k - 1 \in 0 .. Len(c) /\ k - 1 # n
        BY <1>2, <3>2
      <4> QED BY <1>1, <1>2, <1>3, <4>1 DEF Running
    <3> QED BY <3>1, <3>2
  <2> HIDE DEF h, a
  <2> QED BY <1>3, <2>1, <2>2 DEF Running
<1>5. h[n] = g[Len(c)] + m.len
  BY <1>2
<1> HIDE DEF h, a
<1> QED BY <1>1, <1>3, <1>4, <1>5, BufferedRuns DEF a

\* The oldest message taken leaves the bytes of the others (Queue::recv).
LEMMA BufferedTail ==
  ASSUME NEW c \in Seq(StoredMessage), c # <<>>
  PROVE  Buffered(Tail(c)) = Buffered(c) - Head(c).len
<1> DEFINE n == Len(c) - 1
           t == Tail(c)
<1>1. PICK g : Running(c, g)
  BY RunningExists
<1> DEFINE h == [k \in 0 .. n |-> g[k + 1] - c[1].len]
<1>2. Len(c) \in Nat /\ Len(c) >= 1 /\ c[1].len \in Int /\ Head(c) = c[1]
  <2>1. c[1] \in StoredMessage /\ Len(c) \in Nat /\ Len(c) >= 1 /\ Head(c) = c[1]
    OBVIOUS
  <2> QED BY <2>1, CallConstants DEF StoredMessage
<1>3. /\ t \in Seq(StoredMessage) /\ Len(t) = n
      /\ \A k \in 1 .. n : t[k] = c[k + 1]
  BY <1>2
<1>4. g \in [0 .. Len(c) -> Int] /\ g[0] = 0 /\ \A k \in 1 .. Len(c) : g[k] = g[k - 1] + c[k].len
  BY <1>1 DEF Running
<1>5. Running(t, h)
  <2>1. h \in [0 .. n -> Int] /\ h[0] = 0
    BY <1>2, <1>4
  <2>2. ASSUME NEW k \in 1 .. n PROVE h[k] = h[k - 1] + t[k].len
    <3>1. k \in 0 .. n /\ k - 1 \in 0 .. n /\ k + 1 \in 1 .. Len(c) /\ (k - 1) + 1 = k
          /\ k \in 0 .. Len(c) /\ (k + 1) - 1 = k
      BY <1>2
    <3>2. h[k] = g[k + 1] - c[1].len /\ h[k - 1] = g[k] - c[1].len
      BY <3>1
    <3>3. g[k + 1] = g[k] + c[k + 1].len /\ g[k] \in Int
      BY <1>4, <3>1
    <3>4. c[k + 1].len \in Int
      <4>1. c[k + 1] \in StoredMessage
        BY <3>1
      <4> QED BY <4>1, CallConstants DEF StoredMessage
    <3> QED BY <1>2, <1>3, <3>2, <3>3, <3>4
  <2> HIDE DEF h, t
  <2> QED BY <1>3, <2>1, <2>2 DEF Running
<1>6. h[n] = g[Len(c)] - c[1].len
  BY <1>2
<1> HIDE DEF h, t
<1>7. Buffered(t) = h[n] /\ Buffered(c) = g[Len(c)]
  BY <1>1, <1>3, <1>5, BufferedRuns
<1> QED BY <1>2, <1>6, <1>7 DEF t

-----------------------------------------------------------------------------
(* The invariant.                                                          *)

\* What a thread that sleeps, or has slept, was called with: a sender with a mark,
\* and a thread whose timeout is over with a timeout.
SleepersArmed ==
  /\ \A s \in Senders : pc[s] \in {"wait", "woken", "expired"} => scall[s].hwm # 0
  /\ \A t \in Threads : pc[t] = "expired" => TimeoutOf(t) = "expire"

\* The inductive invariant.
QInv ==
  /\ TypeOK
  /\ SizeIsSum
  /\ NoLostWakeup
  /\ ClosedIsEmpty
  /\ SleepersArmed

\* An empty queue, nobody in a call.
LEMMA InitQInv == Init => QInv
<1> SUFFICES ASSUME Init PROVE QInv
  OBVIOUS
<1>1. TypeOK
  <2>1. \A s \in Senders : NoSend(s) \in SendArgs
    BY DEF NoSend, SendArgs, Message, Timeout
  <2>2. NoRecv \in RecvArgs
    BY DEF NoRecv, RecvArgs, Timeout
  <2>3. Returned(0) \in CallResult
    BY DEF Returned, CallResult
  <2>4. q \in Seq(StoredMessage) /\ size \in Nat /\ sends \in [Senders -> Nat]
    BY DEF Init
  <2>5. closed \in BOOLEAN /\ pc \in [Threads -> {"idle", "enter", "wait", "woken", "expired"}]
    BY DEF Init
  <2>6. /\ scall \in [Senders -> SendArgs]
        /\ rcall \in [Receivers -> RecvArgs]
        /\ ret \in [Threads -> CallResult]
    BY <2>1, <2>2, <2>3 DEF Init
  <2> QED BY <2>4, <2>5, <2>6 DEF TypeOK
<1>2. SizeIsSum
  BY BufferedEmpty DEF Init, SizeIsSum
<1>3. NoLostWakeup /\ ClosedIsEmpty /\ SleepersArmed
  BY DEF Init, NoLostWakeup, ClosedIsEmpty, SleepersArmed, Threads
<1> QED BY <1>1, <1>2, <1>3 DEF QInv

\* send and recv are called.
LEMMA CallStep ==
  ASSUME QInv,
         (\E s \in Senders : SendCall(s)) \/ (\E r \in Receivers : RecvCall(r))
  PROVE  QInv'
<1>1. CASE \E s \in Senders : SendCall(s)
  <2>1. PICK s \in Senders : SendCall(s)
    BY <1>1
  <2>2. PICK len \in LENS, hwm \in HWMS, timeout \in Timeout :
          scall' = [scall EXCEPT ![s] = [msg |-> [src |-> s, len |-> len],
                                         hwm |-> hwm, timeout |-> timeout]]
    BY <2>1 DEF SendCall
  <2>3. [msg |-> [src |-> s, len |-> len], hwm |-> hwm, timeout |-> timeout] \in SendArgs
    BY CallConstants DEF SendArgs, Message
  <2>4. s \in Threads /\ Returned(0) \in CallResult
    BY DEF Threads, Returned, CallResult
  <2>5. TypeOK'
    BY <2>1, <2>2, <2>3, <2>4 DEF QInv, TypeOK, SendCall
  <2>6. SizeIsSum' /\ ClosedIsEmpty'
    BY <2>1 DEF QInv, SendCall, SizeIsSum, ClosedIsEmpty
  <2>7. NoLostWakeup' /\ SleepersArmed'
    BY <2>1, <2>2, CallConstants
    DEF QInv, TypeOK, SendCall, NoLostWakeup, SleepersArmed, Room, TimeoutOf, Threads
  <2> QED BY <2>5, <2>6, <2>7 DEF QInv
<1>2. CASE \E r \in Receivers : RecvCall(r)
  <2>1. PICK r \in Receivers : RecvCall(r)
    BY <1>2
  <2>2. PICK len \in RECV_LENS, timeout \in Timeout :
          rcall' = [rcall EXCEPT ![r] = [len |-> len, timeout |-> timeout]]
    BY <2>1 DEF RecvCall
  <2>3. [len |-> len, timeout |-> timeout] \in RecvArgs
    BY CallConstants DEF RecvArgs
  <2>4. r \in Threads /\ Returned(0) \in CallResult
    BY DEF Threads, Returned, CallResult
  <2>5. TypeOK'
    BY <2>1, <2>2, <2>3, <2>4 DEF QInv, TypeOK, RecvCall
  <2>6. SizeIsSum' /\ ClosedIsEmpty'
    BY <2>1 DEF QInv, RecvCall, SizeIsSum, ClosedIsEmpty
  <2>7. NoLostWakeup' /\ SleepersArmed'
    BY <2>1, <2>2, CallConstants
    DEF QInv, TypeOK, RecvCall, NoLostWakeup, SleepersArmed, Room, TimeoutOf, Threads
  <2> QED BY <2>5, <2>6, <2>7 DEF QInv
<1> QED BY <1>1, <1>2

\* A call that returns an error, or writes no data, leaves the queue alone.
LEMMA SendRefusedKeeps ==
  ASSUME QInv, NEW s \in Senders, NEW n \in Nat \cup {EAGAIN, EBADF}, SendRefused(s, n)
  PROVE  QInv'
<1>1. s \in Threads /\ Returned(n) \in CallResult /\ NoSend(s) \in SendArgs
  BY DEF Threads, Returned, CallResult, NoSend, SendArgs, Message, Timeout
<1>2. TypeOK'
  BY <1>1 DEF QInv, TypeOK, SendRefused, SendReturn
<1>3. SizeIsSum' /\ ClosedIsEmpty'
  BY DEF QInv, SendRefused, SendReturn, SizeIsSum, ClosedIsEmpty
<1>4. NoLostWakeup' /\ SleepersArmed'
  BY <1>1, CallConstants
  DEF QInv, TypeOK, SendRefused, SendReturn, NoLostWakeup, SleepersArmed, Room,
      TimeoutOf, Threads
<1> QED BY <1>2, <1>3, <1>4 DEF QInv

\* The same for a receiver.
LEMMA RecvRefusedKeeps ==
  ASSUME QInv, NEW r \in Receivers, NEW n \in {EAGAIN, EBADF}, RecvRefused(r, n)
  PROVE  QInv'
<1>1. r \in Threads /\ Returned(n) \in CallResult /\ NoRecv \in RecvArgs
  BY DEF Threads, Returned, CallResult, NoRecv, RecvArgs, Timeout
<1>2. TypeOK'
  BY <1>1 DEF QInv, TypeOK, RecvRefused, RecvReturn
<1>3. SizeIsSum' /\ ClosedIsEmpty'
  BY DEF QInv, RecvRefused, RecvReturn, SizeIsSum, ClosedIsEmpty
<1>4. NoLostWakeup' /\ SleepersArmed'
  BY <1>1, CallConstants
  DEF QInv, TypeOK, RecvRefused, RecvReturn, NoLostWakeup, SleepersArmed, Room,
      TimeoutOf, Threads
<1> QED BY <1>2, <1>3, <1>4 DEF QInv

\* A message stored: its bytes are counted, no receiver is left asleep, and the
\* bytes have not come down, so no sender has missed its turn.
LEMMA PushKeeps ==
  ASSUME QInv, NEW s \in Senders, ~closed, Push(s)
  PROVE  QInv'
<1> DEFINE m == Stored(scall[s].msg)
<1>1. m \in StoredMessage /\ m.len \in Nat
  <2>1. scall[s].msg \in Message
    BY DEF QInv, TypeOK, SendArgs
  <2>2. /\ m.src = scall[s].msg.src /\ m.len = Smaller(SEND_BUFLEN, scall[s].msg.len)
        /\ m = [src |-> m.src, len |-> m.len]
    BY <2>1 DEF Stored, Message
  <2>3. m.src \in Senders /\ m.len \in 0 .. SEND_BUFLEN
    BY <2>1, <2>2, CallConstants DEF Message, Smaller
  <2> HIDE DEF m
  <2> QED BY <2>2, <2>3, CallConstants DEF StoredMessage
<1>2. /\ q' = Append(q, m)
      /\ size' = size + m.len
      /\ pc' = [Notified(Receivers) EXCEPT ![s] = "idle"]
      /\ SendReturn(s, m.len)
  BY DEF Push
<1> HIDE DEF m
<1>3. s \in Threads /\ Returned(m.len) \in CallResult /\ NoSend(s) \in SendArgs
  BY <1>1 DEF Threads, Returned, CallResult, NoSend, SendArgs, Message, Timeout
<1>4. Notified(Receivers) \in [Threads -> {"idle", "enter", "wait", "woken", "expired"}]
  BY DEF QInv, TypeOK, Notified
<1>5. TypeOK'
  BY <1>1, <1>2, <1>3, <1>4 DEF QInv, TypeOK, SendReturn
<1>6. SizeIsSum'
  <2>1. Buffered(q') = Buffered(q) + m.len
    BY <1>1, <1>2, BufferedAppend DEF QInv, TypeOK
  <2> QED BY <1>2, <2>1 DEF QInv, SizeIsSum
<1>7. ClosedIsEmpty'
  BY <1>2 DEF SendReturn, ClosedIsEmpty
<1>8. \A t \in Threads : pc'[t] = IF t = s THEN "idle"
                                  ELSE IF t \in Receivers /\ pc[t] = "wait" THEN "woken" ELSE pc[t]
  BY <1>2, <1>3 DEF Notified
<1>9. NoLostWakeup' /\ SleepersArmed'
  BY <1>1, <1>2, <1>3, <1>8, CallConstants
  DEF QInv, TypeOK, SendReturn, NoLostWakeup, SleepersArmed, Room, TimeoutOf, Threads, SendArgs
<1> QED BY <1>5, <1>6, <1>7, <1>9 DEF QInv

\* A message taken: its bytes are no longer counted and no sender is left asleep.
LEMMA PopKeeps ==
  ASSUME FREED_SIZES = {}, QInv, NEW r \in Receivers, ~closed, q # <<>>, Pop(r)
  PROVE  QInv'
<1> DEFINE m == Head(q)
           n == Smaller(m.len, rcall[r].len)
<1>1. m \in StoredMessage /\ m.len \in Nat /\ m.src \in Senders
  <2>1. m \in StoredMessage
    BY DEF QInv, TypeOK
  <2> QED BY <2>1, CallConstants DEF StoredMessage
<1>2. /\ q' = Tail(q)
      /\ size' = size - m.len
      /\ pc' = [Notified(Senders) EXCEPT ![r] = "idle"]
      /\ RecvReturn(r, Received(n, m))
      /\ UNCHANGED closed
  BY DEF Pop
<1> HIDE DEF m
<1>3. r \in Threads /\ NoRecv \in RecvArgs
  BY DEF Threads, NoRecv, RecvArgs, Timeout
<1>4. Received(n, m) \in CallResult
  <2>1. rcall[r].len \in Nat
    BY DEF QInv, TypeOK, RecvArgs
  <2>2. n \in Nat
    BY <1>1, <2>1 DEF Smaller
  <2> QED BY <1>1, <2>2 DEF Received, CallResult
<1>5. Notified(Senders) \in [Threads -> {"idle", "enter", "wait", "woken", "expired"}]
  BY DEF QInv, TypeOK, Notified
<1>6. q' \in Seq(StoredMessage) /\ size' = Buffered(q')
  <2>1. q' \in Seq(StoredMessage)
    BY <1>2 DEF QInv, TypeOK
  <2>2. Buffered(q') = Buffered(q) - m.len
    BY <1>2, BufferedTail DEF QInv, TypeOK, m
  <2> QED BY <1>2, <2>1, <2>2 DEF QInv, SizeIsSum
<1>7. TypeOK'
  <2>1. size' \in Nat
    BY <1>6, BufferedType
  <2> HIDE DEF n
  <2> QED BY <1>2, <1>3, <1>4, <1>5, <1>6, <2>1 DEF QInv, TypeOK, RecvReturn
<1>8. SizeIsSum' /\ ClosedIsEmpty'
  BY <1>2, <1>6 DEF SizeIsSum, ClosedIsEmpty
<1>9. \A t \in Threads : pc'[t] = IF t = r THEN "idle"
                                  ELSE IF t \in Senders /\ pc[t] = "wait" THEN "woken" ELSE pc[t]
  BY <1>2, <1>3 DEF Notified
<1>10. NoLostWakeup'
  BY <1>9 DEF QInv, NoLostWakeup, Threads
<1>11. SleepersArmed'
  BY <1>2, <1>3, <1>9, CallConstants
  DEF QInv, TypeOK, RecvReturn, SleepersArmed, TimeoutOf, Threads
<1> QED BY <1>7, <1>8, <1>10, <1>11 DEF QInv

\* A thread goes to sleep only on a condition that does not hold.
LEMMA SleepKeeps ==
  ASSUME QInv, NEW t \in Threads, ~closed, Sleep(t),
         t \in Senders => scall[t].hwm # 0 /\ ~Room(t),
         t \in Receivers => q = <<>>
  PROVE  QInv'
<1>1. TypeOK'
  BY DEF QInv, TypeOK, Sleep
<1>2. SizeIsSum' /\ ClosedIsEmpty'
  BY DEF QInv, Sleep, SizeIsSum, ClosedIsEmpty
<1>3. NoLostWakeup' /\ SleepersArmed'
  BY DEF QInv, TypeOK, Sleep, NoLostWakeup, SleepersArmed, Room, TimeoutOf, Threads
<1> QED BY <1>1, <1>2, <1>3 DEF QInv

\* enqueue, and the end of its wait.
LEMMA SendStep ==
  ASSUME QInv, NEW s \in Senders, SendEnter(s) \/ SendWake(s)
  PROVE  QInv'
<1>1. s \in Threads /\ s \notin Receivers /\ scall[s].hwm \in Int
  BY CallConstants DEF Threads, QInv, TypeOK, SendArgs
<1>2. CASE SendRefused(s, EBADF) \/ SendRefused(s, 0) \/ SendRefused(s, EAGAIN)
  BY <1>2, SendRefusedKeeps
<1>3. CASE ~closed /\ Push(s)
  BY <1>3, PushKeeps
<1>4. CASE ~closed /\ scall[s].hwm # 0 /\ ~Room(s) /\ Sleep(s)
  BY <1>1, <1>4, SleepKeeps
<1>5. pc[s] \in {"woken", "expired"} => scall[s].hwm # 0
  BY DEF QInv, SleepersArmed
<1> QED BY <1>2, <1>3, <1>4, <1>5 DEF SendEnter, SendWake

\* dequeue, and the end of its wait.
LEMMA RecvStep ==
  ASSUME FREED_SIZES = {}, QInv, NEW r \in Receivers, RecvEnter(r) \/ RecvWake(r)
  PROVE  QInv'
<1>1. r \in Threads /\ r \notin Senders
  BY CallConstants DEF Threads
<1>2. CASE RecvRefused(r, EBADF) \/ RecvRefused(r, EAGAIN)
  BY <1>2, RecvRefusedKeeps
<1>3. CASE ~closed /\ q # <<>> /\ Pop(r)
  BY <1>3, PopKeeps
<1>4. CASE ~closed /\ q = <<>> /\ Sleep(r)
  BY <1>1, <1>4, SleepKeeps
<1> QED BY <1>2, <1>3, <1>4 DEF RecvEnter, RecvWake

\* A timeout ends, or a thread wakes unasked.
LEMMA WakeStep ==
  ASSUME QInv, NEW t \in Threads, Expire(t) \/ SpuriousWake(t)
  PROVE  QInv'
<1>1. TypeOK'
  BY DEF QInv, TypeOK, Expire, SpuriousWake
<1>2. SizeIsSum' /\ ClosedIsEmpty'
  BY DEF QInv, Expire, SpuriousWake, SizeIsSum, ClosedIsEmpty
<1>3. NoLostWakeup' /\ SleepersArmed'
  BY DEF QInv, TypeOK, Expire, SpuriousWake, NoLostWakeup, SleepersArmed, Room,
     TimeoutOf, Threads
<1> QED BY <1>1, <1>2, <1>3 DEF QInv

\* The queue is closed, or opened again.
LEMMA CloseStep ==
  ASSUME QInv, Close \/ Reset
  PROVE  QInv'
<1>1. CASE Close
  <2>1. Notified(Threads) \in [Threads -> {"idle", "enter", "wait", "woken", "expired"}]
    BY DEF QInv, TypeOK, Notified
  <2>2. TypeOK'
    BY <1>1, <2>1 DEF QInv, TypeOK, Close
  <2>3. SizeIsSum' /\ ClosedIsEmpty'
    BY <1>1, BufferedEmpty DEF Close, SizeIsSum, ClosedIsEmpty
  <2>4. \A t \in Threads : pc'[t] = IF pc[t] = "wait" THEN "woken" ELSE pc[t]
    BY <1>1 DEF Close, Notified
  <2>5. NoLostWakeup' /\ SleepersArmed'
    BY <1>1, <2>4 DEF QInv, Close, NoLostWakeup, SleepersArmed, TimeoutOf, Threads
  <2> QED BY <2>2, <2>3, <2>5 DEF QInv
<1>2. CASE Reset
  <2>1. TypeOK'
    BY <1>2 DEF QInv, TypeOK, Reset
  <2>2. SizeIsSum' /\ ClosedIsEmpty' /\ NoLostWakeup' /\ SleepersArmed'
    BY <1>2 DEF QInv, Reset, SizeIsSum, ClosedIsEmpty, NoLostWakeup, SleepersArmed,
       TimeoutOf, Room, Threads
  <2> QED BY <2>1, <2>2 DEF QInv
<1> QED BY <1>1, <1>2

\* Every step keeps the invariant.
LEMMA QNextStep ==
  ASSUME FREED_SIZES = {}, QInv, [Next]_vars
  PROVE  QInv'
<1>1. CASE \/ \E s \in Senders : SendCall(s)
           \/ \E r \in Receivers : RecvCall(r)
  BY <1>1, CallStep
<1>2. CASE \E s \in Senders : SendEnter(s) \/ SendWake(s)
  BY <1>2, SendStep
<1>3. CASE \E r \in Receivers : RecvEnter(r) \/ RecvWake(r)
  BY <1>3, RecvStep
<1>4. CASE \E t \in Threads : Expire(t) \/ SpuriousWake(t)
  BY <1>4, WakeStep
<1>5. CASE Close \/ Reset
  BY <1>5, CloseStep
<1>6. CASE UNCHANGED vars
  BY <1>6 DEF vars, QInv, TypeOK, SizeIsSum, NoLostWakeup, ClosedIsEmpty, SleepersArmed,
     Room, TimeoutOf
<1> QED BY <1>1, <1>2, <1>3, <1>4, <1>5, <1>6 DEF Next

-----------------------------------------------------------------------------
(* The theorems.  They assume that Queue::recv reads the size of the element *)
(* it has popped from memory that is still intact.                          *)

\* The inductive invariant holds in every state.
THEOREM QueueInvariance ==
  ASSUME FREED_SIZES = {}
  PROVE  Spec => []QInv
<1>1. QInv /\ [Next]_vars => QInv'
  BY QNextStep
<1> QED BY <1>1, InitQInv, PTL DEF Spec

\* Every variable keeps its type; the byte counter is never negative.
THEOREM QueueTypes ==
  ASSUME FREED_SIZES = {}
  PROVE  Spec => []TypeOK
<1>1. QInv => TypeOK
  BY DEF QInv
<1> QED BY <1>1, QueueInvariance, PTL

\* The byte counter is the number of bytes buffered.
THEOREM SizeExact ==
  ASSUME FREED_SIZES = {}
  PROVE  Spec => []SizeIsSum
<1>1. QInv => SizeIsSum
  BY DEF QInv
<1> QED BY <1>1, QueueInvariance, PTL

\* No sender and no receiver sleeps on a condition that holds.
THEOREM WakeupsKept ==
  ASSUME FREED_SIZES = {}
  PROVE  Spec => []NoLostWakeup
<1>1. QInv => NoLostWakeup
  BY DEF QInv
<1> QED BY <1>1, QueueInvariance, PTL

\* A closed queue holds nothing.
THEOREM ClosedEmpties ==
  ASSUME FREED_SIZES = {}
  PROVE  Spec => []ClosedIsEmpty
<1>1. QInv => ClosedIsEmpty
  BY DEF QInv
<1> QED BY <1>1, QueueInvariance, PTL

\* What MarkKept says of one step.
MarkKeptNow ==
  \A s \in Senders :
    scall[s].hwm > 0 /\ Len(q') > Len(q) /\ scall'[s] # scall[s] =>
      Buffered(q) < scall[s].hwm

\* A step that adds a message adds that of a sender that found room.
LEMMA MarkStep ==
  ASSUME QInv, [Next]_vars
  PROVE  MarkKeptNow
<1>1. q \in Seq(StoredMessage) /\ Len(q) \in Nat /\ size = Buffered(q)
  BY DEF QInv, TypeOK, SizeIsSum
<1>2. CASE \E s \in Senders : ~closed /\ Room(s) /\ Push(s)
  <2>1. PICK s \in Senders : Room(s) /\ Push(s)
    BY <1>2
  <2>2. scall' = [scall EXCEPT ![s] = NoSend(s)]
    BY <2>1 DEF Push, SendReturn
  <2>3. \A u \in Senders : scall'[u] # scall[u] => u = s
    BY <2>2 DEF QInv, TypeOK
  <2>4. scall[s].hwm > 0 => Buffered(q) < scall[s].hwm
    <3>1. scall[s].hwm \in Int
      BY DEF QInv, TypeOK, SendArgs
    <3> QED BY <1>1, <2>1, <3>1 DEF Room
  <2> QED BY <2>3, <2>4 DEF MarkKeptNow
<1>3. CASE q' = q \/ q' = <<>> \/ (q # <<>> /\ q' = Tail(q))
  <2>1. ~(Len(q') > Len(q))
    BY <1>1, <1>3
  <2> QED BY <2>1 DEF MarkKeptNow
<1>4. CASE \E s \in Senders : SendEnter(s) \/ SendWake(s)
  <2>1. PICK s \in Senders : SendEnter(s) \/ SendWake(s)
    BY <1>4
  <2>2. \/ q' = q
        \/ ~closed /\ Room(s) /\ Push(s)
    BY <2>1 DEF SendEnter, SendWake, SendRefused, Sleep
  <2> QED BY <1>2, <1>3, <2>2
<1>5. CASE \E r \in Receivers : RecvEnter(r) \/ RecvWake(r)
  <2>1. PICK r \in Receivers : RecvEnter(r) \/ RecvWake(r)
    BY <1>5
  <2>2. q' = q \/ (q # <<>> /\ q' = Tail(q))
    BY <2>1 DEF RecvEnter, RecvWake, RecvRefused, Sleep, Pop
  <2> QED BY <1>3, <2>2
<1>6. CASE \/ \E s \in Senders : SendCall(s)
           \/ \E r \in Receivers : RecvCall(r)
           \/ \E t \in Threads : Expire(t) \/ SpuriousWake(t)
           \/ Close \/ Reset \/ UNCHANGED vars
  <2>1. q' = q \/ q' = <<>>
    BY <1>6 DEF SendCall, RecvCall, Expire, SpuriousWake, Close, Reset, vars
  <2> QED BY <1>3, <2>1
<1> QED BY <1>4, <1>5, <1>6 DEF Next

\* No sender adds a message once the bytes buffered have reached its mark.
THEOREM MarksKept ==
  ASSUME FREED_SIZES = {}
  PROVE  Spec => MarkKept
<1>1. QInv /\ [Next]_vars => [MarkKeptNow]_vars
  BY MarkStep
<1>2. MarkKept <=> [][MarkKeptNow]_vars
  BY PTL DEF MarkKept, MarkKeptNow
<1> QED BY <1>1, <1>2, QueueInvariance, PTL DEF Spec

-----------------------------------------------------------------------------
(* WaitQueue implements Channel: each lock section is one abstract step, and *)
(* sleeping and waking are invisible.                                       *)

\* The threads in a call.
Busy == {t \in Threads : pc[t] # "idle"}

\* A thread that returns is no longer busy; notifications make no difference.
LEMMA BusyReturn ==
  ASSUME QInv, NEW t \in Threads, NEW cv,
         pc' = [pc EXCEPT ![t] = "idle"] \/ pc' = [Notified(cv) EXCEPT ![t] = "idle"]
  PROVE  Busy' = Busy \ {t}
<1>1. \A u \in Threads : pc'[u] # "idle" <=> u # t /\ pc[u] # "idle"
  BY DEF QInv, TypeOK, Notified
<1> QED BY <1>1 DEF Busy

\* A call is an abstract call.
LEMMA CallRefines ==
  ASSUME QInv
  PROVE  /\ \A s \in Senders : SendCall(s) => Link!SendCall(s)
         /\ \A r \in Receivers : RecvCall(r) => Link!RecvCall(r)
<1>1. ASSUME NEW t \in Threads, pc[t] = "idle", pc' = [pc EXCEPT ![t] = "enter"]
      PROVE  t \notin Busy /\ Busy' = Busy \cup {t}
  <2>1. \A u \in Threads : pc'[u] # "idle" <=> u = t \/ pc[u] # "idle"
    BY <1>1 DEF QInv, TypeOK
  <2> QED BY <1>1, <2>1 DEF Busy
<1>2. ASSUME NEW s \in Senders, SendCall(s) PROVE Link!SendCall(s)
  <2>1. s \notin Busy /\ Busy' = Busy \cup {s}
    BY <1>1, <1>2 DEF SendCall, Threads
  <2> QED BY <1>2, <2>1 DEF SendCall, Link!SendCall, Busy, Timeout, Link!Timeout, Returned,
          Link!Returned, Threads, Link!Threads
<1>3. ASSUME NEW r \in Receivers, RecvCall(r) PROVE Link!RecvCall(r)
  <2>1. r \notin Busy /\ Busy' = Busy \cup {r}
    BY <1>1, <1>3 DEF RecvCall, Threads
  <2> QED BY <1>3, <2>1 DEF RecvCall, Link!RecvCall, Busy, Timeout, Link!Timeout, Returned,
          Link!Returned, Threads, Link!Threads
<1> QED BY <1>2, <1>3

\* The abstract channel computes with the same lengths and results.
LEMMA SameOperators ==
  /\ Link!Buffered(q) = Buffered(q)
  /\ \A m : Link!Stored(m) = Stored(m)
  /\ \A a, b : Link!Smaller(a, b) = Smaller(a, b)
  /\ \A n : Link!Returned(n) = Returned(n)
  /\ \A n, m : Link!Received(n, m) = Received(n, m)
  /\ Link!EAGAIN = EAGAIN /\ Link!EBADF = EBADF
  /\ \A t : Link!NoSend(t) = NoSend(t)
  /\ Link!NoRecv = NoRecv
  BY DEF Link!Buffered, Buffered, Link!Stored, Stored, Link!Smaller, Smaller,
     Link!Returned, Returned, Link!Received, Received, Link!EAGAIN, EAGAIN,
     Link!EBADF, EBADF, Link!NoSend, NoSend, Link!NoRecv, NoRecv

\* A sleep is a stutter.
LEMMA SleepRefines ==
  ASSUME QInv, NEW t \in Threads, pc[t] # "idle", Sleep(t)
  PROVE  UNCHANGED Link!vars
<1>1. \A u \in Threads : pc'[u] # "idle" <=> pc[u] # "idle"
  BY DEF QInv, TypeOK, Sleep
<1>2. Busy' = Busy
  BY <1>1 DEF Busy
<1> QED BY <1>2 DEF Sleep, Link!vars, Busy, Threads, Link!Threads

\* A lock section of send that ends the call is the abstract completion.
LEMMA SendRefines ==
  ASSUME QInv, NEW s \in Senders, SendEnter(s) \/ SendWake(s)
  PROVE  Link!SendDone(s) \/ UNCHANGED Link!vars
<1>1. s \in Threads /\ s \in Busy
  BY DEF SendEnter, SendWake, Threads, Busy
<1>2. size = Buffered(q) /\ (Link!Room(s) <=> Room(s))
  BY SameOperators DEF QInv, SizeIsSum, Room, Link!Room
<1>3. pc[s] \in {"woken", "expired"} => scall[s].hwm # 0
  BY DEF QInv, SleepersArmed
<1>4. pc[s] = "expired" => scall[s].timeout # "block"
  BY <1>1 DEF QInv, SleepersArmed, TimeoutOf
<1>5. CASE Sleep(s)
  <2>1. pc[s] # "idle"
    BY DEF SendEnter, SendWake
  <2> QED BY <1>1, <1>5, <2>1, SleepRefines
<1>6. ASSUME NEW n, SendRefused(s, n)
      PROVE  Link!SendReturn(s, n) /\ q' = q
  <2>1. Busy' = Busy \ {s}
    BY <1>1, <1>6, BusyReturn DEF SendRefused
  <2> QED BY <1>6, <2>1, SameOperators
          DEF SendRefused, SendReturn, Link!SendReturn, Busy, Threads, Link!Threads
<1>7. ASSUME Push(s)
      PROVE  /\ Link!SendReturn(s, Stored(scall[s].msg).len)
             /\ q' = Append(q, Stored(scall[s].msg))
  <2>1. Busy' = Busy \ {s}
    BY <1>1, <1>7, BusyReturn DEF Push
  <2> QED BY <1>7, <2>1, SameOperators
          DEF Push, SendReturn, Link!SendReturn, Busy, Threads, Link!Threads
<1> DEFINE Done ==
      \/ closed /\ Link!SendReturn(s, EBADF) /\ q' = q
      \/ ~closed /\ scall[s].hwm = 0 /\ Link!SendReturn(s, 0) /\ q' = q
      \/ /\ ~closed /\ scall[s].hwm # 0 /\ Room(s)
         /\ q' = Append(q, Stored(scall[s].msg))
         /\ Link!SendReturn(s, Stored(scall[s].msg).len)
      \/ /\ ~closed /\ scall[s].hwm # 0 /\ ~Room(s) /\ scall[s].timeout # "block"
         /\ Link!SendReturn(s, EAGAIN) /\ q' = q
<1>8. Done \/ Sleep(s)
  <2>1. CASE closed /\ SendRefused(s, EBADF)
    BY <1>6, <2>1
  <2>2. CASE ~closed /\ scall[s].hwm = 0 /\ SendRefused(s, 0)
    BY <1>6, <2>2
  <2>3. CASE ~closed /\ scall[s].hwm # 0 /\ Room(s) /\ Push(s)
    BY <1>7, <2>3
  <2>4. CASE /\ ~closed /\ scall[s].hwm # 0 /\ ~Room(s) /\ scall[s].timeout # "block"
             /\ SendRefused(s, EAGAIN)
    BY <1>6, <2>4
  <2> HIDE DEF Done
  <2>5. CASE SendEnter(s)
    BY <2>1, <2>2, <2>3, <2>4, <2>5 DEF SendEnter
  <2>6. CASE SendWake(s)
    BY <1>3, <1>4, <2>1, <2>3, <2>4, <2>6 DEF SendWake
  <2> QED BY <2>5, <2>6
<1>9. Done => Link!SendDone(s)
  BY <1>1, <1>2 DEF Link!SendDone, Busy, Threads, Link!Threads, Link!EBADF, EBADF,
     Link!EAGAIN, EAGAIN, Link!Stored, Stored, Link!Smaller, Smaller
<1> HIDE DEF Done
<1> QED BY <1>5, <1>8, <1>9

\* The same for recv.
LEMMA RecvRefines ==
  ASSUME QInv, NEW r \in Receivers, RecvEnter(r) \/ RecvWake(r)
  PROVE  Link!RecvDone(r) \/ UNCHANGED Link!vars
<1>1. r \in Threads /\ r \in Busy /\ r \notin Senders
  BY CallConstants DEF RecvEnter, RecvWake, Threads, Busy
<1>2. pc[r] = "expired" => rcall[r].timeout # "block"
  BY <1>1 DEF QInv, SleepersArmed, TimeoutOf
<1>3. CASE Sleep(r)
  <2>1. pc[r] # "idle"
    BY DEF RecvEnter, RecvWake
  <2> QED BY <1>1, <1>3, <2>1, SleepRefines
<1>4. ASSUME NEW n, RecvRefused(r, n)
      PROVE  Link!RecvReturn(r, Returned(n)) /\ q' = q
  <2>1. Busy' = Busy \ {r}
    BY <1>1, <1>4, BusyReturn DEF RecvRefused
  <2> QED BY <1>4, <2>1, SameOperators
          DEF RecvRefused, RecvReturn, Link!RecvReturn, Busy, Threads, Link!Threads
<1>5. ASSUME Pop(r)
      PROVE  /\ Link!RecvReturn(r, Received(Smaller(Head(q).len, rcall[r].len), Head(q)))
             /\ q' = Tail(q)
  <2>1. Busy' = Busy \ {r}
    BY <1>1, <1>5, BusyReturn DEF Pop
  <2> QED BY <1>5, <2>1, SameOperators
          DEF Pop, RecvReturn, Link!RecvReturn, Busy, Threads, Link!Threads
<1> DEFINE Done ==
      \/ closed /\ Link!RecvReturn(r, Returned(EBADF)) /\ q' = q
      \/ /\ ~closed /\ q # <<>> /\ q' = Tail(q)
         /\ Link!RecvReturn(r, Received(Smaller(Head(q).len, rcall[r].len), Head(q)))
      \/ /\ ~closed /\ q = <<>> /\ rcall[r].timeout # "block"
         /\ Link!RecvReturn(r, Returned(EAGAIN)) /\ q' = q
<1>6. Done \/ Sleep(r)
  <2>1. CASE closed /\ RecvRefused(r, EBADF)
    BY <1>4, <2>1
  <2>2. CASE ~closed /\ q # <<>> /\ Pop(r)
    BY <1>5, <2>2
  <2>3. CASE ~closed /\ q = <<>> /\ rcall[r].timeout # "block" /\ RecvRefused(r, EAGAIN)
    BY <1>4, <2>3
  <2> HIDE DEF Done
  <2>4. CASE RecvEnter(r)
    BY <2>1, <2>2, <2>3, <2>4 DEF RecvEnter
  <2>5. CASE RecvWake(r)
    BY <1>2, <2>1, <2>2, <2>3, <2>5 DEF RecvWake
  <2> QED BY <2>4, <2>5
<1>7. Done => Link!RecvDone(r)
  BY <1>1 DEF Link!RecvDone, Busy, Threads, Link!Threads, Link!EBADF, EBADF,
     Link!EAGAIN, EAGAIN, Link!Smaller, Smaller, Link!Returned, Returned,
     Link!Received, Received
<1> HIDE DEF Done
<1> QED BY <1>3, <1>6, <1>7

\* Closing and resetting are abstract steps; timeouts and wake-ups are stutters.
LEMMA OtherRefines ==
  ASSUME QInv
  PROVE  /\ \A t \in Threads : Expire(t) \/ SpuriousWake(t) => UNCHANGED Link!vars
         /\ Close => Link!Close
         /\ Reset => Link!Reset
         /\ UNCHANGED vars => UNCHANGED Link!vars
<1>1. ASSUME NEW t \in Threads, Expire(t) \/ SpuriousWake(t) PROVE UNCHANGED Link!vars
  <2>1. \A u \in Threads : pc'[u] # "idle" <=> pc[u] # "idle"
    BY <1>1 DEF QInv, TypeOK, Expire, SpuriousWake
  <2>2. Busy' = Busy
    BY <2>1 DEF Busy
  <2> QED BY <1>1, <2>2 DEF Expire, SpuriousWake, Link!vars, Busy, Threads, Link!Threads
<1>2. ASSUME Close PROVE Link!Close
  <2>1. \A u \in Threads : pc'[u] # "idle" <=> pc[u] # "idle"
    BY <1>2 DEF Close, Notified
  <2>2. Busy' = Busy
    BY <2>1 DEF Busy
  <2> QED BY <1>2, <2>2 DEF Close, Link!Close, Busy, Threads, Link!Threads
<1>3. ASSUME Reset PROVE Link!Reset
  <2>1. Busy = {} /\ Busy' = Busy
    BY <1>3 DEF Reset, Busy
  <2> QED BY <1>3, <2>1 DEF Reset, Link!Reset, Busy, Threads, Link!Threads
<1>4. ASSUME UNCHANGED vars PROVE UNCHANGED Link!vars
  BY <1>4 DEF vars, Link!vars, Threads, Link!Threads
<1> QED BY <1>1, <1>2, <1>3, <1>4

\* Every step of the queue is a step of the channel or invisible.
LEMMA StepRefines ==
  ASSUME QInv, [Next]_vars
  PROVE  [Link!Next]_(Link!vars)
<1>1. CASE \/ \E s \in Senders : SendCall(s)
           \/ \E r \in Receivers : RecvCall(r)
  BY <1>1, CallRefines DEF Link!Next
<1>2. CASE \E s \in Senders : SendEnter(s) \/ SendWake(s)
  BY <1>2, SendRefines DEF Link!Next
<1>3. CASE \E r \in Receivers : RecvEnter(r) \/ RecvWake(r)
  BY <1>3, RecvRefines DEF Link!Next
<1>4. CASE \/ \E t \in Threads : Expire(t) \/ SpuriousWake(t)
           \/ Close \/ Reset \/ UNCHANGED vars
  BY <1>4, OtherRefines DEF Link!Next
<1> QED BY <1>1, <1>2, <1>3, <1>4 DEF Next

\* The queue starts as an open and empty channel.
LEMMA InitRefines == Init => Link!Init
<1> SUFFICES ASSUME Init PROVE Link!Init
  OBVIOUS
<1>1. Busy = {}
  BY DEF Init, Busy
<1> QED BY <1>1, SameOperators DEF Init, Link!Init, Busy, Threads, Link!Threads

\* WaitQueue implements the safety part of Channel: whatever the threads do, the
\* calls take effect in some order, in which each sees what lora_comms.h says.
THEOREM QueueImplementsChannel ==
  ASSUME FREED_SIZES = {}
  PROVE  Spec => Link!Init /\ [][Link!Next]_(Link!vars)
<1>1. QInv /\ [Next]_vars => [Link!Next]_(Link!vars)
  BY StepRefines
<1> QED BY <1>1, InitRefines, QueueInvariance, PTL DEF Spec

-----------------------------------------------------------------------------
(* LogQueue: what a close that was put off keeps.  Nothing is assumed of the *)
(* size Queue::recv reads: the messages do not depend on the counter.       *)

\* The types without the byte counter, which recv may spoil.
LogTyped ==
  /\ q \in Seq(StoredMessage)
  /\ pc \in [Threads -> {"idle", "enter", "wait", "woken", "expired"}]
  /\ scall \in [Senders -> SendArgs]
  /\ rcall \in [Receivers -> RecvArgs]
  /\ ret \in [Threads -> CallResult]

\* An empty log queue, nobody in a call.
LEMMA LogInitTyped == LogInit => LogTyped
<1>1. Init => LogTyped
  BY InitQInv DEF QInv, TypeOK, LogTyped
<1> QED BY <1>1 DEF LogInit

\* The calls of the senders keep the types.
LEMMA LogSendTyped ==
  ASSUME LogTyped, NEW s \in Senders,
         SendCall(s) \/ SendEnter(s) \/ SendWake(s) \/ WriteNothing(s)
  PROVE  LogTyped'
<1>1. s \in Threads /\ NoSend(s) \in SendArgs
  BY DEF Threads, NoSend, SendArgs, Message, Timeout
<1>2. \A n \in Nat \cup {EAGAIN, EBADF} : Returned(n) \in CallResult
  BY DEF Returned, CallResult
<1>3. CASE SendCall(s)
  <2>1. PICK len \in LENS, hwm \in HWMS, timeout \in Timeout :
          scall' = [scall EXCEPT ![s] = [msg |-> [src |-> s, len |-> len],
                                         hwm |-> hwm, timeout |-> timeout]]
    BY <1>3 DEF SendCall
  <2>2. [msg |-> [src |-> s, len |-> len], hwm |-> hwm, timeout |-> timeout] \in SendArgs
    BY CallConstants DEF SendArgs, Message
  <2> QED BY <1>1, <1>2, <1>3, <2>1, <2>2 DEF SendCall, LogTyped
<1>4. CASE Push(s)
  <2> DEFINE m == Stored(scall[s].msg)
  <2>1. m \in StoredMessage /\ m.len \in Nat
    <3>1. scall[s].msg \in Message
      BY DEF LogTyped, SendArgs
    <3>2. /\ m.src = scall[s].msg.src /\ m.len = Smaller(SEND_BUFLEN, scall[s].msg.len)
          /\ m = [src |-> m.src, len |-> m.len]
      BY <3>1 DEF Stored, Message
    <3>3. m.src \in Senders /\ m.len \in 0 .. SEND_BUFLEN
      BY <3>1, <3>2, CallConstants DEF Message, Smaller
    <3> HIDE DEF m
    <3> QED BY <3>2, <3>3, CallConstants DEF StoredMessage
  <2>2. q' = Append(q, m) /\ SendReturn(s, m.len)
        /\ pc' = [Notified(Receivers) EXCEPT ![s] = "idle"]
    BY <1>4 DEF Push
  <2> HIDE DEF m
  <2>3. Notified(Receivers) \in [Threads -> {"idle", "enter", "wait", "woken", "expired"}]
    BY DEF LogTyped, Notified
  <2> QED BY <1>1, <1>2, <2>1, <2>2, <2>3 DEF SendReturn, LogTyped
<1>5. CASE \E n \in {EBADF, 0, EAGAIN} : SendRefused(s, n)
  <2>1. PICK n \in Nat \cup {EAGAIN, EBADF} : SendRefused(s, n)
    BY <1>5
  <2>2. Returned(n) \in CallResult
    BY <1>2
  <2> QED BY <1>1, <2>1, <2>2 DEF SendRefused, SendReturn, LogTyped
<1>6. CASE Sleep(s)
  BY <1>1, <1>6 DEF Sleep, LogTyped
<1>7. CASE WriteNothing(s)
  BY <1>1, <1>2, <1>7 DEF WriteNothing, LogTyped
<1> QED BY <1>3, <1>4, <1>5, <1>6, <1>7 DEF SendEnter, SendWake

\* The calls of the readers keep the types.
LEMMA LogRecvTyped ==
  ASSUME LogTyped, NEW r \in Receivers, RecvCall(r) \/ LogRecvEnter(r) \/ RecvWake(r)
  PROVE  LogTyped'
<1>1. r \in Threads /\ NoRecv \in RecvArgs
  BY DEF Threads, NoRecv, RecvArgs, Timeout
<1>2. \A n \in Nat \cup {EAGAIN, EBADF} : Returned(n) \in CallResult
  BY DEF Returned, CallResult
<1>3. CASE RecvCall(r)
  <2>1. PICK len \in RECV_LENS, timeout \in Timeout :
          rcall' = [rcall EXCEPT ![r] = [len |-> len, timeout |-> timeout]]
    BY <1>3 DEF RecvCall
  <2>2. [len |-> len, timeout |-> timeout] \in RecvArgs
    BY CallConstants DEF RecvArgs
  <2> QED BY <1>1, <1>2, <1>3, <2>1, <2>2 DEF RecvCall, LogTyped
<1>4. CASE q # <<>> /\ Pop(r)
  <2> DEFINE m == Head(q)
             n == Smaller(m.len, rcall[r].len)
  <2>1. m \in StoredMessage
    BY <1>4 DEF LogTyped
  <2>2. /\ q' = Tail(q) /\ RecvReturn(r, Received(n, m))
        /\ pc' = [Notified(Senders) EXCEPT ![r] = "idle"]
    BY <1>4 DEF Pop
  <2> HIDE DEF m
  <2>3. Received(n, m) \in CallResult
    <3>1. rcall[r].len \in Nat /\ m.len \in Nat /\ m.src \in Senders
      BY <2>1, CallConstants DEF LogTyped, RecvArgs, StoredMessage
    <3>2. n \in Nat
      BY <3>1 DEF Smaller
    <3> QED BY <3>1, <3>2 DEF Received, CallResult
  <2>4. Notified(Senders) \in [Threads -> {"idle", "enter", "wait", "woken", "expired"}]
    BY DEF LogTyped, Notified
  <2> HIDE DEF n
  <2>5. q' \in Seq(StoredMessage)
    BY <1>4, <2>2 DEF LogTyped
  <2> QED BY <1>1, <2>2, <2>3, <2>4, <2>5 DEF RecvReturn, LogTyped
<1>5. CASE \E n \in {EBADF, EAGAIN} : RecvRefused(r, n)
  <2>1. PICK n \in {EAGAIN, EBADF} : RecvRefused(r, n)
    BY <1>5
  <2>2. Returned(n) \in CallResult
    BY <1>2
  <2> QED BY <1>1, <2>1, <2>2 DEF RecvRefused, RecvReturn, LogTyped
<1>6. CASE Sleep(r)
  BY <1>1, <1>6 DEF Sleep, LogTyped
<1>7. CASE CloseDeferred(r)
  BY <1>1, <1>2, <1>7 DEF CloseDeferred, RecvReturn, LogTyped
<1> QED BY <1>3, <1>4, <1>5, <1>6, <1>7 DEF LogRecvEnter, RecvEnter, RecvWake

\* Timeouts, wake-ups, closing and resetting keep the types.
LEMMA LogOtherTyped ==
  ASSUME LogTyped,
         \/ \E t \in Threads : Expire(t) \/ SpuriousWake(t)
         \/ Close \/ ResetLog \/ UNCHANGED vars
  PROVE  LogTyped'
<1>1. CASE \E t \in Threads : Expire(t) \/ SpuriousWake(t)
  BY <1>1 DEF Expire, SpuriousWake, LogTyped
<1>2. CASE Close
  <2>1. Notified(Threads) \in [Threads -> {"idle", "enter", "wait", "woken", "expired"}]
    BY DEF LogTyped, Notified
  <2> QED BY <1>2, <2>1 DEF Close, LogTyped
<1>3. CASE ResetLog \/ UNCHANGED vars
  BY <1>3 DEF ResetLog, vars, LogTyped
<1> QED BY <1>1, <1>2, <1>3

\* Every step of a log queue keeps the types.
LEMMA LogStepTyped ==
  ASSUME LogTyped, [LogNext]_log_vars
  PROVE  LogTyped'
<1>1. CASE \E s \in Senders : SendCall(s) \/ SendEnter(s) \/ SendWake(s) \/ WriteNothing(s)
  BY <1>1, LogSendTyped
<1>2. CASE \E r \in Receivers : RecvCall(r) \/ LogRecvEnter(r) \/ RecvWake(r)
  BY <1>2, LogRecvTyped
<1>3. CASE \/ \E t \in Threads : Expire(t) \/ SpuriousWake(t)
           \/ Close \/ ResetLog \/ UNCHANGED vars
  BY <1>3, LogOtherTyped
<1>4. (\E immediately \in CLOSES : CloseLog(immediately)) => Close \/ UNCHANGED vars
  BY DEF CloseLog, vars
<1>5. UNCHANGED log_vars => UNCHANGED vars
  BY DEF log_vars, vars
<1> QED BY <1>1, <1>2, <1>3, <1>4, <1>5 DEF LogNext

\* What DeferredCloseKeeps says of one step.
KeepsNow ==
  Len(q') < Len(q) =>
    /\ q' = Tail(q)
    /\ \E r \in Receivers : pc[r] # "idle" /\ pc'[r] = "idle"
                            /\ ret'[r].from = {Head(q).src}

\* When no client closes the queue at once, only a reader's step shortens it.
LEMMA KeepsStep ==
  ASSUME CLOSES \subseteq {FALSE}, LogTyped, [LogNext]_log_vars
  PROVE  KeepsNow
<1>1. q \in Seq(StoredMessage) /\ Len(q) \in Nat
  BY DEF LogTyped
<1>2. CASE q' = q
  BY <1>1, <1>2 DEF KeepsNow
<1>3. CASE \E s \in Senders : SendEnter(s) \/ SendWake(s)
  <2>1. PICK s \in Senders : SendEnter(s) \/ SendWake(s)
    BY <1>3
  <2>2. q' = q \/ q' = Append(q, Stored(scall[s].msg))
    BY <2>1 DEF SendEnter, SendWake, SendRefused, Sleep, Push
  <2>3. ASSUME NEW m, q' = Append(q, m) PROVE ~(Len(q') < Len(q))
    BY <1>1, <2>3
  <2> QED BY <1>2, <2>2, <2>3 DEF KeepsNow
<1>4. CASE \E r \in Receivers : LogRecvEnter(r) \/ RecvWake(r)
  <2>1. PICK r \in Receivers : LogRecvEnter(r) \/ RecvWake(r)
    BY <1>4
  <2>2. pc[r] # "idle" /\ r \in Threads
    BY <2>1 DEF LogRecvEnter, CloseDeferred, RecvEnter, RecvWake, Threads
  <2>3. CASE Pop(r)
    <3>1. q' = Tail(q) /\ pc' = [Notified(Senders) EXCEPT ![r] = "idle"]
      BY <2>3 DEF Pop
    <3>2. ret' = [ret EXCEPT ![r] = Received(Smaller(Head(q).len, rcall[r].len), Head(q))]
      BY <2>3 DEF Pop, RecvReturn
    <3>3. pc'[r] = "idle"
      BY <2>2, <3>1 DEF Notified
    <3>4. ret'[r].from = {Head(q).src}
      BY <2>2, <3>2 DEF LogTyped, Received
    <3> QED BY <2>2, <3>1, <3>3, <3>4 DEF KeepsNow
  <2>4. q' = q \/ Pop(r)
    BY <2>1 DEF LogRecvEnter, CloseDeferred, RecvEnter, RecvWake, RecvRefused, Sleep
  <2> QED BY <1>2, <2>3, <2>4
<1>5. CASE \E immediately \in CLOSES : CloseLog(immediately)
  <2>1. CloseLog(FALSE)
    BY <1>5
  <2>2. q' = q \/ (q = <<>> /\ q' = <<>>)
    BY <2>1 DEF CloseLog, Close
  <2> QED BY <1>2, <2>2
<1>6. CASE \/ \E s \in Senders : SendCall(s) \/ WriteNothing(s)
           \/ \E r \in Receivers : RecvCall(r)
           \/ \E t \in Threads : Expire(t) \/ SpuriousWake(t)
           \/ ResetLog \/ UNCHANGED log_vars
  <2>1. q' = q
    BY <1>6 DEF SendCall, WriteNothing, RecvCall, Expire, SpuriousWake, ResetLog, log_vars
  <2> QED BY <1>2, <2>1
<1> QED BY <1>3, <1>4, <1>5, <1>6 DEF LogNext

\* A close that is put off loses no message, for any number of writers and readers
\* and whatever size recv reads, when the client closes in no other way.
THEOREM DeferredClosesKeep ==
  ASSUME CLOSES \subseteq {FALSE}
  PROVE  LogSpec => DeferredCloseKeeps
<1>1. LogTyped /\ [LogNext]_log_vars => LogTyped' /\ [KeepsNow]_log_vars
  BY LogStepTyped, KeepsStep
<1>2. DeferredCloseKeeps <=> [][KeepsNow]_log_vars
  BY PTL DEF DeferredCloseKeeps, KeepsNow
<1> QED BY <1>1, <1>2, LogInitTyped, PTL DEF LogSpec

-----------------------------------------------------------------------------
(* LogQueue with one reader keeps the whole invariant.  With two it does not: *)
(* the close that was put off tells nobody, and a second reader that found   *)
(* the queue empty before sleeps on.                                        *)

\* The close that was put off leaves nobody asleep: the only reader performs it,
\* and no sender with a mark waits on an empty queue.
LEMMA DeferredStep ==
  ASSUME QInv, NEW r \in Receivers, Receivers = {r}, CloseDeferred(r)
  PROVE  QInv'
<1>1. r \in Threads /\ r \notin Senders /\ Returned(EBADF) \in CallResult /\ NoRecv \in RecvArgs
  BY CallConstants DEF Threads, Returned, CallResult, NoRecv, RecvArgs, Timeout
<1>2. size = 0
  BY BufferedEmpty DEF QInv, SizeIsSum, CloseDeferred
<1>3. TypeOK'
  BY <1>1 DEF QInv, TypeOK, CloseDeferred, RecvReturn
<1>4. SizeIsSum' /\ ClosedIsEmpty'
  BY <1>2 DEF QInv, CloseDeferred, RecvReturn, SizeIsSum, ClosedIsEmpty
<1>5. \A s \in Senders : pc[s] # "wait"
  <2>1. SUFFICES ASSUME NEW s \in Senders, pc[s] = "wait" PROVE FALSE
    OBVIOUS
  <2>2. scall[s].hwm \in Int /\ scall[s].hwm # 0 /\ ~Room(s)
    BY <2>1 DEF QInv, TypeOK, SendArgs, NoLostWakeup, SleepersArmed
  <2> QED BY <1>2, <2>2 DEF Room
<1>6. pc' = [pc EXCEPT ![r] = "idle"]
  BY DEF CloseDeferred
<1>7. NoLostWakeup'
  <2>1. \A t \in Threads : pc'[t] # "wait"
    BY <1>5, <1>6 DEF QInv, TypeOK, Threads
  <2> QED BY <2>1 DEF NoLostWakeup, Threads
<1>8. SleepersArmed'
  BY <1>1, <1>6 DEF QInv, TypeOK, SleepersArmed, CloseDeferred, RecvReturn, TimeoutOf, Threads
<1> QED BY <1>3, <1>4, <1>7, <1>8 DEF QInv

\* What only a log queue does keeps the invariant: a write of nothing, and the
\* opening of a queue that may be in use.
LEMMA LogOwnStep ==
  ASSUME QInv, (\E s \in Senders : WriteNothing(s)) \/ ResetLog
  PROVE  QInv'
<1>1. CASE \E s \in Senders : WriteNothing(s)
  <2>1. PICK s \in Senders : WriteNothing(s)
    BY <1>1
  <2>2. s \in Threads /\ Returned(0) \in CallResult
    BY DEF Threads, Returned, CallResult
  <2>3. TypeOK'
    BY <2>1, <2>2 DEF QInv, TypeOK, WriteNothing
  <2>4. SizeIsSum' /\ ClosedIsEmpty' /\ NoLostWakeup' /\ SleepersArmed'
    BY <2>1 DEF QInv, WriteNothing, SizeIsSum, ClosedIsEmpty, NoLostWakeup, SleepersArmed,
       TimeoutOf, Room
  <2> QED BY <2>3, <2>4 DEF QInv
<1>2. CASE ResetLog
  <2>1. TypeOK'
    BY <1>2 DEF QInv, TypeOK, ResetLog
  <2>2. SizeIsSum' /\ ClosedIsEmpty' /\ NoLostWakeup' /\ SleepersArmed'
    BY <1>2 DEF QInv, ResetLog, SizeIsSum, ClosedIsEmpty, NoLostWakeup, SleepersArmed,
       TimeoutOf, Room
  <2> QED BY <2>1, <2>2 DEF QInv
<1> QED BY <1>1, <1>2

\* A log queue with one reader counts its bytes, is empty when closed and leaves
\* nobody asleep on a condition that holds, though it may be opened in use and
\* closed without a word.
THEOREM OneReaderInvariance ==
  ASSUME FREED_SIZES = {}, NEW reader, Receivers = {reader}
  PROVE  LogSpec => [](TypeOK /\ SizeIsSum /\ NoLostWakeup /\ ClosedIsEmpty)
<1>1. ASSUME QInv, [LogNext]_log_vars
      PROVE  QInv'
  <2>1. CASE \E s \in Senders : SendCall(s) \/ SendEnter(s) \/ SendWake(s)
    BY <1>1, <2>1, CallStep, SendStep
  <2>2. CASE \E r \in Receivers : LogRecvEnter(r) \/ RecvCall(r) \/ RecvWake(r)
    <3>1. PICK r \in Receivers : LogRecvEnter(r) \/ RecvCall(r) \/ RecvWake(r)
      BY <2>2
    <3>2. CASE CloseDeferred(r)
      <4>1. Receivers = {r}
        OBVIOUS
      <4> QED BY <1>1, <3>2, <4>1, DeferredStep
    <3>3. CASE RecvEnter(r) \/ RecvWake(r)
      BY <1>1, <3>3, RecvStep
    <3>4. CASE RecvCall(r)
      BY <1>1, <3>4, CallStep
    <3> QED BY <3>1, <3>2, <3>3, <3>4 DEF LogRecvEnter
  <2>3. CASE \E t \in Threads : Expire(t) \/ SpuriousWake(t)
    BY <1>1, <2>3, WakeStep
  <2>4. CASE \E immediately \in CLOSES : CloseLog(immediately)
    <3>1. Close \/ UNCHANGED vars
      BY <2>4 DEF CloseLog, vars
    <3>2. ASSUME UNCHANGED vars PROVE QInv'
      BY <1>1, <3>2, QNextStep
    <3> QED BY <1>1, <3>1, <3>2, CloseStep
  <2>5. CASE (\E s \in Senders : WriteNothing(s)) \/ ResetLog
    BY <1>1, <2>5, LogOwnStep
  <2>6. CASE UNCHANGED log_vars
    <3>1. UNCHANGED vars
      BY <2>6 DEF log_vars, vars
    <3> QED BY <1>1, <3>1, QNextStep
  <2> QED BY <1>1, <2>1, <2>2, <2>3, <2>4, <2>5, <2>6 DEF LogNext
<1>2. LogInit => QInv
  BY InitQInv DEF LogInit
<1>3. QInv => TypeOK /\ SizeIsSum /\ NoLostWakeup /\ ClosedIsEmpty
  BY DEF QInv
<1> QED BY <1>1, <1>2, <1>3, PTL DEF LogSpec

=============================================================================
