----------------------------- MODULE WaitQueue -----------------------------
(***************************************************************************)
(* The template classes WaitQueue and Queue of lora_comms.cc: a queue of    *)
(* messages with a byte counter, one mutex and two condition variables, on  *)
(* which senders wait for room and receivers for messages.                  *)
(*                                                                          *)
(* A section of a call that runs under the mutex is one step.  A thread     *)
(* asleep on a condition variable is at "wait"; a notification, or nothing  *)
(* at all, moves it to "woken" and the end of its timeout to "expired",     *)
(* where it competes for the mutex and then looks at its predicate again.   *)
(***************************************************************************)
EXTENDS QueueCalls

CONSTANTS
  FREED_SIZES   \* what Queue::recv can read as the size of the element it has
                \*   popped, besides the size it had; empty: the memory is intact

ASSUME FreedSizes == FREED_SIZES \subseteq Nat

VARIABLES
  q,       \* the messages buffered
  size,    \* their bytes
  closed,
  pc,      \* where each thread is in its call
  scall,   \* the arguments of the senders' calls
  rcall,   \* the arguments of the receivers' calls
  ret,     \* what the last call of each thread returned
  sends    \* bound: calls of each sender

vars == <<q, size, closed, pc, scall, rcall, ret, sends>>

NoSend(s) == [msg |-> [src |-> s, len |-> 0], hwm |-> 0, timeout |-> "poll"]
NoRecv == [len |-> 0, timeout |-> "poll"]

TypeOK ==
  /\ q \in Seq(StoredMessage)
  /\ size \in Nat
  /\ closed \in BOOLEAN
  /\ pc \in [Threads -> {"idle", "enter", "wait", "woken", "expired"}]
  /\ scall \in [Senders -> SendArgs]
  /\ rcall \in [Receivers -> RecvArgs]
  /\ ret \in [Threads -> CallResult]
  /\ sends \in [Senders -> Nat]

Init ==
  /\ q = <<>>
  /\ size = 0
  /\ closed = FALSE
  /\ pc = [t \in Threads |-> "idle"]
  /\ scall = [s \in Senders |-> NoSend(s)]
  /\ rcall = [r \in Receivers |-> NoRecv]
  /\ ret = [t \in Threads |-> Returned(0)]
  /\ sends = [s \in Senders |-> 0]

\* notify_all: every thread asleep on the condition variable is woken.
Notified(cv) == [t \in Threads |-> IF t \in cv /\ pc[t] = "wait" THEN "woken" ELSE pc[t]]

\* The thread goes (back) to sleep and gives up the mutex.
Sleep(t) ==
  /\ pc' = [pc EXCEPT ![t] = "wait"]
  /\ UNCHANGED <<q, size, closed, scall, rcall, ret, sends>>

-----------------------------------------------------------------------------
(* Senders.                                                                *)

\* send is called; the mark and the timeout are read before the mutex is taken.
SendCall(s) ==
  /\ pc[s] = "idle"
  /\ sends[s] < MAX_SENDS
  /\ \E len \in LENS, hwm \in HWMS, timeout \in Timeout :
       scall' = [scall EXCEPT ![s] = [msg |-> [src |-> s, len |-> len],
                                      hwm |-> hwm, timeout |-> timeout]]
  /\ pc' = [pc EXCEPT ![s] = "enter"]
  /\ ret' = [ret EXCEPT ![s] = Returned(0)]
  /\ sends' = [sends EXCEPT ![s] = sends[s] + 1]
  /\ UNCHANGED <<q, size, closed, rcall>>

SendReturn(s, n) ==
  /\ scall' = [scall EXCEPT ![s] = NoSend(s)]
  /\ ret' = [ret EXCEPT ![s] = Returned(n)]
  /\ UNCHANGED <<closed, rcall, sends>>

SendRefused(s, n) ==
  /\ pc' = [pc EXCEPT ![s] = "idle"]
  /\ UNCHANGED <<q, size>>
  /\ SendReturn(s, n)

\* The message is stored and every receiver told.
Push(s) ==
  LET m == Stored(scall[s].msg)
  IN  /\ q' = Append(q, m)
      /\ size' = size + m.len
      /\ pc' = [Notified(Receivers) EXCEPT ![s] = "idle"]
      /\ SendReturn(s, m.len)

\* Nothing keeps the sender waiting: no mark, or the bytes are below it.
Room(s) == scall[s].hwm < 0 \/ size < scall[s].hwm

\* enqueue, from the mutex being taken to its end or to the first sleep.
SendEnter(s) ==
  /\ pc[s] = "enter"
  /\ \/ closed /\ SendRefused(s, EBADF)
     \/ ~closed /\ scall[s].hwm = 0 /\ SendRefused(s, 0)
     \/ ~closed /\ scall[s].hwm # 0 /\ Room(s) /\ Push(s)
     \/ /\ ~closed /\ scall[s].hwm # 0 /\ ~Room(s)
        /\ IF scall[s].timeout = "poll" THEN SendRefused(s, EAGAIN) ELSE Sleep(s)

\* Mutant: the predicate is not looked at again after a notification.
SendWakeOnce(s) ==
  \/ pc[s] = "woken" /\ closed /\ SendRefused(s, EBADF)
  \/ pc[s] = "woken" /\ ~closed /\ Push(s)
  \/ pc[s] = "expired" /\ SendRefused(s, EAGAIN)

\* Mutant: a sender woken by the closing goes on.
SendWakeClosed(s) ==
  \/ pc[s] \in {"woken", "expired"} /\ Room(s) /\ Push(s)
  \/ pc[s] = "woken" /\ ~Room(s) /\ Sleep(s)
  \/ pc[s] = "expired" /\ ~Room(s) /\ SendRefused(s, EAGAIN)

\* wait, when the thread has the mutex again: the closing and the predicate are
\* looked at once more, and a timeout only counts when neither holds.
SendWake(s) ==
  /\ pc[s] \in {"woken", "expired"}
  /\ \/ closed /\ SendRefused(s, EBADF)
     \/ ~closed /\ Room(s) /\ Push(s)
     \/ /\ ~closed /\ ~Room(s)
        /\ IF pc[s] = "expired" THEN SendRefused(s, EAGAIN) ELSE Sleep(s)

-----------------------------------------------------------------------------
(* Receivers.                                                              *)

\* recv is called.
RecvCall(r) ==
  /\ pc[r] = "idle"
  /\ \E len \in RECV_LENS, timeout \in Timeout :
       rcall' = [rcall EXCEPT ![r] = [len |-> len, timeout |-> timeout]]
  /\ pc' = [pc EXCEPT ![r] = "enter"]
  /\ ret' = [ret EXCEPT ![r] = Returned(0)]
  /\ UNCHANGED <<q, size, closed, scall, sends>>

RecvReturn(r, result) ==
  /\ rcall' = [rcall EXCEPT ![r] = NoRecv]
  /\ ret' = [ret EXCEPT ![r] = result]
  /\ UNCHANGED <<scall, sends>>

RecvRefused(r, n) ==
  /\ pc' = [pc EXCEPT ![r] = "idle"]
  /\ UNCHANGED <<q, size, closed>>
  /\ RecvReturn(r, Returned(n))

\* Mutant: the byte counter is lowered by what fitted the receiver's buffer.
PopCopied(r) ==
  LET n == Smaller(Head(q).len, rcall[r].len)
  IN  /\ q' = Tail(q)
      /\ size' = size - n
      /\ pc' = [Notified(Senders) EXCEPT ![r] = "idle"]
      /\ RecvReturn(r, Received(n, Head(q)))
      /\ UNCHANGED closed

\* Mutant: senders are only told when the queue has become empty.
PopTellsWhenEmpty(r) ==
  /\ q' = Tail(q)
  /\ size' = size - Head(q).len
  /\ pc' = [Notified(IF Len(q) = 1 THEN Senders ELSE {}) EXCEPT ![r] = "idle"]
  /\ RecvReturn(r, Received(Smaller(Head(q).len, rcall[r].len), Head(q)))
  /\ UNCHANGED closed

\* Mutant: the newest message is taken.
PopNewest(r) ==
  LET m == q[Len(q)]
  IN  /\ q' = SubSeq(q, 1, Len(q) - 1)
      /\ size' = size - m.len
      /\ pc' = [Notified(Senders) EXCEPT ![r] = "idle"]
      /\ RecvReturn(r, Received(Smaller(m.len, rcall[r].len), m))
      /\ UNCHANGED closed

\* The oldest message is taken, what does not fit the buffer is lost, and every
\* sender is told.  The counter is lowered by el.size() after q.pop() has
\* destroyed el: the old size, or whatever its memory holds by then.
Pop(r) ==
  LET m == Head(q)
  IN  /\ q' = Tail(q)
      /\ \E freed \in FREED_SIZES \cup {m.len} : size' = size - freed
      /\ pc' = [Notified(Senders) EXCEPT ![r] = "idle"]
      /\ RecvReturn(r, Received(Smaller(m.len, rcall[r].len), m))
      /\ UNCHANGED closed

\* dequeue, from the mutex being taken to its end or to the first sleep.
RecvEnter(r) ==
  /\ pc[r] = "enter"
  /\ \/ closed /\ RecvRefused(r, EBADF)
     \/ ~closed /\ q # <<>> /\ Pop(r)
     \/ /\ ~closed /\ q = <<>>
        /\ IF rcall[r].timeout = "poll" THEN RecvRefused(r, EAGAIN) ELSE Sleep(r)

\* wait, when the thread has the mutex again.
RecvWake(r) ==
  /\ pc[r] \in {"woken", "expired"}
  /\ \/ closed /\ RecvRefused(r, EBADF)
     \/ ~closed /\ q # <<>> /\ Pop(r)
     \/ /\ ~closed /\ q = <<>>
        /\ IF pc[r] = "expired" THEN RecvRefused(r, EAGAIN) ELSE Sleep(r)

-----------------------------------------------------------------------------
(* Both.                                                                   *)

TimeoutOf(t) == IF t \in Senders THEN scall[t].timeout ELSE rcall[t].timeout

\* The deadline of wait_for passes, while the thread sleeps or after it has been
\* woken: wait_for then looks at the predicate a last time.
Expire(t) ==
  /\ pc[t] \in {"wait", "woken"}
  /\ TimeoutOf(t) = "expire"
  /\ pc' = [pc EXCEPT ![t] = "expired"]
  /\ UNCHANGED <<q, size, closed, scall, rcall, ret, sends>>

\* A condition variable may wake a thread for no reason.
SpuriousWake(t) ==
  /\ pc[t] = "wait"
  /\ pc' = [pc EXCEPT ![t] = "woken"]
  /\ UNCHANGED <<q, size, closed, scall, rcall, ret, sends>>

\* Mutant: only the receivers are told.
CloseTellsReceivers ==
  /\ q' = <<>>
  /\ size' = 0
  /\ closed' = TRUE
  /\ pc' = Notified(Receivers)
  /\ UNCHANGED <<scall, rcall, ret, sends>>

\* Mutant: only the senders are told.
CloseTellsSenders ==
  /\ q' = <<>>
  /\ size' = 0
  /\ closed' = TRUE
  /\ pc' = Notified(Senders)
  /\ UNCHANGED <<scall, rcall, ret, sends>>

Close ==
  /\ q' = <<>>
  /\ size' = 0
  /\ closed' = TRUE
  /\ pc' = Notified(Threads)
  /\ UNCHANGED <<scall, rcall, ret, sends>>

\* reset(): "Ensure no threads are accessing the packet forwarder".
Reset ==
  /\ \A t \in Threads : pc[t] = "idle"
  /\ closed' = FALSE
  /\ UNCHANGED <<q, size, pc, scall, rcall, ret, sends>>

Next ==
  \/ \E s \in Senders : SendCall(s) \/ SendEnter(s) \/ SendWake(s)
  \/ \E r \in Receivers : RecvCall(r) \/ RecvEnter(r) \/ RecvWake(r)
  \/ \E t \in Threads : Expire(t) \/ SpuriousWake(t)
  \/ Close \/ Reset

\* A thread that waits for the mutex gets it, and a timeout ends.  Nothing obliges
\* anyone to call, to close or to reset, nor a sleeping thread to wake unasked.
Fairness ==
  /\ \A s \in Senders : WF_vars(SendEnter(s) \/ SendWake(s))
  /\ \A r \in Receivers : WF_vars(RecvEnter(r) \/ RecvWake(r))
  /\ \A t \in Threads : WF_vars(Expire(t))

Spec == Init /\ [][Next]_vars /\ Fairness

-----------------------------------------------------------------------------
(* Properties.                                                             *)

\* The byte counter is the number of bytes buffered, whatever was cut off on
\* the way in or on the way out (lora_comms.cc:199 and 214).
SizeIsSum == size = Buffered(q)

\* Nobody sleeps on a condition that holds: a thread asleep and not yet notified
\* has an open queue and nothing to do (lora_comms.cc:56, 200, 215).
NoLostWakeup ==
  /\ \A s \in Senders : pc[s] = "wait" => ~closed /\ ~Room(s)
  /\ \A r \in Receivers : pc[r] = "wait" => ~closed /\ q = <<>>

\* A queue that is closed holds nothing and stays so until reset, even when senders
\* were waiting for room: a forwarder started again does not receive what
\* was meant for the one before (lora_comms.cc:47-59, 164).
ClosedIsEmpty == closed => q = <<>> /\ size = 0

\* No sender adds a message when the bytes buffered have reached its mark, even
\* if several senders were woken by the same receiver (lora_comms.cc:118-122).
MarkKept ==
  [][\A s \in Senders :
       scall[s].hwm > 0 /\ Len(q') > Len(q) /\ scall'[s] # scall[s] =>
         Buffered(q) < scall[s].hwm]_vars

\* Every call in progress when the queue is closed returns (start() closes the
\* links so that the clients' threads end, lora_comms.cc:704-705).
CloseReleases == \A t \in Threads : closed /\ pc[t] # "idle" ~> pc[t] = "idle"

\* The queue does what lora_comms.h says of send_to and recv_from.
Link == INSTANCE Channel WITH
  chan <- q, open <- ~closed, busy <- {t \in Threads : pc[t] # "idle"}
ChannelSpec == Link!Spec
=============================================================================
