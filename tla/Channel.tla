------------------------------ MODULE Channel ------------------------------
(***************************************************************************)
(* What a link promises its users (lora_comms.h): a FIFO of messages that   *)
(* can be closed.  A call is made, and completes in one step as soon as the *)
(* buffered bytes, the messages or the closing allow it; there are no       *)
(* condition variables, no wake-ups and no byte counter.                    *)
(***************************************************************************)
EXTENDS QueueCalls

VARIABLES
  chan,   \* the messages buffered
  open,   \* whether the link accepts calls
  busy,   \* the threads in a call
  scall,  \* the arguments of the senders' calls
  rcall,  \* the arguments of the receivers' calls
  ret,    \* what the last call of each thread returned
  sends   \* bound: calls of each sender

vars == <<chan, open, busy, scall, rcall, ret, sends>>

NoSend(s) == [msg |-> [src |-> s, len |-> 0], hwm |-> 0, timeout |-> "poll"]
NoRecv == [len |-> 0, timeout |-> "poll"]

Init ==
  /\ chan = <<>>
  /\ open = TRUE
  /\ busy = {}
  /\ scall = [s \in Senders |-> NoSend(s)]
  /\ rcall = [r \in Receivers |-> NoRecv]
  /\ ret = [t \in Threads |-> Returned(0)]
  /\ sends = [s \in Senders |-> 0]

SendCall(s) ==
  /\ s \notin busy
  /\ sends[s] < MAX_SENDS
  /\ \E len \in LENS, hwm \in HWMS, timeout \in Timeout :
       scall' = [scall EXCEPT ![s] = [msg |-> [src |-> s, len |-> len],
                                      hwm |-> hwm, timeout |-> timeout]]
  /\ busy' = busy \cup {s}
  /\ ret' = [ret EXCEPT ![s] = Returned(0)]
  /\ sends' = [sends EXCEPT ![s] = sends[s] + 1]
  /\ UNCHANGED <<chan, open, rcall>>

SendReturn(s, result) ==
  /\ busy' = busy \ {s}
  /\ scall' = [scall EXCEPT ![s] = NoSend(s)]
  /\ ret' = [ret EXCEPT ![s] = Returned(result)]
  /\ UNCHANGED <<open, rcall, sends>>

\* "Positive high-water mark means wait until link has < hwm buffered bytes.
\*  Negative high-water mark means don't wait."
Room(s) == scall[s].hwm < 0 \/ Buffered(chan) < scall[s].hwm

\* "Zero high-water mark means write no data."
SendDone(s) ==
  /\ s \in busy
  /\ \/ ~open /\ SendReturn(s, EBADF) /\ UNCHANGED chan
     \/ open /\ scall[s].hwm = 0 /\ SendReturn(s, 0) /\ UNCHANGED chan
     \/ /\ open /\ scall[s].hwm # 0 /\ Room(s)
        /\ chan' = Append(chan, Stored(scall[s].msg))
        /\ SendReturn(s, Stored(scall[s].msg).len)
     \/ /\ open /\ scall[s].hwm # 0 /\ ~Room(s) /\ scall[s].timeout # "block"
        /\ SendReturn(s, EAGAIN) /\ UNCHANGED chan

RecvCall(r) ==
  /\ r \notin busy
  /\ \E len \in RECV_LENS, timeout \in Timeout :
       rcall' = [rcall EXCEPT ![r] = [len |-> len, timeout |-> timeout]]
  /\ busy' = busy \cup {r}
  /\ ret' = [ret EXCEPT ![r] = Returned(0)]
  /\ UNCHANGED <<chan, open, scall, sends>>

RecvReturn(r, result) ==
  /\ busy' = busy \ {r}
  /\ rcall' = [rcall EXCEPT ![r] = NoRecv]
  /\ ret' = [ret EXCEPT ![r] = result]
  /\ UNCHANGED <<open, scall, sends>>

RecvDone(r) ==
  /\ r \in busy
  /\ \/ ~open /\ RecvReturn(r, Returned(EBADF)) /\ UNCHANGED chan
     \/ /\ open /\ chan # <<>>
        /\ chan' = Tail(chan)
        /\ RecvReturn(r, Received(Smaller(Head(chan).len, rcall[r].len), Head(chan)))
     \/ /\ open /\ chan = <<>> /\ rcall[r].timeout # "block"
        /\ RecvReturn(r, Returned(EAGAIN)) /\ UNCHANGED chan

\* What is still buffered is lost.
Close ==
  /\ open' = FALSE
  /\ chan' = <<>>
  /\ UNCHANGED <<busy, scall, rcall, ret, sends>>

\* "Ensure no threads are accessing the packet forwarder when you call this."
Reset ==
  /\ busy = {}
  /\ open' = TRUE
  /\ UNCHANGED <<chan, busy, scall, rcall, ret, sends>>

Next ==
  \/ \E s \in Senders : SendCall(s) \/ SendDone(s)
  \/ \E r \in Receivers : RecvCall(r) \/ RecvDone(r)
  \/ Close \/ Reset

\* A call that can complete, completes.
Fairness ==
  /\ \A s \in Senders : WF_vars(SendDone(s))
  /\ \A r \in Receivers : WF_vars(RecvDone(r))

Spec == Init /\ [][Next]_vars /\ Fairness
=============================================================================
