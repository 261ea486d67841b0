----------------------------- MODULE QueueCalls -----------------------------
(***************************************************************************)
(* The calls of the in-memory queues of lora_pkt_fwd/src/lora_comms.cc:     *)
(* their arguments, their results and the messages they carry.  A message   *)
(* is its sender and its length; the bytes are not looked at by the queues. *)
(***************************************************************************)
EXTENDS Integers, Sequences

CONSTANTS
  Senders, Receivers,  \* the threads that call send and recv
  SEND_BUFLEN,         \* send_buflen: longer messages are cut
  LENS,                \* lengths of the messages sent
  RECV_LENS,           \* sizes of the receivers' buffers
  HWMS,                \* high-water marks: negative is none, zero is no data
  MAX_SENDS            \* bound: calls of send per sender

ASSUME CallConstants ==
  /\ Senders \cap Receivers = {}
  /\ SEND_BUFLEN \in Nat
  /\ LENS \subseteq Nat
  /\ RECV_LENS \subseteq Nat
  /\ HWMS \subseteq Int
  /\ MAX_SENDS \in Nat

Threads == Senders \cup Receivers

\* Negative or null timeouts block, zero polls, others expire.
Timeout == {"block", "poll", "expire"}

Message == [src : Senders, len : Nat]
StoredMessage == [src : Senders, len : 0 .. SEND_BUFLEN]
SendArgs == [msg : Message, hwm : Int, timeout : Timeout]
RecvArgs == [len : Nat, timeout : Timeout]

\* What a call returns: -1 with an errno, or a number of bytes; a recv also
\* fills its buffer.
EAGAIN == -11
EBADF == -9
Returned(n) == [n |-> n, from |-> {}]
Received(n, msg) == [n |-> n, from |-> {msg.src}]
CallResult == [n : Nat \cup {EAGAIN, EBADF}, from : SUBSET Senders]

Smaller(a, b) == IF a <= b THEN a ELSE b

\* The message the queue keeps of what is sent.
Stored(msg) == [msg EXCEPT !.len = Smaller(SEND_BUFLEN, msg.len)]

\* The bytes of the messages in a sequence.
Buffered(c) ==
  LET sum[n \in 0 .. Len(c)] == IF n = 0 THEN 0 ELSE sum[n - 1] + c[n].len
  IN  sum[Len(c)]
=============================================================================
