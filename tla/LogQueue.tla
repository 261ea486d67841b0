------------------------------ MODULE LogQueue ------------------------------
(***************************************************************************)
(* The template class LogQueue of lora_comms.cc: a Queue the forwarder's    *)
(* threads write their log to (the senders) and a client reads (the         *)
(* receivers), which can be closed at once or when it has run empty.        *)
(*                                                                          *)
(* write_hwm, write_timeout and the size of a message can be set at any     *)
(* time: every call takes them from the sets of values it may find.         *)
(***************************************************************************)
EXTENDS WaitQueue

CONSTANTS
  CLOSES   \* the ways the client closes the queue: TRUE at once, FALSE when empty

ASSUME LogConstants == CLOSES \subseteq BOOLEAN

VARIABLES
  close_pending   \* a close is to happen when the queue is found empty

log_vars == <<q, size, closed, pc, scall, rcall, ret, sends, close_pending>>

LogInit == Init /\ close_pending = FALSE

\* write: a message that formats to nothing is not queued.
WriteNothing(s) ==
  /\ pc[s] = "idle"
  /\ ret' = [ret EXCEPT ![s] = Returned(0)]
  /\ UNCHANGED <<q, size, closed, pc, scall, rcall, sends, close_pending>>

\* LogQueue::wait_for_not_empty, before anything is waited for: the queue is empty
\* and the close that was put off happens now; nobody is told.
CloseDeferred(r) ==
  /\ pc[r] = "enter"
  /\ ~closed
  /\ q = <<>>
  /\ close_pending
  /\ closed' = TRUE
  /\ pc' = [pc EXCEPT ![r] = "idle"]
  /\ RecvReturn(r, Returned(EBADF))
  /\ UNCHANGED <<q, size, close_pending>>

\* dequeue with the override of wait_for_not_empty.
LogRecvEnter(r) ==
  \/ CloseDeferred(r)
  \/ /\ closed \/ q # <<>> \/ ~close_pending
     /\ RecvEnter(r)
     /\ UNCHANGED close_pending

\* Mutant: a queue that still holds messages is closed.
CloseLogEager(immediately) ==
  /\ close_pending' = TRUE
  /\ Close

CloseLog(immediately) ==
  /\ close_pending' = TRUE
  /\ IF immediately \/ q = <<>> THEN Close
     ELSE UNCHANGED <<q, size, closed, pc, scall, rcall, ret, sends>>

\* reset_log_queues: at any time.
ResetLog ==
  /\ close_pending' = FALSE
  /\ closed' = FALSE
  /\ UNCHANGED <<q, size, pc, scall, rcall, ret, sends>>

LogNext ==
  \/ /\ \E s \in Senders : SendCall(s) \/ SendEnter(s) \/ SendWake(s)
     /\ UNCHANGED close_pending
  \/ \E s \in Senders : WriteNothing(s)
  \/ \E r \in Receivers : LogRecvEnter(r)
  \/ /\ \E r \in Receivers : RecvCall(r) \/ RecvWake(r)
     /\ UNCHANGED close_pending
  \/ /\ \E t \in Threads : Expire(t) \/ SpuriousWake(t)
     /\ UNCHANGED close_pending
  \/ \E immediately \in CLOSES : CloseLog(immediately)
  \/ ResetLog

\* As for WaitQueue; besides, the client reads the log in a loop.
LogFairness ==
  /\ \A s \in Senders : WF_log_vars((SendEnter(s) \/ SendWake(s)) /\ UNCHANGED close_pending)
  /\ \A r \in Receivers :
       /\ WF_log_vars(LogRecvEnter(r) \/ (RecvWake(r) /\ UNCHANGED close_pending))
       /\ WF_log_vars(RecvCall(r) /\ UNCHANGED close_pending)
  /\ \A t \in Threads : WF_log_vars(Expire(t) /\ UNCHANGED close_pending)

LogSpec == LogInit /\ [][LogNext]_log_vars /\ LogFairness

-----------------------------------------------------------------------------
(* Properties.                                                             *)

\* A close that is put off loses no message: when the client closes in no other way
\* a message leaves the queue only in its turn and to a reader, even if the close
\* comes while others still write (lora_comms.cc:250-251, 290).
DeferredCloseKeeps ==
  [][Len(q') < Len(q) =>
       /\ q' = Tail(q)
       /\ \E r \in Receivers : pc[r] # "idle" /\ pc'[r] = "idle"
                               /\ ret'[r].from = {Head(q).src}]_log_vars

\* A reader left behind: it had gone to sleep for good before the close that was put
\* off took place, and that close tells nobody.
Stranded(r) == closed /\ pc[r] = "wait" /\ rcall[r].timeout = "block"

\* "Close the log queues, either immediately or when empty" (lora_comms.h:68): a close
\* that was asked for happens once the readers have drained the queue, unless it is
\* reset first.  Then every sender's call in progress returns, and every reader's but
\* that of a reader left behind: only a close that another reader carries out leaves
\* one, so a client that reads with one thread never does (lora_comms.cc:290-294).
PendingCloses ==
  /\ close_pending ~> closed \/ ~close_pending
  /\ \A s \in Senders : closed /\ pc[s] # "idle" ~> pc[s] = "idle" \/ ~closed
  /\ \A r \in Receivers :
       closed /\ pc[r] # "idle" /\ ~Stranded(r) ~> pc[r] = "idle" \/ ~closed
  /\ [][\A r \in Receivers : Stranded(r)' /\ ~Stranded(r) =>
          \E other \in Receivers \ {r} :
            pc[other] = "enter" /\ ret'[other] = Returned(EBADF)]_log_vars
=============================================================================
