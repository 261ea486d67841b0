------------------------------- MODULE MCJit -------------------------------
(***************************************************************************)
(* Instances of JitThreads for TLC: the delays of jitqueue.c scaled down,   *)
(* in the order they have in the code (start = margin < airtime < jit <     *)
(* guard < period < max advance < half of the counter), on a counter that   *)
(* wraps a few ticks after the start.                                       *)
(***************************************************************************)
EXTENDS JitThreads

\* Time stamps from just too late to far ahead.
SomeOffsets == {7, 8, 12, 14, 17}
\* A server that plans ahead: nothing within 2 * TX_JIT_DELAY + airtime.
PlannedOffsets == {13, 14, 18}
\* The earliest time stamp accepted with the delays of jit_schedules.
OneOffset == {5}
=============================================================================
