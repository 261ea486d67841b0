------------------------------- MODULE MCLog -------------------------------
(* LogQueue on small sets of threads. *)
EXTENDS LogQueue

\* The default of the log queues, and a mark that one message reaches.
LogMarks == {-1, 1}
=============================================================================
