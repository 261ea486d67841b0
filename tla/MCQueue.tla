------------------------------ MODULE MCQueue ------------------------------
(* WaitQueue on small sets of threads. *)
EXTENDS WaitQueue

\* No data, and a mark that two short messages reach.
Marks == {0, 2}
=============================================================================
