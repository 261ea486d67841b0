---------------------------- MODULE MCLifecycle ----------------------------
(* Lifecycle with small sets of configurations. *)
EXTENDS Lifecycle

\* With and without a GPS device, with and without autoquit.
AnyConfig == Config
\* A GPS device, and autoquit.
GpsAutoquit == {[gps |-> TRUE, autoquit |-> TRUE]}
=============================================================================
