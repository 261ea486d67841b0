----------------------------- MODULE MCUpstream -----------------------------
(* Upstream with two payloads. *)
EXTENDS Upstream

\* One and two bytes in the last block, and characters of every range of the alphabet:
\* "+/8Q0w==" and "a74=".
SomePayloads == <<<<251, 255, 16, 211>>, <<107, 190>>>>
=============================================================================
