---------------------------- MODULE MCDownstream ----------------------------
(* Downstream with a selection of requests. *)
EXTENDS Downstream

Pull_resp(tok, time, rest, size, data) ==
  [kind |-> "PULL_RESP", token |-> tok,
   content |-> [time |-> time, rest |-> rest, size |-> size, data |-> data]]

\* An immediate request, the same with another token, one with a GPS time, and requests
\* with every mistake.  A correct one with a timestamp can be answered just as one with
\* a GPS time, and a wrong power is answered just as a wrong frequency.  The texts are
\* "a74=" (two bytes), "1Q" (one byte, with a size of two), one with no room for its six
\* bytes, and "a7?=".
SomeRequests ==
  {Pull_resp(1, "imme", "OK", 2, <<97, 55, 52, 61>>),
   Pull_resp(2, "imme", "OK", 2, <<97, 55, 52, 61>>),
   Pull_resp(2, "tmms", "OK", 2, <<49, 81>>),
   Pull_resp(1, "tmms", "JSON", 0, <<>>),
   Pull_resp(1, "tmst", "TX_FREQ", 6, <<97, 55, 52, 47, 97, 55, 52, 47>>),
   Pull_resp(2, "tmst", "OK", 2, <<97, 55, 63, 61>>)}
=============================================================================
