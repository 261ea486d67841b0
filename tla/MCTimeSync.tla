----------------------------- MODULE MCTimeSync -----------------------------
(* TimeSync with small streams. *)
EXTENDS TimeSync

Frame(k, start, size) == [start |-> start, size |-> size, kind |-> k]
World(size, frames, ticks, slips, nstarts, nsyncs) ==
  [stream |-> [size |-> size, frames |-> frames],
   bound |-> [ticks |-> ticks, slips |-> slips, starts |-> nstarts, syncs |-> nsyncs]]

SomeWorlds ==
  { \* frames of all kinds, adjacent, up to the longest that is kept and beyond, after
   \* noise, and a restart in the middle of one
   World(24, {Frame("TIMEGPS", 0, 3), Frame("RMC", 3, 5), Frame("OTHER", 10, 2),
              Frame("RMC", 14, 6), Frame("OTHER", 20, 4)}, 0, 0, 2, 0),
   World(26, {Frame("OTHER", 1, 6), Frame("RMC", 9, 7), Frame("TIMEGPS", 19, 6)}, 0, 0, 1, 0),
   \* a message in the middle of synchronisations with a counter that drifts
   World(1, {Frame("TIMEGPS", 0, 1)}, 4, 1, 1, 1),
   \* a reference that outlives a run
   World(1, {Frame("TIMEGPS", 0, 1)}, 8, 0, 2, 0),
   \* a reference that ages, is lost and is renewed, while the counter wraps around
   World(2, {Frame("TIMEGPS", 0, 1), Frame("TIMEGPS", 1, 1)}, 11, 0, 1, 0)}
=============================================================================
