----------------------------- MODULE GpsSerial -----------------------------
(***************************************************************************)
(* The buffer in which thread_gps (lora_pkt_fwd.c) collects what the GPS    *)
(* device sends and looks for UBX and NMEA frames.                          *)
(*                                                                          *)
(* Bytes are only ever appended behind wr_idx and removed in front, so the  *)
(* buffer is a window of the stream of the device: it holds the bytes base, *)
(* ..., base + wr_idx - 1.  Of a byte it matters only whether a frame that  *)
(* lgw_parse_ubx or lgw_parse_nmea accepts starts there: a sync character   *)
(* that starts none, or one that is not complete yet, is passed over like   *)
(* any other byte.                                                          *)
(***************************************************************************)
EXTENDS Integers, Sequences

CONSTANTS
  BUFF_SIZE,             \* sizeof serial_buff
  LGW_GPS_MIN_MSG_SIZE   \* bytes asked for by one read

\* UBX_NAV_TIMEGPS sets the time and NMEA_RMC the position; other frames are
\* recognised and dropped.
FrameKinds == {"TIMEGPS", "RMC", "OTHER"}

\* What a device sends: its bytes are numbered from 0 and frames do not overlap.
Streams ==
  {s \in [size : Nat, frames : SUBSET [start : Nat, size : Nat \ {0}, kind : FrameKinds]] :
     /\ \A f \in s.frames : f.start + f.size <= s.size
     /\ \A f, g \in s.frames : f.start <= g.start => f = g \/ f.start + f.size <= g.start}

ASSUME SerialConstants ==
  /\ BUFF_SIZE \in Nat /\ LGW_GPS_MIN_MSG_SIZE \in Nat \ {0}
  /\ 2 * LGW_GPS_MIN_MSG_SIZE <= BUFF_SIZE

VARIABLES
  stream,     \* what the device sends
  base,       \* the stream's position of serial_buff[0]
  wr_idx,
  rd_idx,
  frame_end,  \* frame_end_idx
  first,      \* base when the thread started
  handled     \* the frames recognised since, in the order of their handling

buff_vars == <<base, wr_idx, rd_idx, frame_end, handled>>
serial_vars == <<stream, base, wr_idx, rd_idx, frame_end, first, handled>>

\* The frames that lie complete in the buffer at rd_idx or behind it.
FramesAhead ==
  {f \in stream.frames : base + rd_idx <= f.start /\ f.start + f.size <= base + wr_idx}

\* An empty buffer; what an earlier thread had read and not used is lost.
SerialStart ==
  /\ base' = base + wr_idx
  /\ first' = base + wr_idx
  /\ wr_idx' = 0 /\ rd_idx' = 0 /\ frame_end' = 0
  /\ handled' = <<>>
  /\ UNCHANGED stream

\* read() returns some of the bytes asked for.
SerialRead ==
  /\ \E n \in 1 .. LGW_GPS_MIN_MSG_SIZE :
       /\ base + wr_idx + n <= stream.size
       /\ wr_idx' = wr_idx + n
  /\ rd_idx' = 0 /\ frame_end' = 0
  /\ UNCHANGED <<stream, base, first, handled>>

\* The scan comes to f, the next frame it recognises.
SerialFrame(f) ==
  /\ f \in FramesAhead
  /\ \A g \in FramesAhead : f.start <= g.start
  /\ rd_idx' = f.start + f.size - base
  /\ frame_end' = f.start + f.size - base
  /\ handled' = Append(handled, f)
  /\ UNCHANGED <<stream, base, wr_idx, first>>

\* Mutant: room for one byte is thought to be enough.
DropForRoomOne(n) == IF n > BUFF_SIZE - 1 THEN LGW_GPS_MIN_MSG_SIZE ELSE 0

\* "Prevent buffer overflow": how much of n bytes is dropped for the next read.
DropForRoom(n) == IF BUFF_SIZE - n < LGW_GPS_MIN_MSG_SIZE THEN LGW_GPS_MIN_MSG_SIZE ELSE 0

\* Mutant: the buffer is emptied when a frame has been found.
RemoveAll ==
  LET left == IF frame_end > 0 THEN 0 ELSE wr_idx
      drop == DropForRoom(left)
  IN  /\ FramesAhead = {}
      /\ base' = base + (wr_idx - left) + drop
      /\ wr_idx' = left - drop
      /\ rd_idx' = 0 /\ frame_end' = 0
      /\ UNCHANGED <<stream, first, handled>>

\* The scan is over: the bytes up to the end of the last frame are removed, and if the
\* next read would not fit some more.
SerialRemove ==
  LET left == wr_idx - frame_end
      drop == DropForRoom(left)
  IN  /\ FramesAhead = {}
      /\ base' = base + frame_end + drop
      /\ wr_idx' = left - drop
      /\ rd_idx' = 0 /\ frame_end' = 0
      /\ UNCHANGED <<stream, first, handled>>
=============================================================================
