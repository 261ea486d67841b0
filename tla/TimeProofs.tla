----------------------------- MODULE TimeProofs -----------------------------
(***************************************************************************)
(* Proofs about TimeSync: its type invariant and every safety property that *)
(* its run checks, for every stream, every bound and every value of the     *)
(* constants that the assumptions of GpsSerial and TimeSync allow.          *)
(***************************************************************************)
EXTENDS TimeSync, DataFacts

-----------------------------------------------------------------------------
(* Types.                                                                  *)

\* The type invariant is inductive once it says that the host's clock has not run
\* backwards since set_concentrator_time read it, and neither has time since the pulse.
TypeInv ==
  /\ TypeOK
  /\ tpc = "count" => Ticks(unix_timeval) <= now
  /\ gpc = "trig" => gps_time <= now

\* A struct timeval holds the ticks it was made from.
LEMMA TimevalOfTicks ==
  ASSUME NEW t \in Int
  PROVE  ToTimeval(t) \in Timeval /\ Ticks(ToTimeval(t)) = t
<1> DEFINE q == t \div SECOND r == t % SECOND
<1>1. q \in Int /\ r \in Int /\ t = SECOND * q + r /\ 0 <= r /\ r < SECOND
  BY DivMod, TimeConstants
<1>2. ToTimeval(t) = [tv_sec |-> q, tv_usec |-> r]
  BY DEF ToTimeval
<1> HIDE DEF q, r
<1>3. SECOND \in Nat
  BY TimeConstants
<1> QED BY <1>1, <1>2, <1>3 DEF Timeval, Ticks

\* The ticks of a struct timeval.
LEMMA TicksType ==
  ASSUME NEW a \in Timeval
  PROVE  Ticks(a) \in Int
  BY TimeConstants DEF Ticks, Timeval

\* timersub subtracts, and its result has less than a second of ticks.
LEMMA TimersubExact ==
  ASSUME NEW a \in Timeval, NEW b \in Timeval
  PROVE  timersub(a, b) \in Timeval /\ Ticks(timersub(a, b)) = Ticks(a) - Ticks(b)
<1> DEFINE s == a.tv_sec - b.tv_sec u == a.tv_usec - b.tv_usec
<1>1. SECOND \in Nat /\ s \in Int /\ u \in Int /\ - SECOND < u /\ u < SECOND
  BY TimeConstants DEF Timeval
<1>2. Ticks(a) - Ticks(b) = s * SECOND + u
  BY <1>1 DEF Ticks, Timeval
<1>3. timersub(a, b) = IF u < 0 THEN [tv_sec |-> s - 1, tv_usec |-> u + SECOND]
                                ELSE [tv_sec |-> s, tv_usec |-> u]
  BY DEF timersub
<1> HIDE DEF s, u
<1>4. CASE u < 0
  <2>1. timersub(a, b) = [tv_sec |-> s - 1, tv_usec |-> u + SECOND]
    BY <1>3, <1>4
  <2>2. (s - 1) * SECOND + (u + SECOND) = s * SECOND + u
    BY <1>1
  <2> QED BY <1>1, <1>2, <1>4, <2>1, <2>2 DEF Timeval, Ticks
<1>5. CASE ~(u < 0)
  <2>1. timersub(a, b) = [tv_sec |-> s, tv_usec |-> u]
    BY <1>3, <1>5
  <2> QED BY <1>1, <1>2, <1>5, <2>1 DEF Timeval, Ticks
<1> QED BY <1>4, <1>5

\* What a remainder of the counter's range can be.
LEMMA CountType ==
  ASSUME NEW t \in Int
  PROVE  t % COUNTER_RANGE \in 0 .. COUNTER_RANGE - 1
<1> DEFINE r == t % COUNTER_RANGE
<1>1. r \in Int /\ 0 <= r /\ r < COUNTER_RANGE /\ COUNTER_RANGE \in Nat
  BY DivMod, TimeConstants
<1> HIDE DEF r
<1>2. r \in 0 .. COUNTER_RANGE - 1
  BY <1>1
<1> QED BY <1>2 DEF r

\* The last pulse lies in the past, and not before time 0.
LEMMA PulseType ==
  ASSUME now \in Nat
  PROVE  LastPulse \in Nat /\ LastPulse <= now
<1> DEFINE q == now \div SECOND r == now % SECOND
<1>1. q \in Int /\ r \in Int /\ now = SECOND * q + r /\ 0 <= r /\ r < SECOND /\ SECOND \in Nat
  BY DivMod, TimeConstants
<1>2. LastPulse = now - r
  BY DEF LastPulse
<1> HIDE DEF q, r
<1>3. 0 <= q
  <2>1. SUFFICES ASSUME q <= -1 PROVE FALSE
    BY <1>1
  <2>2. SECOND * q <= SECOND * (-1)
    BY <1>1, <2>1, MulMono
  <2> QED BY <1>1, <2>2
<1>4. SECOND * 0 <= SECOND * q
  BY <1>1, <1>3, MulMono
<1> QED BY <1>1, <1>2, <1>4

\* The frames of a stream: their positions, and that they do not overlap.
LEMMA StreamFrames ==
  ASSUME NEW s \in Streams
  PROVE  /\ \A f \in s.frames : f.start \in Nat /\ f.size \in Nat \ {0}
         /\ \A f, g \in s.frames : f.start <= g.start => f = g \/ f.start + f.size <= g.start
  BY DEF Streams

\* Counting does not go past the first number above XERR_INIT_AVG.
LEMMA CountedType ==
  ASSUME NEW n \in 0 .. XERR_INIT_AVG + 1
  PROVE  Counted(n) \in 0 .. XERR_INIT_AVG + 1 /\ Counted(0) \in 0 .. XERR_INIT_AVG + 1
  BY TimeConstants DEF Counted

\* The time stamp read for a pulse, and what the counter was at it.
LEMMA StampedType ==
  ASSUME TypeInv
  PROVE  /\ TrigCnt \in 0 .. COUNTER_RANGE - 1 /\ PulseCnt \in 0 .. COUNTER_RANGE - 1
         /\ gpc = "trig" => Stamped(TrigCnt) \in Stamps
<1>1. /\ now \in Nat /\ boot \in Nat /\ slip \in Nat /\ gps_time \in Nat
      /\ latch \in 0 .. COUNTER_RANGE - 1 /\ gps_count \in 0 .. COUNTER_RANGE - 1
  BY DEF TypeInv, TypeOK
<1>2. TrigCnt \in 0 .. COUNTER_RANGE - 1
  <2>1. Counter \in 0 .. COUNTER_RANGE - 1
    BY <1>1, CountType DEF Counter
  <2> QED BY <1>1, <2>1, Zenon DEF TrigCnt
<1>3. PulseCnt \in 0 .. COUNTER_RANGE - 1
  <2>1. LastPulse \in Nat
    BY <1>1, PulseType
  <2>2. (LastPulse - boot) % COUNTER_RANGE \in 0 .. COUNTER_RANGE - 1
    BY <1>1, <2>1, CountType
  <2> QED BY <1>1, <2>2, Zenon DEF PulseCnt
<1>4. ASSUME gpc = "trig" PROVE Stamped(TrigCnt) \in Stamps
  <2>1. now - gps_time + slip \in Nat
    BY <1>1, <1>4 DEF TypeInv
  <2>2. \A u \in BOOLEAN :
          [count |-> TrigCnt, pulse |-> gps_count, late |-> now - gps_time + slip, upset |-> u]
            \in Stamps
    BY <1>1, <1>2, <2>1 DEF Stamps
  <2>3. (tpc \notin {"off", "sleep"} \/ gps_time # LastPulse \/ gps_time < boot) \in BOOLEAN
    OBVIOUS
  <2> QED BY <2>2, <2>3, Zenon DEF Stamped
<1> QED BY <1>2, <1>3, <1>4

\* Which thread can be busy in which phase of main.
ThreadsInv ==
  /\ phase # "run" => gpc = "read" /\ vpc = "wait"
  /\ phase = "start" => tpc # "sleep"
  /\ phase = "off" => tpc = "sleep"

\* The indices of the buffer: no frame ends behind the place the scan has come to, and
\* before a read there is room for all it asks for.
SerialInv ==
  /\ frame_end = rd_idx /\ rd_idx <= wr_idx /\ wr_idx <= BUFF_SIZE
  /\ gpc = "read" => rd_idx = 0 /\ wr_idx + LGW_GPS_MIN_MSG_SIZE <= BUFF_SIZE

\* The first state has the types.
LEMMA InitTypes ==
  Init => TypeInv
<1> SUFFICES ASSUME Init PROVE TypeInv
  OBVIOUS
<1>1. PICK w \in WORLDS : stream = w.stream /\ bound = w.bound
  BY DEF Init
<1>2. stream \in Streams /\ bound \in Bounds
  BY <1>1, TimeConstants
<1>3. 0 \in 0 .. COUNTER_RANGE - 1 /\ 0 \in 0 .. SECOND - 1 /\ 0 \in 0 .. XERR_INIT_AVG + 1
  BY TimeConstants
<1>4. handled \in Seq(stream.frames)
  BY DEF Init
<1>5. Zero \in Timeval /\ NoReading \in Readings /\ NoStamp \in Stamps
  BY <1>3 DEF Zero, Timeval, NoReading, Readings, NoStamp, Stamps
<1>6. time_reference_gps \in [at : Nat, boot : Nat, stamp : Stamps]
  BY <1>5 DEF Init
<1>7. START_TIME \in Nat
  BY TimeConstants
<1> QED BY <1>2, <1>3, <1>4, <1>5, <1>6, <1>7 DEF Init, TypeInv, TypeOK

\* A frame taken from the buffer is a frame of the stream and ends in the buffer.
LEMMA FrameTaken ==
  ASSUME TypeOK, NEW f, SerialFrame(f)
  PROVE  /\ f \in stream.frames /\ f.start \in Nat /\ f.size \in Nat \ {0}
         /\ base + rd_idx <= f.start /\ f.start + f.size <= base + wr_idx
         /\ rd_idx' = f.start + f.size - base /\ frame_end' = f.start + f.size - base
         /\ rd_idx' \in Nat /\ rd_idx' <= wr_idx /\ rd_idx <= rd_idx'
         /\ handled' = Append(handled, f)
         /\ UNCHANGED <<stream, base, wr_idx, first>>
<1>1. f \in stream.frames /\ base + rd_idx <= f.start /\ f.start + f.size <= base + wr_idx
  BY DEF SerialFrame, FramesAhead
<1>2. f.start \in Nat /\ f.size \in Nat \ {0}
  BY <1>1, StreamFrames DEF TypeOK
<1>3. base \in Nat /\ rd_idx \in Nat /\ wr_idx \in Nat
  BY DEF TypeOK
<1> QED BY <1>1, <1>2, <1>3 DEF SerialFrame

\* What the removal after a scan leaves.
LEMMA BytesRemoved ==
  ASSUME TypeOK, SerialRemove, frame_end <= wr_idx, wr_idx <= BUFF_SIZE
  PROVE  /\ wr_idx' \in Nat /\ wr_idx' + LGW_GPS_MIN_MSG_SIZE <= BUFF_SIZE
         /\ base' \in Nat /\ base' + wr_idx' = base + wr_idx
         /\ rd_idx' = 0 /\ frame_end' = 0
         /\ \/ base' = base + frame_end
            \/ BUFF_SIZE - LGW_GPS_MIN_MSG_SIZE < wr_idx' + LGW_GPS_MIN_MSG_SIZE
         /\ FramesAhead = {}
         /\ UNCHANGED <<stream, first, handled>>
  BY SerialConstants DEF TypeOK, SerialRemove, DropForRoom

\* Every variable keeps its type, whichever thread takes a step.
LEMMA TypeStep ==
  TypeInv /\ ThreadsInv /\ SerialInv /\ [Next]_vars => TypeInv'
<1> SUFFICES ASSUME TypeInv, ThreadsInv, SerialInv, [Next]_vars PROVE TypeInv'
  OBVIOUS
<1> USE DEF vars, clock_vars, main_vars, sync_vars, gps_vars, valid_vars, serial_vars
<1>1. TypeOK /\ now \in Nat /\ boot \in Nat /\ slip \in Nat
  BY DEF TypeInv, TypeOK
<1>2. CASE Tick
  <2>1. (now + 1 - boot + slip) % COUNTER_RANGE \in 0 .. COUNTER_RANGE - 1
    BY <1>1, CountType
  <2>2. now' \in Nat /\ latch' \in 0 .. COUNTER_RANGE - 1
    BY <1>1, <1>2, <2>1 DEF Tick, TypeOK
  <2>3. TypeOK'
    BY <1>1, <1>2, <2>2 DEF Tick, TypeOK
  <2>4. unix_timeval \in Timeval
    BY <1>1 DEF TypeOK
  <2>5. Ticks(unix_timeval) \in Int
    BY <2>4, TicksType
  <2>6. gpc' = "trig" => gps_time' <= now'
    BY <1>1, <1>2 DEF Tick, TypeInv, TypeOK
  <2> QED BY <1>1, <1>2, <2>3, <2>5, <2>6 DEF Tick, TypeInv, Ticks
<1>3. CASE Slip
  BY <1>3 DEF Slip, TypeInv, TypeOK, Ticks
<1>4. CASE Start
  <2>1. 0 \in 0 .. COUNTER_RANGE - 1
    BY TimeConstants
  <2>2. /\ boot' = now /\ slip' = 0 /\ latch' = 0 /\ gps_en' = FALSE /\ gps_ref_valid' = FALSE
        /\ starts' = starts + 1 /\ phase' = "start" /\ tpc' = "off"
    BY <1>4 DEF Start
  <2>3. UNCHANGED <<bound, now, syncs, unix_timeval, sx1301_timecount, offset_unix_concent,
                    reading, sync, gps_vars, vpc, checked, ref_valid_local, xtal_correct_ok,
                    init_cpt, good, good_run, serial_vars>>
    BY <1>4 DEF Start
  <2>4. bound' \in Bounds /\ now' \in Nat /\ boot' \in Nat /\ slip' \in Nat
    BY <1>1, <2>2, <2>3 DEF TypeOK
  <2>5. latch' \in 0 .. COUNTER_RANGE - 1 /\ gps_en' \in BOOLEAN
    BY <2>1, <2>2
  <2>6. phase' \in {"off", "start", "run"} /\ starts' \in Nat /\ syncs' \in Nat
    BY <1>1, <2>2, <2>3 DEF TypeOK
  <2>7. TypeOK'
    BY <1>1, <2>2, <2>3, <2>4, <2>5, <2>6 DEF TypeOK
  <2>8. gpc' # "trig"
    BY <1>4 DEF Start, ThreadsInv
  <2> QED BY <2>2, <2>7, <2>8 DEF TypeInv
<1>5. CASE Stop
  BY <1>5 DEF Stop, TypeInv, TypeOK, Ticks
<1>6. CASE TimersyncWakes
  BY <1>6 DEF TimersyncWakes, TypeInv, TypeOK, Ticks
<1>7. CASE DisableGps
  BY <1>7 DEF DisableGps, TypeInv, TypeOK, Ticks
<1>8. CASE ReadClock
  <2>1. unix_timeval' \in Timeval /\ Ticks(unix_timeval') = now
    BY <1>1, <1>8, TimevalOfTicks DEF ReadClock
  <2> QED BY <1>1, <1>8, <2>1 DEF ReadClock, TypeInv, TypeOK, Ticks
<1>9. CASE ReadCount
  <2>1. PICK ok \in BOOLEAN :
          /\ sx1301_timecount' = IF ok THEN TrigCnt ELSE 0
          /\ reading' = [lag |-> now - Ticks(unix_timeval), slip |-> slip, failed |-> ~ok]
    BY <1>9 DEF ReadCount
  <2>2. TrigCnt \in 0 .. COUNTER_RANGE - 1
    BY StampedType
  <2>3. sx1301_timecount' \in 0 .. COUNTER_RANGE - 1
    BY <2>1, <2>2, TimeConstants
  <2>4. now - Ticks(unix_timeval) \in Nat
    BY <1>1, <1>9, TicksType DEF ReadCount, TypeInv, TypeOK
  <2>5. reading' \in Readings
    BY <1>1, <2>1, <2>4 DEF Readings
  <2> QED BY <1>1, <1>9, <2>3, <2>5 DEF ReadCount, TypeInv, TypeOK
<1>10. CASE SetOffset
  <2>1. unix_timeval \in Timeval /\ ToTimeval(sx1301_timecount) \in Timeval
    BY <1>1, TimevalOfTicks DEF TypeOK
  <2>2. offset_unix_concent' \in Timeval
    BY <1>10, <2>1, TimersubExact DEF SetOffset
  <2>3. unix_timeval' \in Timeval /\ sx1301_timecount' \in 0 .. COUNTER_RANGE - 1
        /\ reading' \in Readings /\ sync' \in Readings
    BY <1>1, <1>10, TimeConstants
       DEF SetOffset, TypeOK, Zero, Timeval, NoReading, Readings
  <2> QED BY <1>1, <1>10, <2>2, <2>3 DEF SetOffset, TypeInv, TypeOK
<1>11. CASE EnableGps
  <2>1. 0 \in 0 .. XERR_INIT_AVG + 1 /\ base + wr_idx \in Nat /\ <<>> \in Seq(stream.frames)
    BY <1>1, TimeConstants DEF TypeOK
  <2>2. CASE phase = "start"
    BY <1>1, <1>11, <2>1, <2>2 DEF EnableGps, SerialStart, TypeInv, TypeOK
  <2>3. CASE phase # "start"
    BY <1>1, <1>11, <2>3 DEF EnableGps, TypeInv, TypeOK
  <2> QED BY <2>2, <2>3
<1>12. CASE GpsRead
  BY <1>12 DEF GpsRead, SerialRead, TypeInv, TypeOK, Ticks
<1>13. ASSUME NEW f, SerialFrame(f)
       PROVE  /\ stream' \in Streams /\ base' \in Nat /\ wr_idx' \in Nat /\ rd_idx' \in Nat
              /\ frame_end' \in Nat /\ first' \in Nat /\ handled' \in Seq(stream'.frames)
  <2>1. /\ f \in stream.frames /\ rd_idx' \in Nat /\ frame_end' = rd_idx'
        /\ handled' = Append(handled, f) /\ UNCHANGED <<stream, base, wr_idx, first>>
    BY <1>1, <1>13, FrameTaken
  <2>2. handled' \in Seq(stream.frames)
    BY <1>1, <2>1 DEF TypeOK
  <2> QED BY <1>1, <2>1, <2>2 DEF TypeOK
<1>14. CASE GpsTime
  <2>1. LastPulse \in Nat /\ LastPulse <= now /\ PulseCnt \in 0 .. COUNTER_RANGE - 1
    BY <1>1, PulseType, StampedType
  <2>2. /\ stream' \in Streams /\ base' \in Nat /\ wr_idx' \in Nat /\ rd_idx' \in Nat
        /\ frame_end' \in Nat /\ first' \in Nat /\ handled' \in Seq(stream'.frames)
    BY <1>13, <1>14 DEF GpsTime
  <2>3. /\ gpc' \in {"read", "scan", "trig", "sync"} /\ gps_time' \in Nat
        /\ gps_count' \in 0 .. COUNTER_RANGE - 1 /\ (gpc' = "trig" => gps_time' <= now)
    BY <1>1, <1>14, <2>1 DEF GpsTime, TypeOK
  <2>4. UNCHANGED <<clock_vars, main_vars, sync_vars, trig_tstamp, time_reference_gps,
                    gps_coord_valid, valid_vars>>
    BY <1>14 DEF GpsTime
  <2>5. TypeOK'
    BY <1>1, <2>2, <2>3, <2>4 DEF TypeOK
  <2> QED BY <2>3, <2>4, <2>5 DEF TypeInv, Ticks
<1>15. CASE GpsTrigger
  <2>1. trig_tstamp' \in Stamps
    <3>1. Stamped(TrigCnt) \in Stamps
      BY <1>1, <1>15, StampedType DEF GpsTrigger
    <3>2. trig_tstamp \in Stamps
      BY <1>1 DEF TypeOK
    <3> QED BY <1>15, <3>1, <3>2, Zenon DEF GpsTrigger
  <2>2. 0 \in 0 .. COUNTER_RANGE - 1
    BY TimeConstants
  <2>3. /\ gpc' \in {"scan", "sync"} /\ gps_time' = 0 /\ gps_count' = 0
        /\ UNCHANGED <<clock_vars, main_vars, sync_vars, time_reference_gps, gps_coord_valid,
                       valid_vars, serial_vars>>
    BY <1>15 DEF GpsTrigger
  <2>4. /\ gpc' \in {"read", "scan", "trig", "sync"} /\ gps_time' \in Nat
        /\ gps_count' \in 0 .. COUNTER_RANGE - 1
    BY <2>2, <2>3
  <2>5. /\ handled' \in Seq(stream'.frames) /\ stream' \in Streams
        /\ time_reference_gps' \in [at : Nat, boot : Nat, stamp : Stamps]
        /\ reading' \in Readings /\ sync' \in Readings
    BY <1>1, <2>3, Zenon DEF TypeOK
  <2>6. /\ bound' \in Bounds /\ now' \in Nat /\ boot' \in Nat /\ slip' \in Nat
        /\ latch' \in 0 .. COUNTER_RANGE - 1 /\ gps_en' \in BOOLEAN
        /\ phase' \in {"off", "start", "run"} /\ starts' \in Nat /\ syncs' \in Nat
        /\ tpc' \in {"off", "clock", "count", "offset", "on", "sleep"}
        /\ unix_timeval' \in Timeval /\ sx1301_timecount' \in 0 .. COUNTER_RANGE - 1
        /\ offset_unix_concent' \in Timeval
    BY <1>1, <2>3 DEF TypeOK
  <2>7. /\ gps_coord_valid' \in BOOLEAN /\ vpc' \in {"wait", "correct"} /\ checked' \in Nat
        /\ gps_ref_valid' \in BOOLEAN /\ ref_valid_local' \in BOOLEAN
        /\ xtal_correct_ok' \in BOOLEAN /\ init_cpt' \in 0 .. XERR_INIT_AVG + 1
        /\ good' \in 0 .. XERR_INIT_AVG + 1 /\ good_run' \in 0 .. XERR_INIT_AVG + 1
        /\ base' \in Nat /\ wr_idx' \in Nat /\ rd_idx' \in Nat
        /\ frame_end' \in Nat /\ first' \in Nat
    BY <1>1, <2>3 DEF TypeOK
  <2>8. TypeOK'
    BY <2>1, <2>4, <2>5, <2>6, <2>7, Zenon DEF TypeOK
  <2> QED BY <2>3, <2>8 DEF TypeInv, Ticks
<1>16. CASE GpsSync
  <2>1. NoStamp \in Stamps
    BY TimeConstants DEF NoStamp, Stamps
  <2> QED BY <1>1, <1>16, <2>1 DEF GpsSync, TypeInv, TypeOK, Ticks
<1>17. CASE GpsCoords
  BY <1>1, <1>13, <1>17 DEF GpsCoords, TypeInv, TypeOK, Ticks
<1>18. CASE GpsOther
  BY <1>1, <1>13, <1>18 DEF GpsOther, TypeInv, TypeOK, Ticks
<1>19. CASE GpsScanned
  <2>1. wr_idx' \in Nat /\ base' \in Nat /\ rd_idx' = 0 /\ frame_end' = 0
        /\ UNCHANGED <<stream, first, handled>>
    BY <1>1, <1>19, BytesRemoved DEF GpsScanned, SerialInv
  <2> QED BY <1>1, <1>19, <2>1 DEF GpsScanned, TypeInv, TypeOK, Ticks
<1>20. CASE CheckReference
  <2>1. \A n \in 0 .. XERR_INIT_AVG + 1 : Counted(n) \in 0 .. XERR_INIT_AVG + 1
    BY CountedType
  <2>2. good' \in 0 .. XERR_INIT_AVG + 1 /\ good_run' \in 0 .. XERR_INIT_AVG + 1
    BY <1>1, <1>20, <2>1, TimeConstants DEF CheckReference, TypeOK
  <2>3. gps_ref_valid' \in BOOLEAN /\ ref_valid_local' \in BOOLEAN
    BY <1>20 DEF CheckReference
  <2> QED BY <1>1, <1>20, <2>2, <2>3 DEF CheckReference, TypeInv, TypeOK, Ticks
<1>21. CASE CorrectXtal
  <2>1. \A n \in 0 .. XERR_INIT_AVG + 1 : Counted(n) \in 0 .. XERR_INIT_AVG + 1
    BY CountedType
  <2>2. init_cpt' \in 0 .. XERR_INIT_AVG + 1 /\ xtal_correct_ok' \in BOOLEAN
    <3> DEFINE c == Correction(xtal_correct_ok, init_cpt, ref_valid_local)
    <3>1. init_cpt \in 0 .. XERR_INIT_AVG + 1 /\ xtal_correct_ok \in BOOLEAN
      BY <1>1 DEF TypeOK
    <3>2. c.ok \in BOOLEAN
      BY <3>1 DEF Correction
    <3>3. c.cpt = 0 \/ c.cpt = Counted(init_cpt)
      BY DEF Correction
    <3>4. c.cpt \in 0 .. XERR_INIT_AVG + 1
      BY <2>1, <3>1, <3>3, TimeConstants
    <3> QED BY <1>21, <3>2, <3>4 DEF CorrectXtal
  <2> QED BY <1>1, <1>21, <2>2 DEF CorrectXtal, TypeInv, TypeOK, Ticks
<1>22. CASE UNCHANGED vars
  BY <1>22 DEF TypeInv, TypeOK, Ticks
<1> QED
  BY <1>2, <1>3, <1>4, <1>5, <1>6, <1>7, <1>8, <1>9, <1>10, <1>11, <1>12, <1>14, <1>15,
     <1>16, <1>17, <1>18, <1>19, <1>20, <1>21, <1>22 DEF Next

-----------------------------------------------------------------------------
(* The buffer of thread_gps.                                               *)

\* Each thread is where the phase of main lets it be.
LEMMA ThreadsStep ==
  TypeInv /\ ThreadsInv /\ [Next]_vars => ThreadsInv'
<1> SUFFICES ASSUME TypeInv, ThreadsInv, [Next]_vars PROVE ThreadsInv'
  OBVIOUS
<1> USE DEF ThreadsInv, main_vars, sync_vars, gps_vars, valid_vars, vars
<1>1. CASE Tick \/ Slip \/ Start \/ Stop
  BY <1>1 DEF Tick, Slip, Start, Stop
<1>2. CASE TimersyncWakes \/ DisableGps \/ ReadClock \/ ReadCount \/ SetOffset
  BY <1>2 DEF TimersyncWakes, DisableGps, ReadClock, ReadCount, SetOffset
<1>3. CASE EnableGps
  BY <1>3, Zenon DEF EnableGps
<1>4. CASE GpsRead \/ GpsTime \/ GpsTrigger \/ GpsSync
  BY <1>4 DEF GpsRead, GpsTime, GpsTrigger, GpsSync
<1>5. CASE GpsCoords \/ GpsOther \/ GpsScanned \/ CheckReference \/ CorrectXtal
  BY <1>5 DEF GpsCoords, GpsOther, GpsScanned, CheckReference, CorrectXtal
<1>6. CASE UNCHANGED vars
  BY <1>6
<1> QED BY <1>1, <1>2, <1>3, <1>4, <1>5, <1>6 DEF Next

\* What a step does to the buffer, and where thread_gps is before and after it.
LEMMA SerialMoves ==
  ASSUME [Next]_vars
  PROVE  \/ UNCHANGED serial_vars /\ (gpc' = "read" => gpc = "read")
         \/ SerialStart
         \/ SerialRead /\ gpc = "read" /\ gpc' = "scan"
         \/ (\E f : SerialFrame(f)) /\ gpc' # "read"
         \/ SerialRemove /\ gpc' = "read"
<1> USE DEF vars, gps_vars
<1>1. CASE Tick \/ Slip \/ Start \/ Stop
  BY <1>1 DEF Tick, Slip, Start, Stop
<1>2. CASE TimersyncWakes \/ DisableGps \/ ReadClock \/ ReadCount \/ SetOffset
  BY <1>2 DEF TimersyncWakes, DisableGps, ReadClock, ReadCount, SetOffset
<1>3. CASE EnableGps
  BY <1>3, Zenon DEF EnableGps
<1>4. CASE GpsRead \/ GpsTrigger \/ GpsSync \/ GpsScanned
  BY <1>4 DEF GpsRead, GpsTrigger, GpsSync, GpsScanned
<1>5. CASE GpsTime \/ GpsCoords \/ GpsOther
  BY <1>5 DEF GpsTime, GpsCoords, GpsOther
<1>6. CASE CheckReference \/ CorrectXtal
  BY <1>6 DEF CheckReference, CorrectXtal
<1>7. CASE UNCHANGED vars
  BY <1>7
<1> QED BY <1>1, <1>2, <1>3, <1>4, <1>5, <1>6, <1>7 DEF Next

\* The indices stay within the buffer, whatever is read and wherever frames end.
LEMMA SerialStep ==
  TypeInv /\ ThreadsInv /\ SerialInv /\ [Next]_vars => SerialInv'
<1> SUFFICES ASSUME TypeInv, ThreadsInv, SerialInv, [Next]_vars PROVE SerialInv'
  OBVIOUS
<1>1. TypeOK /\ BUFF_SIZE \in Nat /\ LGW_GPS_MIN_MSG_SIZE \in Nat
      /\ LGW_GPS_MIN_MSG_SIZE <= BUFF_SIZE
  BY SerialConstants DEF TypeInv
<1>2. CASE UNCHANGED serial_vars /\ (gpc' = "read" => gpc = "read")
  BY <1>2 DEF SerialInv, serial_vars
<1>3. CASE SerialStart
  BY <1>1, <1>3 DEF SerialInv, SerialStart
<1>4. CASE SerialRead /\ gpc = "read" /\ gpc' = "scan"
  BY <1>1, <1>4 DEF SerialInv, SerialRead, TypeOK
<1>5. ASSUME NEW f, SerialFrame(f), gpc' # "read" PROVE SerialInv'
  BY <1>1, <1>5, FrameTaken DEF SerialInv, TypeOK
<1>6. CASE SerialRemove /\ gpc' = "read"
  <2>1. frame_end <= wr_idx /\ wr_idx <= BUFF_SIZE
    BY DEF SerialInv
  <2> QED BY <1>1, <1>6, <2>1, BytesRemoved DEF SerialInv
<1> QED BY <1>2, <1>3, <1>4, <1>5, <1>6, SerialMoves

\* A frame that is to be recognised, and one that has been.
Kept(f) == first <= f.start /\ f.size <= LongestKept
Handled(f) == \E i \in DOMAIN handled : handled[i] = f

\* Every frame that is kept is either handled or still ahead of the scan, the handled ones
\* in the order of the stream.
FramesInv ==
  /\ \A i \in DOMAIN handled : handled[i].start + handled[i].size <= base + rd_idx
  /\ \A i \in 1 .. Len(handled) - 1 : handled[i].start < handled[i + 1].start
  /\ \A f \in stream.frames : Kept(f) => Handled(f) \/ base + rd_idx <= f.start
  /\ gpc = "read" =>
       \A f \in stream.frames : Kept(f) /\ f.start + f.size <= base + wr_idx => Handled(f)

\* A frame that is appended is handled, and so are those that were.
LEMMA HandledAppend ==
  ASSUME NEW S, NEW s \in Seq(S), NEW g \in S
  PROVE  /\ Len(Append(s, g)) = Len(s) + 1 /\ DOMAIN Append(s, g) = 1 .. Len(s) + 1
         /\ \A i \in 1 .. Len(s) : Append(s, g)[i] = s[i]
         /\ Append(s, g)[Len(s) + 1] = g
         /\ \A i \in 1 .. Len(s) : s[i] \in S
         /\ DOMAIN s = 1 .. Len(s) /\ Len(s) \in Nat
  OBVIOUS

\* The order of the handled frames and that none is lost are kept when the scan comes to
\* the next frame.
LEMMA FrameStep ==
  ASSUME TypeInv, SerialInv, FramesInv, NEW g, SerialFrame(g), gpc' # "read"
  PROVE  FramesInv'
<1>1. TypeOK
  BY DEF TypeInv
<1>2. /\ g \in stream.frames /\ g.start \in Nat /\ g.size \in Nat \ {0}
      /\ base + rd_idx <= g.start /\ g.start + g.size <= base + wr_idx
      /\ rd_idx' = g.start + g.size - base /\ rd_idx <= rd_idx' /\ rd_idx' \in Nat
      /\ handled' = Append(handled, g)
      /\ UNCHANGED <<stream, base, wr_idx, first>>
  BY <1>1, FrameTaken
<1>3. base \in Nat /\ rd_idx \in Nat /\ wr_idx \in Nat /\ handled \in Seq(stream.frames)
      /\ stream \in Streams
  BY <1>1 DEF TypeOK
<1> DEFINE n == Len(handled)
<1>4. /\ Len(handled') = n + 1 /\ DOMAIN handled' = 1 .. n + 1
      /\ \A i \in 1 .. n : handled'[i] = handled[i]
      /\ handled'[n + 1] = g
      /\ \A i \in 1 .. n : handled[i] \in stream.frames
      /\ DOMAIN handled = 1 .. n /\ n \in Nat
  BY <1>2, <1>3, HandledAppend
<1>5. \A f \in stream.frames : f.start \in Nat /\ f.size \in Nat \ {0}
  BY <1>3, StreamFrames
<1> HIDE DEF n
<1>6. \A i \in DOMAIN handled' : handled'[i].start + handled'[i].size <= base' + rd_idx'
  <2> SUFFICES ASSUME NEW i \in 1 .. n + 1
               PROVE  handled'[i].start + handled'[i].size <= base + rd_idx'
    BY <1>2, <1>4
  <2>1. base + rd_idx' = g.start + g.size
    BY <1>2, <1>3
  <2>2. CASE i = n + 1
    BY <1>2, <1>3, <1>4, <2>1, <2>2
  <2>3. CASE i # n + 1
    <3>1. i \in 1 .. n
      BY <1>4, <2>3
    <3>2. handled'[i] = handled[i] /\ handled[i] \in stream.frames
          /\ handled[i].start + handled[i].size <= base + rd_idx
      BY <1>4, <3>1 DEF FramesInv
    <3>3. handled[i].start \in Nat /\ handled[i].size \in Nat
      BY <1>5, <3>2
    <3>4. PICK r : r = rd_idx'
      OBVIOUS
    <3>5. r \in Nat /\ rd_idx <= r
      BY <1>2, <3>4
    <3>6. handled[i].start + handled[i].size <= base + r
      BY <1>3, <3>2, <3>3, <3>5
    <3> QED BY <3>2, <3>4, <3>6
  <2> QED BY <2>2, <2>3
<1>7. \A i \in 1 .. Len(handled') - 1 : handled'[i].start < handled'[i + 1].start
  <2> SUFFICES ASSUME NEW i \in 1 .. n PROVE handled'[i].start < handled'[i + 1].start
    BY <1>4
  <2>1. CASE i = n
    <3>1. handled'[i] = handled[i] /\ handled'[i + 1] = g /\ handled[i] \in stream.frames
      BY <1>4, <2>1
    <3>2. handled[i].start + handled[i].size <= base + rd_idx
      BY <1>4 DEF FramesInv
    <3>3. handled[i].start \in Nat /\ handled[i].size \in Nat \ {0}
      BY <1>5, <3>1
    <3>4. handled[i].start < base + rd_idx
      BY <1>3, <3>2, <3>3
    <3>5. handled[i].start < g.start
      BY <1>2, <1>3, <3>3, <3>4
    <3> QED BY <3>1, <3>5
  <2>2. CASE i # n
    <3>1. i \in 1 .. n - 1 /\ i + 1 \in 1 .. n
      BY <1>4, <2>2
    <3> QED BY <1>4, <3>1 DEF FramesInv, n
  <2> QED BY <2>1, <2>2
<1>8. \A f \in stream.frames : Handled(f) => Handled(f)'
  BY <1>4 DEF Handled
<1>9. Handled(g)'
  <2>1. n + 1 \in DOMAIN handled'
    BY <1>4
  <2> QED BY <1>4, <2>1 DEF Handled
<1>10. ASSUME NEW f \in stream.frames, f # g, base + rd_idx <= f.start
       PROVE  base + rd_idx' <= f.start
  <2>1. f.start \in Nat /\ f.size \in Nat \ {0}
    BY <1>5
  <2>2. \/ g.start <= f.start
        \/ f \notin FramesAhead
    BY DEF SerialFrame
  <2>3. f.start <= g.start => f.start + f.size <= g.start
    BY <1>2, <1>3, <1>10, StreamFrames
  <2>4. g.start <= f.start => g.start + g.size <= f.start
    BY <1>2, <1>3, <1>10, StreamFrames
  <2>5. f \notin FramesAhead => base + wr_idx < f.start + f.size
    BY <1>3, <1>10, <2>1 DEF FramesAhead
  <2>6. g.start <= f.start
    BY <1>2, <1>3, <2>1, <2>2, <2>3, <2>5
  <2>7. base + rd_idx' = g.start + g.size
    BY <1>2, <1>3
  <2> QED BY <2>4, <2>6, <2>7
<1>11. \A f \in stream.frames : Kept(f)' => Kept(f)
  BY <1>2 DEF Kept
<1>12. \A f \in stream.frames : Kept(f)' => Handled(f)' \/ base + rd_idx' <= f.start
  BY <1>8, <1>9, <1>10, <1>11 DEF FramesInv
<1> QED BY <1>2, <1>6, <1>7, <1>12 DEF FramesInv

\* A removal keeps every byte of a frame that is not complete and not longer than
\* LongestKept.
LEMMA RemoveStep ==
  ASSUME TypeInv, SerialInv, FramesInv, SerialRemove
  PROVE  FramesInv'
<1>1. TypeOK /\ frame_end = rd_idx /\ frame_end <= wr_idx /\ wr_idx <= BUFF_SIZE
  BY DEF TypeInv, SerialInv
<1>2. /\ wr_idx' \in Nat /\ base' \in Nat /\ base' + wr_idx' = base + wr_idx
      /\ rd_idx' = 0
      /\ \/ base' = base + frame_end
         \/ BUFF_SIZE - LGW_GPS_MIN_MSG_SIZE < wr_idx' + LGW_GPS_MIN_MSG_SIZE
      /\ FramesAhead = {}
      /\ UNCHANGED <<stream, first, handled>>
  BY <1>1, BytesRemoved
<1>3. base \in Nat /\ rd_idx \in Nat /\ wr_idx \in Nat /\ handled \in Seq(stream.frames)
      /\ stream \in Streams
  BY <1>1 DEF TypeOK
<1>4. base + rd_idx <= base'
  <2> DEFINE drop == DropForRoom(wr_idx - frame_end)
  <2>1. drop \in Nat
    BY SerialConstants DEF DropForRoom
  <2>2. base' = base + frame_end + drop
    BY DEF SerialRemove
  <2> HIDE DEF drop
  <2> QED BY <1>1, <1>3, <2>1, <2>2
<1>5. \A f \in stream.frames : f.start \in Nat /\ f.size \in Nat \ {0}
  BY <1>3, StreamFrames
<1>6. \A i \in DOMAIN handled : handled[i] \in stream.frames
  BY <1>3
<1>7. \A i \in DOMAIN handled' : handled'[i].start + handled'[i].size <= base' + rd_idx'
  BY <1>2, <1>3, <1>4, <1>5, <1>6 DEF FramesInv
<1>8. \A f \in stream.frames : (Handled(f)' <=> Handled(f)) /\ (Kept(f)' <=> Kept(f))
  BY <1>2 DEF Handled, Kept
<1>9. ASSUME NEW f \in stream.frames, Kept(f), ~Handled(f)
      PROVE  base' <= f.start /\ base' + wr_idx' < f.start + f.size
  <2>1. f.start \in Nat /\ f.size \in Nat \ {0} /\ base + rd_idx <= f.start
    BY <1>5, <1>9 DEF FramesInv
  <2>2. base + wr_idx < f.start + f.size
    BY <1>2, <1>3, <2>1 DEF FramesAhead
  <2>3. f.size <= BUFF_SIZE - 2 * LGW_GPS_MIN_MSG_SIZE + 2
    BY <1>9 DEF Kept, LongestKept
  <2>4. PICK b, w : b = base' /\ w = wr_idx'
    OBVIOUS
  <2>5. b \in Nat /\ w \in Nat /\ b + w < f.start + f.size
    BY <1>2, <2>2, <2>4
  <2>6. b = base + frame_end \/ BUFF_SIZE - LGW_GPS_MIN_MSG_SIZE < w + LGW_GPS_MIN_MSG_SIZE
    BY <1>2, <2>4
  <2>7. BUFF_SIZE \in Nat /\ LGW_GPS_MIN_MSG_SIZE \in Nat
    BY SerialConstants
  <2>8. b <= f.start
    BY <1>1, <2>1, <2>3, <2>5, <2>6, <2>7
  <2> QED BY <2>4, <2>5, <2>8
<1>10. \A f \in stream.frames :
         Kept(f) => Handled(f) \/ (base' <= f.start /\ base' + wr_idx' < f.start + f.size)
  BY <1>9
<1>11. \A f \in stream.frames : Kept(f)' => Handled(f)' \/ base' + rd_idx' <= f.start
  BY <1>2, <1>8, <1>10
<1>12. \A f \in stream.frames :
         Kept(f)' /\ f.start + f.size <= base' + wr_idx' => Handled(f)'
  BY <1>2, <1>5, <1>8, <1>10
<1> QED BY <1>2, <1>7, <1>11, <1>12 DEF FramesInv

\* No step loses a frame.
LEMMA FramesStep ==
  TypeInv /\ ThreadsInv /\ SerialInv /\ FramesInv /\ [Next]_vars => FramesInv'
<1> SUFFICES ASSUME TypeInv, ThreadsInv, SerialInv, FramesInv, [Next]_vars PROVE FramesInv'
  OBVIOUS
<1>1. base \in Nat /\ rd_idx \in Nat /\ wr_idx \in Nat /\ handled \in Seq(stream.frames)
      /\ stream \in Streams
  BY DEF TypeInv, TypeOK
<1>2. \A f \in stream.frames : f.start \in Nat /\ f.size \in Nat \ {0}
  BY <1>1, StreamFrames
<1>3. CASE UNCHANGED serial_vars /\ (gpc' = "read" => gpc = "read")
  BY <1>3 DEF FramesInv, serial_vars, Kept, Handled
<1>4. CASE SerialStart
  <2>1. base' = base + wr_idx /\ first' = base + wr_idx /\ wr_idx' = 0 /\ rd_idx' = 0
        /\ handled' = <<>> /\ stream' = stream
    BY <1>4 DEF SerialStart
  <2>2. DOMAIN handled' = {} /\ Len(handled') = 0
    BY <2>1
  <2>3. \A f \in stream.frames : Kept(f)' => base + wr_idx <= f.start
    BY <2>1 DEF Kept
  <2> QED BY <1>1, <1>2, <2>1, <2>2, <2>3 DEF FramesInv
<1>5. CASE SerialRead /\ gpc = "read" /\ gpc' = "scan"
  BY <1>1, <1>5 DEF FramesInv, SerialInv, SerialRead, Kept, Handled
<1>6. ASSUME NEW f, SerialFrame(f), gpc' # "read" PROVE FramesInv'
  BY <1>6, FrameStep
<1>7. CASE SerialRemove /\ gpc' = "read"
  BY <1>7, RemoveStep
<1> QED BY <1>3, <1>4, <1>5, <1>6, <1>7, SerialMoves

-----------------------------------------------------------------------------
(* The reference.                                                          *)

\* A remainder is at most the number.
LEMMA ModAtMost ==
  ASSUME NEW d \in Nat
  PROVE  d % COUNTER_RANGE <= d
<1> DEFINE q == d \div COUNTER_RANGE r == d % COUNTER_RANGE
<1>1. /\ q \in Int /\ r \in Int /\ d = COUNTER_RANGE * q + r /\ 0 <= r /\ r < COUNTER_RANGE
      /\ COUNTER_RANGE \in Nat
  BY DivMod, TimeConstants
<1> HIDE DEF q, r
<1>2. 0 <= q
  <2>1. SUFFICES ASSUME q <= -1 PROVE FALSE
    BY <1>1
  <2>2. COUNTER_RANGE * q <= COUNTER_RANGE * (-1)
    BY <1>1, <2>1, MulMono
  <2> QED BY <1>1, <2>2
<1>3. COUNTER_RANGE * 0 <= COUNTER_RANGE * q
  BY <1>1, <1>2, MulMono
<1>4. r <= d
  BY <1>1, <1>3
<1> QED BY <1>4 DEF r

\* Two readings of the counter are no further apart than the counter went on between them.
LEMMA ModApart ==
  ASSUME NEW a \in Int, NEW b \in Int, a <= b
  PROVE  ((b % COUNTER_RANGE) - (a % COUNTER_RANGE)) % COUNTER_RANGE <= b - a
<1> DEFINE p == a \div COUNTER_RANGE s == a % COUNTER_RANGE
           q == b \div COUNTER_RANGE r == b % COUNTER_RANGE
<1>1. /\ p \in Int /\ s \in Int /\ a = COUNTER_RANGE * p + s
      /\ q \in Int /\ r \in Int /\ b = COUNTER_RANGE * q + r
      /\ COUNTER_RANGE \in Nat \ {0}
  BY DivMod, TimeConstants
<1> HIDE DEF p, q, r, s
<1>2. r - s = (b - a) + (p - q) * COUNTER_RANGE
  <2>1. (p - q) * COUNTER_RANGE = COUNTER_RANGE * p - COUNTER_RANGE * q
    BY <1>1
  <2> QED BY <1>1, <2>1
<1> DEFINE d == b - a k == p - q
<1>3. d \in Nat /\ k \in Int /\ r - s = d + k * COUNTER_RANGE
  BY <1>1, <1>2
<1>4. (r - s) % COUNTER_RANGE = d % COUNTER_RANGE
  <2> HIDE DEF d, k
  <2>1. (d + k * COUNTER_RANGE) % COUNTER_RANGE = d % COUNTER_RANGE
    <3>1. d \in Int /\ k \in Int /\ COUNTER_RANGE \in Nat \ {0}
      BY <1>1, <1>3
    <3> QED BY <3>1, ModMultiple, Zenon
  <2> QED BY <1>3, <2>1
<1>5. (b - a) % COUNTER_RANGE <= b - a
  BY <1>3, ModAtMost
<1> QED BY <1>4, <1>5 DEF r, s

\* The counter at time t when it has gained s ticks.
CountAt(t, s) == (t - boot + s) % COUNTER_RANGE

\* The pulse whose counter is latched, or the start that set the latch to zero.
LastLatched == IF boot <= LastPulse THEN LastPulse ELSE boot

\* The latch holds the counter at that time; and that of the pulse thread_gps is about to
\* have a time stamp for is no later.
PulseInv ==
  /\ boot <= now
  /\ \E z \in 0 .. slip : latch = CountAt(LastLatched, z)
  /\ gpc = "trig" =>
       /\ gps_time <= LastPulse
       /\ gps_time = LastPulse /\ boot <= gps_time => gps_count = latch
       /\ \E s \in 0 .. slip : \E z \in s .. slip :
            gps_count = CountAt(gps_time, s) /\ latch = CountAt(LastLatched, z)

\* A time stamp that is off by no more than the time its reading took, and for a reason.
Bounded(stamp) ==
  LET error == (stamp.count - stamp.pulse) % COUNTER_RANGE
  IN  error <= stamp.late /\ (error # 0 => stamp.upset)

\* GPS mode is on whenever set_concentrator_time is not at work; the time stamp read last
\* and that of the reference are bounded.
StampInv ==
  /\ phase = "run" /\ tpc \in {"off", "sleep"} => gps_en
  /\ Bounded(trig_tstamp)
  /\ Bounded(time_reference_gps.stamp)

\* Between two pulses the last one stays the same.
LEMMA PulseTick ==
  ASSUME NEW t \in Nat, (t + 1) % SECOND # 0
  PROVE  (t + 1) - ((t + 1) % SECOND) = t - (t % SECOND)
<1> DEFINE r == t % SECOND
<1>1. SECOND \in Nat \ {0} /\ r \in Int /\ t \in Int
  BY DivMod, TimeConstants
<1>2. CASE r + 1 = SECOND
  <2> DEFINE q == t \div SECOND
  <2>1. q \in Int /\ t = SECOND * q + r
    BY DivMod, TimeConstants
  <2> HIDE DEF q, r
  <2>2. t + 1 = SECOND * (q + 1) + 0
    BY <1>1, <1>2, <2>1
  <2>3. (SECOND * (q + 1) + 0) % SECOND = 0
    BY <1>1, <2>1, ModUnique
  <2> QED BY <2>2, <2>3
<1>3. CASE r + 1 # SECOND
  <2>1. (t + 1) % SECOND = r + 1
    BY <1>1, <1>3, ModSucc
  <2> HIDE DEF r
  <2>2. (t + 1) - (r + 1) = t - r
    BY <1>1
  <2> QED BY <2>1, <2>2 DEF r
<1> QED BY <1>2, <1>3

\* Before the first reading there is nothing to be off.
LEMMA NoStampBounded == Bounded(NoStamp)
<1>1. 0 % COUNTER_RANGE = 0
  BY SmallMod, TimeConstants
<1>2. NoStamp.count - NoStamp.pulse = 0 /\ NoStamp.late = 0
  BY DEF NoStamp
<1> QED BY <1>1, <1>2 DEF Bounded

\* The latch stays the counter at the last pulse, also over a restart.
LEMMA PulseStep ==
  TypeInv /\ ThreadsInv /\ PulseInv /\ [Next]_vars => PulseInv'
<1> SUFFICES ASSUME TypeInv, ThreadsInv, PulseInv, [Next]_vars PROVE PulseInv'
  OBVIOUS
<1> USE DEF clock_vars, main_vars, sync_vars, gps_vars, vars
<1>1. now \in Nat /\ boot \in Nat /\ slip \in Nat /\ gps_time \in Nat
  BY DEF TypeInv, TypeOK
<1>2. LastPulse \in Nat /\ LastPulse <= now
  BY <1>1, PulseType
<1>3. ASSUME UNCHANGED <<now, boot, slip, latch>>, gpc' = "trig" => gpc = "trig",
             UNCHANGED <<gps_time, gps_count>> \/ gpc' # "trig"
      PROVE  PulseInv'
  <2>1. LastPulse' = LastPulse /\ LastLatched' = LastLatched
    BY <1>3 DEF LastPulse, LastLatched
  <2>2. \A t, s : CountAt(t, s)' = (t' - boot + s') % COUNTER_RANGE
    BY <1>3 DEF CountAt
  <2> QED BY <1>3, <2>1 DEF PulseInv, CountAt
<1>4. CASE Tick
  <2>1. /\ now' = now + 1 /\ UNCHANGED <<boot, slip, gpc, gps_time, gps_count>>
        /\ latch' = IF (now + 1) % SECOND = 0 THEN (now + 1 - boot + slip) % COUNTER_RANGE
                                              ELSE latch
    BY <1>4 DEF Tick
  <2>2. LastPulse' = (now + 1) - ((now + 1) % SECOND)
    BY <2>1 DEF LastPulse
  <2>3. CASE (now + 1) % SECOND = 0
    <3>1. LastPulse' = now + 1 /\ boot <= now + 1
      BY <1>1, <2>2, <2>3 DEF PulseInv
    <3>2. LastLatched' = now + 1
      BY <2>1, <3>1 DEF LastLatched
    <3>3. latch' = CountAt(now + 1, slip)
      <4>1. now + 1 - boot + slip = (now + 1) - boot + slip
        BY <1>1
      <4>2. latch' = (now + 1 - boot + slip) % COUNTER_RANGE
        BY <2>1, <2>3
      <4> QED BY <4>1, <4>2, Zenon DEF CountAt
    <3>4. slip \in 0 .. slip' /\ boot <= now'
      BY <1>1, <2>1, <3>1
    <3>5. latch' = (LastLatched' - boot' + slip) % COUNTER_RANGE
      BY <2>1, <3>2, <3>3 DEF CountAt
    <3>6. ASSUME gpc = "trig"
          PROVE  /\ gps_time < now + 1
                 /\ \E s \in 0 .. slip : gps_count = (gps_time - boot + s) % COUNTER_RANGE
      BY <1>1, <1>2, <3>6 DEF PulseInv, CountAt
    <3>7. ASSUME gpc = "trig"
          PROVE  \E s \in 0 .. slip' : \E z \in s .. slip' :
                   /\ gps_count' = (gps_time' - boot' + s) % COUNTER_RANGE
                   /\ latch' = (LastLatched' - boot' + z) % COUNTER_RANGE
      <4>1. PICK s \in 0 .. slip : gps_count = (gps_time - boot + s) % COUNTER_RANGE
        BY <3>6, <3>7
      <4>2. slip \in s .. slip
        BY <1>1
      <4> QED BY <2>1, <3>5, <4>1, <4>2
    <3> QED BY <1>1, <2>1, <3>1, <3>4, <3>5, <3>6, <3>7 DEF PulseInv, CountAt
  <2>4. CASE (now + 1) % SECOND # 0
    <3>1. LastPulse' = LastPulse
      BY <1>1, <2>2, <2>4, PulseTick DEF LastPulse
    <3>2. LastLatched' = LastLatched /\ latch' = latch
      BY <2>1, <2>4, <3>1 DEF LastLatched
    <3> QED BY <1>1, <2>1, <3>1, <3>2 DEF PulseInv, CountAt
  <2> QED BY <2>3, <2>4
<1>5. CASE Slip
  <2>1. slip' = slip + 1 /\ UNCHANGED <<now, boot, latch, gpc, gps_time, gps_count>>
    BY <1>5 DEF Slip
  <2>2. LastPulse' = LastPulse /\ LastLatched' = LastLatched
    BY <2>1 DEF LastPulse, LastLatched
  <2>3. \A s : s \in 0 .. slip => s \in 0 .. slip'
    BY <1>1, <2>1
  <2>4. \A s \in 0 .. slip : \A z \in s .. slip : z \in s .. slip'
    BY <1>1, <2>1
  <2> QED BY <2>1, <2>2, <2>3, <2>4, Zenon DEF PulseInv, CountAt
<1>6. CASE Start
  <2>1. /\ boot' = now /\ slip' = 0 /\ latch' = 0 /\ now' = now /\ gpc' = gpc
        /\ gpc # "trig"
    BY <1>6 DEF Start, ThreadsInv
  <2>2. LastPulse' = LastPulse
    BY <2>1 DEF LastPulse
  <2>3. LastLatched' = now
    BY <1>1, <1>2, <2>1, <2>2 DEF LastLatched
  <2>4. (now - now + 0) % COUNTER_RANGE = 0
    BY <1>1, SmallMod, TimeConstants
  <2>5. 0 \in 0 .. slip' /\ latch' = (LastLatched' - boot' + 0) % COUNTER_RANGE
    BY <2>1, <2>3, <2>4
  <2> QED BY <1>1, <2>1, <2>5 DEF PulseInv, CountAt
<1>7. CASE Stop \/ TimersyncWakes \/ DisableGps \/ ReadClock \/ ReadCount \/ SetOffset
  BY <1>3, <1>7 DEF Stop, TimersyncWakes, DisableGps, ReadClock, ReadCount, SetOffset
<1>8. CASE EnableGps
  <2>1. UNCHANGED <<now, boot, slip, latch, gps_time, gps_count>>
        /\ (gpc' = "trig" => gpc = "trig")
    BY <1>8, Zenon DEF EnableGps
  <2> QED BY <1>3, <2>1
<1>9. CASE GpsRead \/ GpsTrigger \/ GpsSync \/ GpsCoords \/ GpsOther \/ GpsScanned
  BY <1>3, <1>9 DEF GpsRead, GpsTrigger, GpsSync, GpsCoords, GpsOther, GpsScanned
<1>10. CASE GpsTime
  <2>1. UNCHANGED <<now, boot, slip, latch>> /\ gpc # "trig"
    BY <1>10 DEF GpsTime
  <2>2. \/ gps_time' = LastPulse /\ gps_count' = PulseCnt
        \/ UNCHANGED <<gpc, gps_time, gps_count>>
    BY <1>10 DEF GpsTime
  <2>3. CASE gps_time' = LastPulse /\ gps_count' = PulseCnt
    <3>1. LastPulse' = LastPulse /\ LastLatched' = LastLatched
      BY <2>1 DEF LastPulse, LastLatched
    <3>2. PICK z \in 0 .. slip : latch = CountAt(LastLatched, z)
      BY DEF PulseInv
    <3>3. boot <= LastPulse => gps_count' = latch
      BY <2>3 DEF PulseCnt
    <3>4. \E s \in 0 .. slip : /\ z \in s .. slip
                               /\ gps_count' = CountAt(LastPulse, s)
      <4>1. CASE boot <= LastPulse
        <5>1. gps_count' = CountAt(LastPulse, z)
          BY <3>2, <3>3, <4>1 DEF LastLatched
        <5>2. z \in z .. slip
          BY <1>1
        <5> QED BY <5>1, <5>2
      <4>2. CASE ~(boot <= LastPulse)
        <5>1. gps_count' = (LastPulse - boot) % COUNTER_RANGE
          BY <2>3, <4>2 DEF PulseCnt
        <5>2. LastPulse - boot + 0 = LastPulse - boot
          BY <1>1, <1>2
        <5>3. gps_count' = CountAt(LastPulse, 0)
          BY <5>1, <5>2 DEF CountAt
        <5>4. 0 \in 0 .. slip /\ z \in 0 .. slip
          BY <1>1
        <5> QED BY <5>3, <5>4
      <4> QED BY <4>1, <4>2
    <3>5. gps_time' <= LastPulse'
      BY <1>2, <2>3, <3>1
    <3>6. \E s \in 0 .. slip' : \E y \in s .. slip' :
            gps_count' = CountAt(gps_time, s)' /\ latch' = CountAt(LastLatched, y)'
      BY <2>1, <2>3, <3>1, <3>2, <3>4 DEF CountAt
    <3> QED BY <2>1, <2>3, <3>1, <3>2, <3>3, <3>5, <3>6 DEF PulseInv, CountAt
  <2>4. CASE UNCHANGED <<gpc, gps_time, gps_count>>
    BY <1>3, <2>1, <2>4
  <2> QED BY <2>2, <2>3, <2>4
<1>11. CASE CheckReference \/ CorrectXtal
  BY <1>3, <1>11 DEF CheckReference, CorrectXtal
<1>12. CASE UNCHANGED vars
  BY <1>3, <1>12
<1> QED
  BY <1>4, <1>5, <1>6, <1>7, <1>8, <1>9, <1>10, <1>11, <1>12 DEF Next

\* The time stamp that thread_gps reads is bounded, whether GPS mode is on or off.
LEMMA StampedBounded ==
  ASSUME TypeInv, ThreadsInv, PulseInv, StampInv, gpc = "trig"
  PROVE  Bounded(Stamped(TrigCnt))
<1>1. now \in Nat /\ boot \in Nat /\ slip \in Nat /\ gps_time \in Nat
  BY DEF TypeInv, TypeOK
<1>2. LastPulse \in Nat /\ LastPulse <= now
  BY <1>1, PulseType
<1>3. /\ gps_time <= LastPulse /\ boot <= now
      /\ gps_time = LastPulse /\ boot <= gps_time => gps_count = latch
  BY DEF PulseInv
<1>4. PICK s \in 0 .. slip : \E z \in s .. slip :
        gps_count = CountAt(gps_time, s) /\ latch = CountAt(LastLatched, z)
  BY DEF PulseInv
<1>5. PICK z \in s .. slip : gps_count = CountAt(gps_time, s) /\ latch = CountAt(LastLatched, z)
  BY <1>4
<1> DEFINE stamp == Stamped(TrigCnt)
<1>6. /\ stamp.count = TrigCnt /\ stamp.pulse = gps_count /\ stamp.late = now - gps_time + slip
      /\ stamp.upset = (tpc \notin {"off", "sleep"} \/ gps_time # LastPulse \/ gps_time < boot)
  BY DEF Stamped
<1>7. \E b \in Int : /\ gps_time - boot + s <= b /\ b <= now - boot + slip
                     /\ TrigCnt = b % COUNTER_RANGE
  <2>1. CASE gps_en
    <3>1. LastLatched \in Nat /\ gps_time <= LastLatched /\ LastLatched <= now
      BY <1>1, <1>2, <1>3 DEF LastLatched
    <3>2. /\ LastLatched - boot + z \in Int /\ gps_time - boot + s <= LastLatched - boot + z
          /\ LastLatched - boot + z <= now - boot + slip
      BY <1>1, <3>1
    <3>3. TrigCnt = (LastLatched - boot + z) % COUNTER_RANGE
      BY <1>5, <2>1 DEF TrigCnt, CountAt
    <3> QED BY <3>2, <3>3
  <2>2. CASE ~gps_en
    <3>1. TrigCnt = (now - boot + slip) % COUNTER_RANGE
      BY <2>2 DEF TrigCnt, Counter
    <3>2. now - boot + slip \in Int /\ gps_time - boot + s <= now - boot + slip
      BY <1>1, <1>2, <1>3
    <3> QED BY <3>1, <3>2
  <2> QED BY <2>1, <2>2
<1>8. PICK b \in Int : /\ gps_time - boot + s <= b /\ b <= now - boot + slip
                       /\ TrigCnt = b % COUNTER_RANGE
  BY <1>7
<1> DEFINE a == gps_time - boot + s
           error == (TrigCnt - gps_count) % COUNTER_RANGE
<1>9. error <= stamp.late
  <2>1. a \in Int /\ gps_count = a % COUNTER_RANGE
    BY <1>1, <1>5 DEF CountAt
  <2>2. a <= b /\ b - a <= now - gps_time + slip
    BY <1>1, <1>8
  <2>3. error <= b - a
    <3> HIDE DEF a
    <3> QED BY <1>8, <2>1, <2>2, ModApart
  <2>4. error \in Int
    <3>1. TrigCnt \in Int /\ gps_count \in Int
      <4> HIDE DEF a
      <4> QED BY <1>8, <2>1, DivMod, TimeConstants
    <3> QED BY <3>1, DivMod, TimeConstants
  <2> HIDE DEF error, a, stamp
  <2>5. a \in Int
    BY <2>1
  <2> QED BY <1>1, <1>6, <1>8, <2>2, <2>3, <2>4, <2>5
<1>10. error # 0 => stamp.upset
  <2>1. SUFFICES ASSUME ~stamp.upset PROVE error = 0
    OBVIOUS
  <2>2. tpc \in {"off", "sleep"} /\ gps_time = LastPulse /\ boot <= gps_time
    <3>1. ~(tpc \notin {"off", "sleep"} \/ gps_time # LastPulse \/ gps_time < boot)
      <4> HIDE DEF stamp
      <4> QED BY <1>6, <2>1, Zenon
    <3> QED BY <1>1, <3>1
  <2>3. phase = "run" /\ gps_en
    BY <2>2 DEF ThreadsInv, StampInv
  <2>4. TrigCnt = gps_count
    BY <1>3, <2>2, <2>3 DEF TrigCnt
  <2>5. gps_count \in Int
    BY DEF TypeInv, TypeOK
  <2>6. gps_count - gps_count = 0 /\ 0 % COUNTER_RANGE = 0
    BY <2>5, SmallMod, TimeConstants
  <2> QED BY <2>4, <2>6
<1> HIDE DEF stamp
<1> QED BY <1>6, <1>9, <1>10 DEF Bounded, stamp

\* The time stamp of the reference stays bounded.
LEMMA StampStep ==
  TypeInv /\ ThreadsInv /\ PulseInv /\ StampInv /\ [Next]_vars => StampInv'
<1> SUFFICES ASSUME TypeInv, ThreadsInv, PulseInv, StampInv, [Next]_vars PROVE StampInv'
  OBVIOUS
<1> USE DEF clock_vars, main_vars, sync_vars, gps_vars, vars
<1>1. ASSUME UNCHANGED <<trig_tstamp, time_reference_gps>>,
             phase' = "run" /\ tpc' \in {"off", "sleep"} => gps_en'
      PROVE  StampInv'
  BY <1>1 DEF StampInv, Bounded
<1>2. CASE Tick \/ Slip \/ Stop \/ TimersyncWakes \/ UNCHANGED vars
  BY <1>1, <1>2 DEF Tick, Slip, Stop, TimersyncWakes, StampInv, ThreadsInv
<1>3. CASE Start
  BY <1>1, <1>3 DEF Start
<1>4. CASE DisableGps \/ ReadClock \/ ReadCount \/ SetOffset
  BY <1>1, <1>4 DEF DisableGps, ReadClock, ReadCount, SetOffset
<1>5. CASE EnableGps
  <2>1. gps_en' = TRUE /\ UNCHANGED <<trig_tstamp, time_reference_gps>>
    BY <1>5 DEF EnableGps
  <2> QED BY <1>1, <2>1
<1>6. CASE GpsRead \/ GpsTime \/ GpsCoords \/ GpsOther \/ GpsScanned
  BY <1>1, <1>6
     DEF GpsRead, GpsTime, GpsCoords, GpsOther, GpsScanned, StampInv
<1>7. CASE GpsTrigger
  <2>1. gpc = "trig" /\ (trig_tstamp' = Stamped(TrigCnt) \/ UNCHANGED trig_tstamp)
        /\ UNCHANGED <<phase, tpc, gps_en, time_reference_gps>>
    BY <1>7 DEF GpsTrigger
  <2>2. Bounded(trig_tstamp)'
    <3>1. Bounded(Stamped(TrigCnt)) /\ Bounded(trig_tstamp)
      BY <2>1, StampedBounded DEF StampInv
    <3> QED BY <2>1, <3>1 DEF Bounded
  <2> QED BY <2>1, <2>2 DEF StampInv, Bounded
<1>8. CASE GpsSync
  <2>1. \/ time_reference_gps' = [at |-> now, boot |-> boot, stamp |-> trig_tstamp]
        \/ UNCHANGED time_reference_gps
    BY <1>8 DEF GpsSync
  <2>2. Bounded(time_reference_gps.stamp)'
    BY <2>1 DEF StampInv, Bounded
  <2>3. trig_tstamp' = NoStamp /\ UNCHANGED <<gps_en, phase, tpc>>
    BY <1>8 DEF GpsSync
  <2>4. Bounded(trig_tstamp)'
    BY <2>3, NoStampBounded DEF Bounded
  <2> QED BY <2>2, <2>3, <2>4 DEF StampInv
<1>9. CASE CheckReference \/ CorrectXtal
  BY <1>1, <1>9 DEF CheckReference, CorrectXtal, StampInv
<1> QED
  BY <1>2, <1>3, <1>4, <1>5, <1>6, <1>7, <1>8, <1>9 DEF Next

\* The age of a reference that is called valid, at the last check and since.
AgeInv ==
  /\ checked <= now
  /\ phase = "start" => ~gps_ref_valid
  /\ phase = "run" => now <= checked + SECOND + VALID_LAG
  /\ phase = "run" /\ gps_ref_valid =>
       checked - time_reference_gps.at < (GPS_REF_MAX_AGE + 1) * SECOND

\* Two times whose whole seconds are at most n apart are less than n + 1 seconds apart.
LEMMA SecondsApart ==
  ASSUME NEW t \in Nat, NEW u \in Nat, NEW n \in Nat, t \div SECOND - u \div SECOND <= n
  PROVE  t - u < (n + 1) * SECOND
<1> DEFINE q == t \div SECOND r == t % SECOND p == u \div SECOND s == u % SECOND
<1>1. /\ q \in Int /\ r \in Int /\ t = SECOND * q + r /\ 0 <= r /\ r < SECOND
      /\ p \in Int /\ s \in Int /\ u = SECOND * p + s /\ 0 <= s /\ s < SECOND
      /\ SECOND \in Nat /\ q - p <= n
  BY DivMod, TimeConstants
<1> HIDE DEF q, r, p, s
<1>2. SECOND * (q - p) <= SECOND * n
  BY <1>1, MulMono
<1>3. SECOND * (q - p) = SECOND * q - SECOND * p /\ (n + 1) * SECOND = SECOND * n + SECOND
  BY <1>1
<1> DEFINE a == SECOND * q b == SECOND * p c == SECOND * n
<1>4. a \in Int /\ b \in Int /\ c \in Int /\ t = a + r /\ u = b + s /\ a - b <= c
      /\ (n + 1) * SECOND = c + SECOND
  BY <1>1, <1>2, <1>3
<1> HIDE DEF a, b, c
<1>5. t - u < c + SECOND
  BY <1>1, <1>4
<1> QED BY <1>4, <1>5

\* A whole number of seconds is a natural.
LEMMA AgesType ==
  ASSUME NEW n \in Nat
  PROVE  n * SECOND \in Nat
  BY TimeConstants, ProductType

\* A reference does not age unnoticed.
LEMMA AgeStep ==
  TypeInv /\ ThreadsInv /\ AgeInv /\ [Next]_vars => AgeInv'
<1> SUFFICES ASSUME TypeInv, ThreadsInv, AgeInv, [Next]_vars PROVE AgeInv'
  OBVIOUS
<1> USE DEF clock_vars, main_vars, sync_vars, gps_vars, valid_vars, vars
<1> DEFINE A == (GPS_REF_MAX_AGE + 1) * SECOND
<1>1. /\ now \in Nat /\ checked \in Nat /\ time_reference_gps.at \in Nat
      /\ SECOND \in Nat \ {0} /\ VALID_LAG \in Nat /\ GPS_REF_MAX_AGE \in Nat
  BY TimeConstants DEF TypeInv, TypeOK
<1>2. A \in Nat /\ SECOND <= A
  <2>1. A = GPS_REF_MAX_AGE * SECOND + SECOND /\ GPS_REF_MAX_AGE * SECOND \in Nat
    BY <1>1, AgesType
  <2> QED BY <1>1, <2>1
<1>3. AgeInv <=> /\ checked <= now
                 /\ phase = "start" => ~gps_ref_valid
                 /\ phase = "run" => now <= checked + SECOND + VALID_LAG
                 /\ phase = "run" /\ gps_ref_valid => checked - time_reference_gps.at < A
  BY DEF AgeInv
<1>4. AgeInv' <=> /\ checked' <= now'
                  /\ phase' = "start" => ~gps_ref_valid'
                  /\ phase' = "run" => now' <= checked' + SECOND + VALID_LAG
                  /\ phase' = "run" /\ gps_ref_valid' => checked' - time_reference_gps'.at < A
  BY DEF AgeInv
<1> HIDE DEF A
<1>5. CASE Tick
  <2>1. now' = now + 1 /\ UNCHANGED <<phase, checked, gps_ref_valid, time_reference_gps>>
        /\ (phase = "run" => now < checked + SECOND + VALID_LAG)
    BY <1>5 DEF Tick
  <2> QED BY <1>1, <1>3, <1>4, <2>1
<1>6. CASE Slip \/ Stop \/ TimersyncWakes \/ UNCHANGED vars
  BY <1>3, <1>4, <1>6 DEF Slip, Stop, TimersyncWakes
<1>7. CASE Start
  <2>1. phase' = "start" /\ gps_ref_valid' = FALSE /\ UNCHANGED <<now, checked>>
    BY <1>7 DEF Start
  <2> QED BY <1>3, <1>4, <2>1
<1>8. CASE DisableGps \/ ReadClock \/ ReadCount \/ SetOffset
  BY <1>3, <1>4, <1>8 DEF DisableGps, ReadClock, ReadCount, SetOffset
<1>9. CASE EnableGps
  <2>1. CASE phase = "start"
    <3>1. phase' = "run" /\ checked' = now /\ now' = now /\ gps_ref_valid' = gps_ref_valid
      BY <1>9, <2>1 DEF EnableGps
    <3> QED BY <1>1, <1>3, <1>4, <2>1, <3>1
  <2>2. CASE phase # "start"
    <3>1. UNCHANGED <<phase, checked, now, gps_ref_valid, time_reference_gps>>
      BY <1>9, <2>2 DEF EnableGps
    <3> QED BY <1>3, <1>4, <3>1
  <2> QED BY <2>1, <2>2
<1>10. CASE GpsRead \/ GpsTime \/ GpsTrigger \/ GpsCoords \/ GpsOther \/ GpsScanned
  BY <1>3, <1>4, <1>10 DEF GpsRead, GpsTime, GpsTrigger, GpsCoords, GpsOther, GpsScanned
<1>11. CASE GpsSync
  <2>1. UNCHANGED <<phase, checked, now, gps_ref_valid>>
    BY <1>11 DEF GpsSync
  <2>2. CASE UNCHANGED time_reference_gps
    BY <1>3, <1>4, <2>1, <2>2
  <2>3. CASE time_reference_gps' = [at |-> now, boot |-> boot, stamp |-> trig_tstamp]
    <3>1. checked - now < A
      BY <1>1, <1>2, <1>3
    <3>2. time_reference_gps'.at = now
      BY <2>3
    <3> QED BY <1>3, <1>4, <2>1, <3>1, <3>2
  <2> QED BY <1>11, <2>2, <2>3 DEF GpsSync
<1>12. CASE CheckReference
  <2>1. /\ phase = "run" /\ UNCHANGED <<phase, now, time_reference_gps>> /\ checked' = now
        /\ gps_ref_valid' => gps_ref_age <= GPS_REF_MAX_AGE
    BY <1>12 DEF CheckReference
  <2>2. gps_ref_age <= GPS_REF_MAX_AGE => now - time_reference_gps.at < A
    BY <1>1, SecondsApart DEF gps_ref_age, A
  <2>3. now <= now + SECOND + VALID_LAG
    BY <1>1
  <2> QED BY <1>1, <1>4, <2>1, <2>2, <2>3
<1>13. CASE CorrectXtal
  BY <1>3, <1>4, <1>13 DEF CorrectXtal
<1> QED
  BY <1>5, <1>6, <1>7, <1>8, <1>9, <1>10, <1>11, <1>12, <1>13 DEF Next

\* A reference of an earlier run is from before the start, and none is called valid before
\* the first check of the run.
EarlierInv ==
  /\ time_reference_gps.at <= now
  /\ time_reference_gps.boot # boot => time_reference_gps.at <= boot
  /\ phase = "run" => boot <= checked
  /\ phase = "run" /\ gps_ref_valid => boot + SECOND <= checked

\* A restart leaves the reference older than itself.
LEMMA EarlierStep ==
  TypeInv /\ PulseInv /\ AgeInv /\ EarlierInv /\ [Next]_vars => EarlierInv'
<1> SUFFICES ASSUME TypeInv, PulseInv, AgeInv, EarlierInv, [Next]_vars PROVE EarlierInv'
  OBVIOUS
<1> USE DEF clock_vars, main_vars, sync_vars, gps_vars, valid_vars, vars
<1>1. /\ now \in Nat /\ boot \in Nat /\ checked \in Nat /\ time_reference_gps.at \in Nat
      /\ SECOND \in Nat
  BY TimeConstants DEF TypeInv, TypeOK
<1>2. boot <= now /\ (phase = "start" => ~gps_ref_valid)
  BY DEF PulseInv, AgeInv
<1>3. ASSUME UNCHANGED <<now, boot, phase, checked, gps_ref_valid, time_reference_gps>>
      PROVE  EarlierInv'
  BY <1>3 DEF EarlierInv
<1>4. CASE Tick
  <2>1. now' = now + 1 /\ UNCHANGED <<boot, phase, checked, gps_ref_valid, time_reference_gps>>
    BY <1>4 DEF Tick
  <2> QED BY <1>1, <2>1 DEF EarlierInv
<1>5. CASE Slip \/ TimersyncWakes \/ DisableGps \/ ReadClock \/ ReadCount \/ SetOffset
  BY <1>3, <1>5 DEF Slip, TimersyncWakes, DisableGps, ReadClock, ReadCount, SetOffset
<1>6. CASE Start
  <2>1. /\ boot' = now /\ phase' = "start" /\ gps_ref_valid' = FALSE
        /\ UNCHANGED <<now, checked, time_reference_gps>>
    BY <1>6 DEF Start
  <2> QED BY <1>1, <2>1 DEF EarlierInv
<1>7. CASE Stop
  <2>1. phase' = "off" /\ UNCHANGED <<now, boot, checked, gps_ref_valid, time_reference_gps>>
    BY <1>7 DEF Stop
  <2> QED BY <2>1 DEF EarlierInv
<1>8. CASE EnableGps
  <2>1. CASE phase = "start"
    <3>1. /\ phase' = "run" /\ checked' = now
          /\ UNCHANGED <<now, boot, gps_ref_valid, time_reference_gps>>
      BY <1>8, <2>1 DEF EnableGps
    <3> QED BY <1>2, <2>1, <3>1 DEF EarlierInv
  <2>2. CASE phase # "start"
    <3>1. UNCHANGED <<now, boot, phase, checked, gps_ref_valid, time_reference_gps>>
      BY <1>8, <2>2 DEF EnableGps
    <3> QED BY <1>3, <3>1
  <2> QED BY <2>1, <2>2
<1>9. CASE GpsRead \/ GpsTime \/ GpsTrigger \/ GpsCoords \/ GpsOther \/ GpsScanned
  BY <1>3, <1>9 DEF GpsRead, GpsTime, GpsTrigger, GpsCoords, GpsOther, GpsScanned
<1>10. CASE GpsSync
  <2>1. /\ UNCHANGED <<now, boot, phase, checked, gps_ref_valid>>
        /\ \/ time_reference_gps' = [at |-> now, boot |-> boot, stamp |-> trig_tstamp]
           \/ UNCHANGED time_reference_gps
    BY <1>10 DEF GpsSync
  <2> QED BY <1>1, <2>1 DEF EarlierInv
<1>11. CASE CheckReference
  <2>1. /\ phase = "run" /\ checked + SECOND <= now /\ checked' = now
        /\ UNCHANGED <<now, boot, phase, time_reference_gps>>
    BY <1>1, <1>11 DEF CheckReference
  <2> QED BY <1>1, <2>1 DEF EarlierInv
<1>12. CASE CorrectXtal
  BY <1>3, <1>12 DEF CorrectXtal
<1>13. CASE UNCHANGED vars
  BY <1>3, <1>13
<1> QED
  BY <1>4, <1>5, <1>6, <1>7, <1>8, <1>9, <1>10, <1>11, <1>12, <1>13 DEF Next

-----------------------------------------------------------------------------
(* The XTAL correction.                                                    *)

\* The counts behind the correction: the checks in a row of this run, those since the
\* reference was last found invalid, and init_cpt, which lags behind while thread_valid is
\* between its two sections.
CorrectionInv ==
  /\ good_run <= good
  /\ init_cpt > XERR_INIT_AVG => xtal_correct_ok
  /\ vpc = "wait" => init_cpt = good_run /\ (xtal_correct_ok => good > XERR_INIT_AVG)
  /\ vpc = "correct" =>
       /\ gps_ref_valid = ref_valid_local
       /\ ref_valid_local => good_run = Counted(init_cpt)
       /\ ~ref_valid_local => good_run = 0
       /\ ref_valid_local /\ xtal_correct_ok => good > XERR_INIT_AVG

\* Counting keeps the order of two counts.
LEMMA CountedOrder ==
  ASSUME NEW m \in 0 .. XERR_INIT_AVG + 1, NEW n \in 0 .. XERR_INIT_AVG + 1, m <= n
  PROVE  Counted(m) <= Counted(n) /\ 0 <= Counted(n) /\ (n > XERR_INIT_AVG => Counted(n) = n)
  BY TimeConstants DEF Counted

\* The correction is given up with the reference and taken up after enough checks.
LEMMA CorrectionStep ==
  TypeInv /\ ThreadsInv /\ CorrectionInv /\ [Next]_vars => CorrectionInv'
<1> SUFFICES ASSUME TypeInv, ThreadsInv, CorrectionInv, [Next]_vars PROVE CorrectionInv'
  OBVIOUS
<1> USE DEF valid_vars, vars
<1> DEFINE N == 0 .. XERR_INIT_AVG + 1
<1>1. /\ good \in N /\ good_run \in N /\ init_cpt \in N /\ 0 \in N
      /\ xtal_correct_ok \in BOOLEAN /\ ref_valid_local \in BOOLEAN /\ gps_ref_valid \in BOOLEAN
      /\ vpc \in {"wait", "correct"} /\ XERR_INIT_AVG \in Nat
  BY TimeConstants DEF TypeInv, TypeOK
<1>2. CASE UNCHANGED valid_vars
  BY <1>2 DEF CorrectionInv, Counted
<1>3. CASE Tick \/ Slip \/ Stop \/ TimersyncWakes \/ DisableGps \/ ReadClock \/ ReadCount
           \/ SetOffset \/ UNCHANGED vars
  <2>1. UNCHANGED valid_vars
    BY <1>3 DEF Tick, Slip, Stop, TimersyncWakes, DisableGps, ReadClock, ReadCount, SetOffset
  <2> QED BY <1>2, <2>1
<1>4. CASE GpsRead \/ GpsTime \/ GpsTrigger \/ GpsSync \/ GpsCoords \/ GpsOther \/ GpsScanned
  <2>1. UNCHANGED valid_vars
    BY <1>4 DEF GpsRead, GpsTime, GpsTrigger, GpsSync, GpsCoords, GpsOther, GpsScanned
  <2> QED BY <1>2, <2>1
<1>5. CASE Start
  <2>1. phase = "off" /\ UNCHANGED <<vpc, ref_valid_local, xtal_correct_ok, init_cpt, good,
                                     good_run>>
    BY <1>5 DEF Start
  <2> QED BY <2>1 DEF CorrectionInv, ThreadsInv
<1>6. CASE EnableGps
  <2>1. CASE phase = "start"
    <3>1. vpc = "wait" /\ vpc' = "wait" /\ init_cpt' = 0 /\ good_run' = 0
          /\ UNCHANGED <<xtal_correct_ok, good>>
      BY <1>6, <2>1 DEF EnableGps, ThreadsInv
    <3> QED BY <1>1, <3>1 DEF CorrectionInv
  <2>2. CASE phase # "start"
    <3>1. UNCHANGED valid_vars
      BY <1>6, <2>2 DEF EnableGps
    <3> QED BY <1>2, <3>1
  <2> QED BY <2>1, <2>2
<1>7. CASE CheckReference
  <2> DEFINE valid == 0 <= gps_ref_age /\ gps_ref_age <= GPS_REF_MAX_AGE
  <2>1. /\ vpc = "wait" /\ vpc' = "correct"
        /\ gps_ref_valid' = valid /\ ref_valid_local' = valid
        /\ good' = (IF valid THEN Counted(good) ELSE 0)
        /\ good_run' = (IF valid THEN Counted(good_run) ELSE 0)
        /\ UNCHANGED <<xtal_correct_ok, init_cpt>>
    BY <1>7 DEF CheckReference
  <2> HIDE DEF valid
  <2>2. CASE valid
    <3>1. Counted(good_run) <= Counted(good)
      BY <1>1, CountedOrder DEF CorrectionInv
    <3>2. xtal_correct_ok => Counted(good) > XERR_INIT_AVG
      BY <1>1, <2>1, CountedOrder DEF CorrectionInv
    <3>3. init_cpt = good_run /\ Counted(init_cpt)' = Counted(init_cpt)
      BY <2>1 DEF CorrectionInv, Counted
    <3> QED BY <2>1, <2>2, <3>1, <3>2, <3>3 DEF CorrectionInv
  <2>3. CASE ~valid
    BY <1>1, <2>1, <2>3 DEF CorrectionInv
  <2> QED BY <2>2, <2>3
<1>8. CASE CorrectXtal
  <2>1. vpc = "correct" /\ vpc' = "wait" /\ UNCHANGED <<good, good_run, gps_ref_valid>>
    BY <1>8 DEF CorrectXtal
  <2>2. CASE ref_valid_local
    <3>1. xtal_correct_ok' = (xtal_correct_ok \/ init_cpt = XERR_INIT_AVG)
          /\ init_cpt' = Counted(init_cpt)
      BY <1>8, <2>2 DEF CorrectXtal, Correction
    <3>2. good_run = Counted(init_cpt) /\ good_run <= good
      BY <2>1, <2>2 DEF CorrectionInv
    <3>3. Counted(init_cpt) > XERR_INIT_AVG => xtal_correct_ok \/ init_cpt = XERR_INIT_AVG
      BY <1>1 DEF CorrectionInv, Counted
    <3>4. init_cpt = XERR_INIT_AVG => good > XERR_INIT_AVG
      BY <1>1, <3>2 DEF Counted
    <3>5. xtal_correct_ok => good > XERR_INIT_AVG
      BY <2>1, <2>2 DEF CorrectionInv
    <3> QED BY <2>1, <3>1, <3>2, <3>3, <3>4, <3>5 DEF CorrectionInv
  <2>3. CASE ~ref_valid_local
    <3>1. xtal_correct_ok' = FALSE /\ init_cpt' = 0
      BY <1>8, <2>3 DEF CorrectXtal, Correction
    <3> QED BY <1>1, <2>1, <2>3, <3>1 DEF CorrectionInv
  <2> QED BY <2>2, <2>3
<1> QED BY <1>3, <1>4, <1>5, <1>6, <1>7, <1>8 DEF Next

-----------------------------------------------------------------------------
(* The concentrator's time.                                                *)

\* t is, up to the wrapping around of the counter, the host's time at which the counter
\* was last 0, as a synchronisation with the reading r finds it.
ZeroOfCounter(t, r) == (t - (boot - r.slip - r.lag)) % COUNTER_RANGE = 0

\* The offset in use is right, and so is the one that set_concentrator_time is about to set,
\* unless the reading of the counter failed.
OffsetInv ==
  /\ tpc \in {"clock", "count", "offset", "on"} => ~gps_en
  /\ (phase = "run" \/ (phase = "start" /\ tpc = "on")) /\ ~sync.failed =>
       ZeroOfCounter(Ticks(offset_unix_concent), sync)
  /\ tpc = "offset" /\ ~reading.failed =>
       ZeroOfCounter(Ticks(unix_timeval) - sx1301_timecount, reading)

\* Numbers that differ by a multiple of the divisor leave the same remainder.
LEMMA SameRemainder ==
  ASSUME NEW a \in Int, NEW b \in Int, (a - b) % COUNTER_RANGE = 0
  PROVE  a % COUNTER_RANGE = b % COUNTER_RANGE
<1> DEFINE k == (a - b) \div COUNTER_RANGE
<1>1. COUNTER_RANGE \in Nat \ {0} /\ k \in Int /\ a - b = COUNTER_RANGE * k + 0
  BY DivMod, TimeConstants
<1> HIDE DEF k
<1>2. a = b + k * COUNTER_RANGE
  BY <1>1
<1> QED BY <1>1, <1>2, ModMultiple

\* What is left when a remainder is subtracted is a multiple of the divisor.
LEMMA LessRemainder ==
  ASSUME NEW a \in Int
  PROVE  (a - (a % COUNTER_RANGE)) % COUNTER_RANGE = 0
<1> DEFINE q == a \div COUNTER_RANGE r == a % COUNTER_RANGE
<1>1. COUNTER_RANGE \in Nat \ {0} /\ q \in Int /\ r \in Int /\ a = COUNTER_RANGE * q + r
  BY DivMod, TimeConstants
<1> HIDE DEF q, r
<1>2. a - r = COUNTER_RANGE * q + 0
  BY <1>1
<1>3. (COUNTER_RANGE * q + 0) % COUNTER_RANGE = 0
  BY <1>1, ModUnique
<1> QED BY <1>2, <1>3 DEF r

\* A synchronisation finds the zero of the counter, but for the delay between its two
\* readings and for what the counter has gained until the second.
LEMMA OffsetStep ==
  TypeInv /\ ThreadsInv /\ OffsetInv /\ [Next]_vars => OffsetInv'
<1> SUFFICES ASSUME TypeInv, ThreadsInv, OffsetInv, [Next]_vars PROVE OffsetInv'
  OBVIOUS
<1> USE DEF clock_vars, main_vars, sync_vars, vars
<1>1. /\ now \in Nat /\ boot \in Nat /\ slip \in Nat /\ gps_en \in BOOLEAN
      /\ unix_timeval \in Timeval /\ offset_unix_concent \in Timeval
      /\ sx1301_timecount \in 0 .. COUNTER_RANGE - 1
      /\ reading \in Readings /\ sync \in Readings
  BY DEF TypeInv, TypeOK
<1> DEFINE A == Ticks(offset_unix_concent) B == Ticks(unix_timeval) - sx1301_timecount
<1>2. ASSUME UNCHANGED <<boot, gps_en, phase, sync_vars>> PROVE OffsetInv'
  BY <1>2 DEF OffsetInv, ZeroOfCounter, Ticks
<1>3. CASE Tick \/ Slip \/ UNCHANGED vars \/ CheckReference \/ CorrectXtal
  <2>1. UNCHANGED <<boot, gps_en, phase, sync_vars>>
    BY <1>3 DEF Tick, Slip, CheckReference, CorrectXtal
  <2> QED BY <1>2, <2>1
<1>4. CASE GpsRead \/ GpsTime \/ GpsTrigger \/ GpsSync \/ GpsCoords \/ GpsOther \/ GpsScanned
  <2>1. UNCHANGED <<boot, gps_en, phase, sync_vars>>
    BY <1>4 DEF GpsRead, GpsTime, GpsTrigger, GpsSync, GpsCoords, GpsOther, GpsScanned
  <2> QED BY <1>2, <2>1
<1>5. CASE Start
  BY <1>5 DEF Start, OffsetInv
<1>6. CASE Stop
  BY <1>6 DEF Stop, OffsetInv
<1>7. CASE TimersyncWakes \/ DisableGps \/ ReadClock
  <2>1. UNCHANGED <<boot, phase, offset_unix_concent, sync>> /\ tpc' # "offset"
        /\ (tpc' # "off" => ~gps_en') /\ tpc' # "on" /\ phase' = phase
    BY <1>7 DEF TimersyncWakes, DisableGps, ReadClock, OffsetInv
  <2> QED BY <1>7, <2>1
       DEF OffsetInv, ZeroOfCounter, Ticks
<1>8. CASE ReadCount
  <2>1. PICK ok \in BOOLEAN :
          /\ sx1301_timecount' = IF ok THEN TrigCnt ELSE 0
          /\ reading' = [lag |-> now - Ticks(unix_timeval), slip |-> slip, failed |-> ~ok]
    BY <1>8 DEF ReadCount
  <2>2. tpc = "count" /\ tpc' = "offset" /\ ~gps_en
        /\ UNCHANGED <<boot, gps_en, phase, unix_timeval, offset_unix_concent, sync>>
    BY <1>8 DEF ReadCount, OffsetInv
  <2> DEFINE u == Ticks(unix_timeval)
             c == now - boot + slip
             r == c % COUNTER_RANGE
  <2>3. ASSUME ok PROVE ZeroOfCounter(u - sx1301_timecount, reading)'
    <3>1. u \in Int /\ c \in Int
      BY <1>1, TicksType
    <3>2. sx1301_timecount' = r
      BY <2>1, <2>2, <2>3 DEF TrigCnt, Counter
    <3>3. r \in Int /\ (c - r) % COUNTER_RANGE = 0
      BY <3>1, CountType, LessRemainder, TimeConstants
    <3>4. reading'.slip = slip /\ reading'.lag = now - u
      BY <2>1
    <3>5. u' = u
      BY <2>2 DEF Ticks
    <3> HIDE DEF u, r
    <3>6. (u - r) - (boot - slip - (now - u)) = c - r
      BY <1>1, <3>1, <3>3
    <3>7. ((u - r) - (boot - slip - (now - u))) % COUNTER_RANGE = 0
      BY <3>3, <3>6
    <3> QED BY <2>2, <3>2, <3>4, <3>5, <3>7, Zenon DEF ZeroOfCounter
  <2>4. ~reading'.failed => ok
    BY <2>1
  <2> QED BY <2>2, <2>3, <2>4, Zenon DEF OffsetInv, ZeroOfCounter, Ticks
<1>9. CASE SetOffset
  <2>1. /\ tpc = "offset" /\ tpc' = "on" /\ sync' = reading
        /\ offset_unix_concent' = timersub(unix_timeval, ToTimeval(sx1301_timecount))
        /\ UNCHANGED <<boot, gps_en>>
    BY <1>9 DEF SetOffset
  <2>2. sx1301_timecount \in Int
    BY <1>1, TimeConstants
  <2>3. Ticks(offset_unix_concent') = B
    BY <1>1, <2>1, <2>2, TimevalOfTicks, TimersubExact
  <2> HIDE DEF B
  <2>4. ~sync'.failed => ZeroOfCounter(B, reading)
    BY <2>1 DEF OffsetInv, B
  <2>5. ~sync'.failed => ZeroOfCounter(Ticks(offset_unix_concent), sync)'
    BY <2>1, <2>3, <2>4 DEF ZeroOfCounter, Ticks
  <2> QED BY <2>1, <2>5 DEF OffsetInv
<1>10. CASE EnableGps
  <2>1. tpc = "on" /\ tpc' = "sleep" /\ UNCHANGED <<boot, offset_unix_concent, sync>>
        /\ phase # "off"
    BY <1>10 DEF EnableGps, ThreadsInv
  <2>2. phase = "run" \/ phase = "start"
    BY <2>1 DEF TypeInv, TypeOK
  <2> QED BY <2>1, <2>2 DEF OffsetInv, ZeroOfCounter, Ticks
<1> QED BY <1>3, <1>4, <1>5, <1>6, <1>7, <1>8, <1>9, <1>10 DEF Next

-----------------------------------------------------------------------------
(* The theorems.                                                           *)

\* What the proofs below carry from state to state.
IInv ==
  /\ TypeInv /\ ThreadsInv /\ SerialInv /\ FramesInv
  /\ PulseInv /\ StampInv /\ AgeInv /\ EarlierInv /\ CorrectionInv /\ OffsetInv

\* The conjunction is an invariant of the clocks and their threads.
LEMMA Invariant ==
  Spec => []IInv
<1>1. Init => IInv
  <2> SUFFICES ASSUME Init PROVE IInv
    OBVIOUS
  <2>1. TypeInv
    BY InitTypes
  <2>2. ThreadsInv /\ SerialInv
    BY SerialConstants DEF Init, ThreadsInv, SerialInv
  <2>3. FramesInv
    <3>1. \A f \in stream.frames : f.start \in Nat /\ f.size \in Nat \ {0}
      BY <2>1, StreamFrames DEF TypeInv, TypeOK
    <3> QED BY <3>1 DEF Init, FramesInv, Kept, Handled
  <2>4. PulseInv
    <3>1. now = START_TIME /\ boot = START_TIME /\ slip = 0 /\ latch = 0 /\ gpc = "read"
          /\ START_TIME \in Nat
      BY TimeConstants DEF Init
    <3>2. LastLatched = START_TIME
      BY <3>1, PulseType DEF LastLatched
    <3>3. (START_TIME - START_TIME + 0) % COUNTER_RANGE = 0 /\ 0 \in 0 .. slip
      BY <3>1, SmallMod, TimeConstants
    <3> QED BY <3>1, <3>2, <3>3 DEF PulseInv, CountAt
  <2>5. StampInv
    BY NoStampBounded DEF Init, StampInv
  <2>6. AgeInv /\ EarlierInv /\ CorrectionInv
    BY TimeConstants DEF Init, AgeInv, EarlierInv, CorrectionInv
  <2>7. OffsetInv
    BY DEF Init, OffsetInv
  <2> QED BY <2>1, <2>2, <2>3, <2>4, <2>5, <2>6, <2>7 DEF IInv
<1>2. IInv /\ [Next]_vars => IInv'
  BY TypeStep, ThreadsStep, SerialStep, FramesStep, PulseStep, StampStep, AgeStep,
     EarlierStep, CorrectionStep, OffsetStep DEF IInv
<1> QED BY <1>1, <1>2, PTL DEF Spec

\* Every variable of the clocks, of the threads and of the buffer keeps its type; no read
\* of the GPS device and no removal leaves the buffer (lora_pkt_fwd.c:2726-2815).
THEOREM TypeCorrect ==
  Spec => []TypeOK
<1>1. IInv => TypeOK
  BY DEF IInv, TypeInv
<1> QED BY <1>1, Invariant, PTL

\* thread_gps never asks read() for more than fits in serial_buff, for every size of the
\* buffer that has room for two reads (lora_pkt_fwd.c:2738, 2803-2813).
THEOREM NoOverflow ==
  Spec => []BufferBounded
<1>1. IInv => BufferBounded
  BY DEF IInv, SerialInv, BufferBounded, TypeInv, TypeOK
<1> QED BY <1>1, Invariant, PTL

\* No frame up to LongestKept bytes is lost or recognised twice, wherever the reads cut the
\* stream and however often main restarts (lora_pkt_fwd.c:2749-2813).
THEOREM NoFrameLost ==
  Spec => []FramesOnce
<1>1. IInv => FramesOnce
  BY DEF IInv, FramesInv, FramesOnce, Kept, Handled
<1> QED BY <1>1, Invariant, PTL

\* For every age limit and every delay of thread_valid: the time stamp of the reference is
\* off by no more than its reading took, GPS mode on or off; the reference is young while
\* it is called valid; and one of an earlier run is called valid only from the first check
\* of the run and for that age (lora_pkt_fwd.c:1118, 2687, 2852; timersync.c:98, 134).
THEOREM ReferenceReliable ==
  Spec => []ReferenceSound
<1>1. IInv => ReferenceSound
  <2> SUFFICES ASSUME IInv PROVE ReferenceSound
    OBVIOUS
  <2> DEFINE A == GPS_REF_MAX_AGE * SECOND
  <2>1. /\ now \in Nat /\ checked \in Nat /\ time_reference_gps.at \in Nat
        /\ SECOND \in Nat /\ VALID_LAG \in Nat /\ A \in Nat /\ GPS_REF_MAX_AGE \in Nat
    BY TimeConstants, AgesType DEF IInv, TypeInv, TypeOK
  <2>2. (GPS_REF_MAX_AGE + 1) * SECOND = A + SECOND
        /\ (GPS_REF_MAX_AGE + 2) * SECOND = A + SECOND + SECOND
    BY <2>1
  <2> HIDE DEF A
  <2>3. phase = "run" /\ gps_ref_valid =>
          /\ now <= checked + SECOND + VALID_LAG
          /\ checked - time_reference_gps.at < A + SECOND
    BY <2>2 DEF IInv, AgeInv
  <2>4. phase = "run" /\ gps_ref_valid =>
          now - time_reference_gps.at < A + SECOND + SECOND + VALID_LAG
    BY <2>1, <2>3
  <2>5. ReferenceFresh
    BY <2>2, <2>4 DEF ReferenceFresh
  <2>6. EarlierRunPasses
    <3>1. boot \in Nat
      BY DEF IInv, TypeInv, TypeOK
    <3>2. SUFFICES ASSUME phase = "run", gps_ref_valid, time_reference_gps.boot # boot
                   PROVE  /\ boot + SECOND <= now
                          /\ now < boot + (GPS_REF_MAX_AGE + 2) * SECOND + VALID_LAG
      BY DEF EarlierRunPasses
    <3>3. boot + SECOND <= checked /\ checked <= now /\ time_reference_gps.at <= boot
      BY <3>2 DEF IInv, AgeInv, EarlierInv
    <3>4. now < boot + (A + SECOND + SECOND) + VALID_LAG
      BY <2>1, <2>4, <3>1, <3>2, <3>3
    <3> QED BY <2>1, <2>2, <3>1, <3>3, <3>4
  <2>7. StampOnPulse
    BY DEF IInv, StampInv, Bounded, StampOnPulse, StampError
  <2> QED BY <2>5, <2>6, <2>7 DEF ReferenceSound
<1> QED BY <1>1, Invariant, PTL

\* Beacons are sent only after XERR_INIT_AVG checks and one more have found the reference
\* valid, and are sent after as many checks of the run (lora_pkt_fwd.c:2866-2896).
THEOREM CorrectionJustified ==
  Spec => []CorrectionEarned
<1>1. IInv => CorrectionEarned
  <2> SUFFICES ASSUME IInv PROVE CorrectionEarned
    OBVIOUS
  <2>1. vpc \in {"wait", "correct"} /\ CorrectionInv
    BY DEF IInv, TypeInv, TypeOK
  <2> QED BY <2>1 DEF CorrectionInv, CorrectionEarned
<1> QED BY <1>1, Invariant, PTL

\* get_concentrator_time gives the counter of the concentrator modulo its range, for every
\* range and after every number of wrap-arounds, but for the delay and the drift of the last
\* synchronisation (timersync.c:70-134).
THEOREM ConcentratorTime ==
  Spec => []ConcentTime
<1>1. IInv => ConcentTime
  <2> SUFFICES ASSUME IInv, phase = "run", ~sync.failed
               PROVE  get_concentrator_time(now)
                        = (now - boot + sync.slip + sync.lag) % COUNTER_RANGE
    BY DEF ConcentTime
  <2> DEFINE o == Ticks(offset_unix_concent) s == sync.slip l == sync.lag
  <2>1. /\ now \in Int /\ boot \in Int /\ offset_unix_concent \in Timeval
        /\ s \in Int /\ l \in Int
    BY DEF IInv, TypeInv, TypeOK, Readings
  <2>2. o \in Int
    BY <2>1, TicksType
  <2>3. get_concentrator_time(now) = (now - o) % COUNTER_RANGE
    BY <2>1, TimevalOfTicks, TimersubExact DEF get_concentrator_time
  <2>4. (o - (boot - s - l)) % COUNTER_RANGE = 0
    BY DEF IInv, OffsetInv, ZeroOfCounter
  <2> HIDE DEF o, s, l
  <2>5. (now - boot + s + l) - (now - o) = o - (boot - s - l)
    BY <2>1, <2>2
  <2>6. (now - boot + s + l) % COUNTER_RANGE = (now - o) % COUNTER_RANGE
    BY <2>1, <2>2, <2>4, <2>5, SameRemainder
  <2> QED BY <2>3, <2>6 DEF s, l
<1> QED BY <1>1, Invariant, PTL
=============================================================================
