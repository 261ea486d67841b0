------------------------------ MODULE TimeSync ------------------------------
(***************************************************************************)
(* The clocks of the forwarder and the threads that keep them together:     *)
(* set_concentrator_time and get_concentrator_time with thread_timersync    *)
(* (timersync.c), thread_gps with gps_process_sync and gps_process_coords,  *)
(* and thread_valid (lora_pkt_fwd.c), from one start of the forwarder to    *)
(* the next.                                                                *)
(*                                                                          *)
(* Time is counted in ticks, SECOND of them to a second; a tick stands for  *)
(* the microsecond of struct timeval and of the concentrator's counter.     *)
(* The host's clock and the GPS pulse follow now, the counter may gain on   *)
(* them.  Sleeps end at any time, except that thread_valid is at most       *)
(* VALID_LAG ticks late.                                                    *)
(***************************************************************************)
EXTENDS GpsSerial

CONSTANTS
  SECOND,           \* ticks per second
  COUNTER_RANGE,    \* 2^32: the counter is a uint32_t
  GPS_REF_MAX_AGE,  \* seconds
  XERR_INIT_AVG,
  VALID_LAG,        \* how late thread_valid may wake up
  START_TIME,       \* now when the library is loaded: long after the epoch
  WORLDS            \* streams, each with its bounds: the ticks for which it is watched,
                    \*   ticks that the counter gains on the host, starts of the
                    \*   forwarder and synchronisations by thread_timersync

Bounds == [ticks : Nat, slips : Nat, starts : Nat, syncs : Nat]

ASSUME TimeConstants ==
  /\ SECOND \in Nat \ {0} /\ COUNTER_RANGE \in Nat \ {0}
  /\ GPS_REF_MAX_AGE \in Nat /\ XERR_INIT_AVG \in Nat /\ VALID_LAG \in Nat
  /\ START_TIME \in Nat /\ START_TIME >= (GPS_REF_MAX_AGE + 1) * SECOND
  /\ \A w \in WORLDS : w.stream \in Streams /\ w.bound \in Bounds

VARIABLES
  bound,
  now,
  boot,              \* when lgw_start reset the counter
  slip,              \* ticks the counter has gained since
  latch,             \* the counter at the last pulse of the GPS device
  gps_en,            \* the register LGW_GPS_EN
  phase,             \* of main: "off", "start" up to the creation of threads, "run"
  starts, syncs,
  tpc,               \* where set_concentrator_time is, for main or thread_timersync
  unix_timeval,      \*   and its local variables
  sx1301_timecount,
  offset_unix_concent,
  reading,           \* history: how far apart its two readings were, for the call in
  sync,              \*   progress and for the offset in use
  gpc,               \* where thread_gps is
  gps_time,          \* the pulse that the last UBX_NAV_TIMEGPS is about,
  gps_count,         \*   and, history, what the counter was at that pulse
  trig_tstamp,       \* the time stamp read for it, with the history of the reading
  time_reference_gps,   \* with the history of its time stamp and the run it is of
  gps_coord_valid,
  vpc,               \* where thread_valid is
  checked,           \*   and when it last woke up
  gps_ref_valid, ref_valid_local,
  xtal_correct_ok, init_cpt,
  good,              \* history: checks in a row that found the reference valid,
  good_run           \*   and those of them since the thread started

clock_vars == <<bound, now, boot, slip, latch, gps_en>>
main_vars == <<phase, starts, syncs>>
sync_vars == <<tpc, unix_timeval, sx1301_timecount, offset_unix_concent, reading, sync>>
gps_vars == <<gpc, gps_time, gps_count, trig_tstamp, time_reference_gps, gps_coord_valid>>
valid_vars == <<vpc, checked, gps_ref_valid, ref_valid_local, xtal_correct_ok, init_cpt,
                good, good_run>>
vars == <<clock_vars, main_vars, sync_vars, gps_vars, valid_vars, serial_vars>>

-----------------------------------------------------------------------------
(* Clocks.                                                                 *)

Timeval == [tv_sec : Int, tv_usec : 0 .. SECOND - 1]

\* Ticks as a struct timeval, and back.
ToTimeval(t) == [tv_sec |-> t \div SECOND, tv_usec |-> t % SECOND]
Ticks(tv) == tv.tv_sec * SECOND + tv.tv_usec

\* Mutant: no borrow from the seconds.
timersub_no_borrow(a, b) ==
  LET usec == a.tv_usec - b.tv_usec
  IN  [tv_sec |-> a.tv_sec - b.tv_sec, tv_usec |-> IF usec < 0 THEN usec + SECOND ELSE usec]

\* The macro timersub.
timersub(a, b) ==
  LET sec == a.tv_sec - b.tv_sec
      usec == a.tv_usec - b.tv_usec
  IN  IF usec < 0 THEN [tv_sec |-> sec - 1, tv_usec |-> usec + SECOND]
                  ELSE [tv_sec |-> sec, tv_usec |-> usec]

\* What its callers make of the result: a uint32_t number of microseconds.
get_concentrator_time(unix) ==
  Ticks(timersub(ToTimeval(unix), offset_unix_concent)) % COUNTER_RANGE

\* The counter of the concentrator.
Counter == (now - boot + slip) % COUNTER_RANGE

\* lgw_get_trigcnt: the counter as the last pulse found it, or the running counter
\* when GPS mode is off.
TrigCnt == IF gps_en THEN latch ELSE Counter

LastPulse == now - (now % SECOND)

Readings == [lag : Nat, slip : Nat, failed : BOOLEAN]
NoReading == [lag |-> 0, slip |-> 0, failed |-> FALSE]

\* What the counter was at the last pulse; of a pulse from before lgw_start, what it would
\* have been.
PulseCnt == IF boot <= LastPulse THEN latch ELSE (LastPulse - boot) % COUNTER_RANGE

\* The time stamp of a pulse.  Its history: what the counter was at the pulse, what the
\* counter has gone on since, at most, and whether set_concentrator_time had switched GPS
\* mode off, another pulse had come, or the counter had started only after the pulse.
Stamps == [count : 0 .. COUNTER_RANGE - 1, pulse : 0 .. COUNTER_RANGE - 1, late : Nat,
           upset : BOOLEAN]
NoStamp == [count |-> 0, pulse |-> 0, late |-> 0, upset |-> FALSE]
Zero == [tv_sec |-> 0, tv_usec |-> 0]

TypeOK ==
  /\ bound \in Bounds /\ now \in Nat /\ boot \in Nat /\ slip \in Nat
  /\ latch \in 0 .. COUNTER_RANGE - 1 /\ gps_en \in BOOLEAN
  /\ phase \in {"off", "start", "run"} /\ starts \in Nat /\ syncs \in Nat
  /\ tpc \in {"off", "clock", "count", "offset", "on", "sleep"}
  /\ unix_timeval \in Timeval /\ sx1301_timecount \in 0 .. COUNTER_RANGE - 1
  /\ offset_unix_concent \in Timeval
  /\ reading \in Readings /\ sync \in Readings
  /\ gpc \in {"read", "scan", "trig", "sync"}
  /\ gps_time \in Nat /\ gps_count \in 0 .. COUNTER_RANGE - 1 /\ trig_tstamp \in Stamps
  /\ time_reference_gps \in [at : Nat, boot : Nat, stamp : Stamps]
  /\ gps_coord_valid \in BOOLEAN
  /\ vpc \in {"wait", "correct"} /\ checked \in Nat
  /\ gps_ref_valid \in BOOLEAN /\ ref_valid_local \in BOOLEAN /\ xtal_correct_ok \in BOOLEAN
  /\ init_cpt \in 0 .. XERR_INIT_AVG + 1
  /\ good \in 0 .. XERR_INIT_AVG + 1 /\ good_run \in 0 .. XERR_INIT_AVG + 1
  /\ stream \in Streams /\ base \in Nat /\ wr_idx \in Nat /\ rd_idx \in Nat
  /\ frame_end \in Nat /\ first \in Nat /\ handled \in Seq(stream.frames)

\* A process that has just loaded the library.
Init ==
  /\ \E w \in WORLDS : stream = w.stream /\ bound = w.bound
  /\ now = START_TIME /\ boot = START_TIME /\ slip = 0 /\ latch = 0 /\ gps_en = FALSE
  /\ phase = "off" /\ starts = 0 /\ syncs = 0
  /\ tpc = "sleep" /\ unix_timeval = Zero /\ sx1301_timecount = 0
  /\ offset_unix_concent = Zero /\ reading = NoReading /\ sync = NoReading
  /\ gpc = "read" /\ gps_time = 0 /\ gps_count = 0 /\ trig_tstamp = NoStamp
  /\ time_reference_gps = [at |-> 0, boot |-> 0, stamp |-> NoStamp]
  /\ gps_coord_valid = FALSE
  /\ vpc = "wait" /\ checked = START_TIME
  /\ gps_ref_valid = FALSE /\ ref_valid_local = FALSE
  /\ xtal_correct_ok = FALSE /\ init_cpt = 0 /\ good = 0 /\ good_run = 0
  /\ base = 0 /\ wr_idx = 0 /\ rd_idx = 0 /\ frame_end = 0 /\ first = 0 /\ handled = <<>>

-----------------------------------------------------------------------------
(* The passage of time.                                                    *)

Tick ==
  /\ now < START_TIME + bound.ticks
  /\ phase = "run" => now < checked + SECOND + VALID_LAG
  /\ now' = now + 1
  /\ latch' = IF (now + 1) % SECOND = 0 THEN (now + 1 - boot + slip) % COUNTER_RANGE ELSE latch
  /\ UNCHANGED <<bound, boot, slip, gps_en, main_vars, sync_vars, gps_vars, valid_vars,
                 serial_vars>>

\* The counter gains a tick.
Slip ==
  /\ slip < bound.slips
  /\ slip' = slip + 1
  /\ UNCHANGED <<bound, now, boot, latch, gps_en, main_vars, sync_vars, gps_vars, valid_vars,
                 serial_vars>>

-----------------------------------------------------------------------------
(* main.                                                                   *)

\* lgw_gps_enable succeeds, then lgw_start; set_concentrator_time is next.
Start ==
  /\ phase = "off"
  /\ starts < bound.starts
  /\ starts' = starts + 1
  /\ phase' = "start"
  /\ gps_ref_valid' = FALSE
  /\ boot' = now /\ slip' = 0 /\ latch' = 0 /\ gps_en' = FALSE
  /\ tpc' = "off"
  /\ UNCHANGED <<bound, now, syncs, unix_timeval, sx1301_timecount, offset_unix_concent, reading, sync,
                 gps_vars, vpc, checked, ref_valid_local, xtal_correct_ok, init_cpt, good,
                 good_run, serial_vars>>

\* The threads have found exit_sig set and have been joined.
Stop ==
  /\ phase = "run"
  /\ tpc = "sleep" /\ gpc = "read" /\ vpc = "wait"
  /\ phase' = "off"
  /\ UNCHANGED <<starts, syncs, clock_vars, sync_vars, gps_vars, valid_vars, serial_vars>>

-----------------------------------------------------------------------------
(* set_concentrator_time and thread_timersync.                             *)

\* wait_ms(60000) is over.
TimersyncWakes ==
  /\ phase = "run" /\ tpc = "sleep"
  /\ syncs < bound.syncs
  /\ syncs' = syncs + 1
  /\ tpc' = "off"
  /\ UNCHANGED <<phase, starts, unix_timeval, sx1301_timecount, offset_unix_concent, reading, sync, clock_vars,
                 gps_vars, valid_vars, serial_vars>>

DisableGps ==
  /\ tpc = "off"
  /\ gps_en' = FALSE
  /\ tpc' = "clock"
  /\ UNCHANGED <<bound, now, boot, slip, latch, unix_timeval, sx1301_timecount,
                 offset_unix_concent, reading, sync, main_vars, gps_vars, valid_vars, serial_vars>>

\* gettimeofday.
ReadClock ==
  /\ tpc = "clock"
  /\ unix_timeval' = ToTimeval(now)
  /\ tpc' = "count"
  /\ UNCHANGED <<sx1301_timecount, offset_unix_concent, reading, sync, clock_vars, main_vars,
                 gps_vars, valid_vars, serial_vars>>

\* lgw_get_trigcnt; when it fails the count stays 0 and nobody looks.
ReadCount ==
  /\ tpc = "count"
  /\ \E ok \in BOOLEAN :
       /\ sx1301_timecount' = IF ok THEN TrigCnt ELSE 0
       /\ reading' = [lag |-> now - Ticks(unix_timeval), slip |-> slip, failed |-> ~ok]
  /\ tpc' = "offset"
  /\ UNCHANGED <<unix_timeval, offset_unix_concent, sync, clock_vars, main_vars, gps_vars,
                 valid_vars, serial_vars>>

SetOffset ==
  /\ tpc = "offset"
  /\ offset_unix_concent' = timersub(unix_timeval, ToTimeval(sx1301_timecount))
  /\ sync' = reading
  /\ unix_timeval' = Zero /\ sx1301_timecount' = 0 /\ reading' = NoReading
  /\ tpc' = "on"
  /\ UNCHANGED <<clock_vars, main_vars, gps_vars, valid_vars, serial_vars>>

\* The last step; main then creates the threads.
EnableGps ==
  /\ tpc = "on"
  /\ gps_en' = TRUE
  /\ tpc' = "sleep"
  /\ IF phase = "start"
       THEN /\ phase' = "run"
            /\ SerialStart
            /\ gpc' = "read"
            /\ vpc' = "wait" /\ checked' = now
            /\ init_cpt' = 0 /\ good_run' = 0
       ELSE UNCHANGED <<phase, serial_vars, gpc, vpc, checked, init_cpt, good_run>>
  /\ UNCHANGED <<bound, now, boot, slip, latch, starts, syncs, unix_timeval, sx1301_timecount,
                 offset_unix_concent, reading, sync, gps_time, gps_count, trig_tstamp,
                 time_reference_gps, gps_coord_valid, gps_ref_valid, ref_valid_local,
                 xtal_correct_ok, good>>

-----------------------------------------------------------------------------
(* thread_gps.                                                             *)

GpsRead ==
  /\ phase = "run" /\ gpc = "read"
  /\ SerialRead
  /\ gpc' = "scan"
  /\ UNCHANGED <<clock_vars, main_vars, sync_vars, gps_time, gps_count, trig_tstamp,
                 time_reference_gps, gps_coord_valid, valid_vars>>

\* UBX_NAV_TIMEGPS: gps_process_sync gets the time of the pulse, or gives up.
GpsTime ==
  /\ gpc = "scan"
  /\ \E f \in FramesAhead : f.kind = "TIMEGPS" /\ SerialFrame(f)
  /\ \/ gpc' = "trig" /\ gps_time' = LastPulse /\ gps_count' = PulseCnt
     \/ UNCHANGED <<gpc, gps_time, gps_count>>
  /\ UNCHANGED <<clock_vars, main_vars, sync_vars, trig_tstamp, time_reference_gps,
                 gps_coord_valid, valid_vars>>

\* The time stamp `count', and the circumstances of its reading.
Stamped(count) ==
  [count |-> count, pulse |-> gps_count, late |-> now - gps_time + slip,
   upset |-> tpc \notin {"off", "sleep"} \/ gps_time # LastPulse \/ gps_time < boot]

\* Mutant: the error of lgw_get_trigcnt goes unnoticed.
GpsTriggerUnchecked ==
  /\ gpc = "trig"
  /\ trig_tstamp' \in {Stamped(TrigCnt), Stamped(0)}
  /\ gpc' = "sync"
  /\ gps_time' = 0 /\ gps_count' = 0
  /\ UNCHANGED <<clock_vars, main_vars, sync_vars, time_reference_gps, gps_coord_valid, valid_vars,
                 serial_vars>>

\* lgw_get_trigcnt, "timestamp captured on PPM pulse", or gives up.
GpsTrigger ==
  /\ gpc = "trig"
  /\ \/ trig_tstamp' = Stamped(TrigCnt) /\ gpc' = "sync"
     \/ gpc' = "scan" /\ UNCHANGED trig_tstamp
  /\ gps_time' = 0 /\ gps_count' = 0
  /\ UNCHANGED <<clock_vars, main_vars, sync_vars, time_reference_gps, gps_coord_valid, valid_vars,
                 serial_vars>>

\* lgw_gps_sync, which notes the host's time, or keeps the previous reference.
GpsSync ==
  /\ gpc = "sync"
  /\ \/ time_reference_gps' = [at |-> now, boot |-> boot, stamp |-> trig_tstamp]
     \/ UNCHANGED time_reference_gps
  /\ trig_tstamp' = NoStamp
  /\ gpc' = "scan"
  /\ UNCHANGED <<clock_vars, main_vars, sync_vars, gps_time, gps_count, gps_coord_valid, valid_vars,
                 serial_vars>>

\* NMEA_RMC: gps_process_coords.
GpsCoords ==
  /\ gpc = "scan"
  /\ \E f \in FramesAhead : f.kind = "RMC" /\ SerialFrame(f)
  /\ gps_coord_valid' \in BOOLEAN
  /\ UNCHANGED <<clock_vars, main_vars, sync_vars, gpc, gps_time, gps_count, trig_tstamp,
                 time_reference_gps, valid_vars>>

GpsOther ==
  /\ gpc = "scan"
  /\ \E f \in FramesAhead : f.kind = "OTHER" /\ SerialFrame(f)
  /\ UNCHANGED <<clock_vars, main_vars, sync_vars, gps_vars, valid_vars>>

GpsScanned ==
  /\ gpc = "scan"
  /\ SerialRemove
  /\ gpc' = "read"
  /\ UNCHANGED <<clock_vars, main_vars, sync_vars, gps_time, gps_count, trig_tstamp,
                 time_reference_gps, gps_coord_valid, valid_vars>>

-----------------------------------------------------------------------------
(* thread_valid.                                                           *)

\* difftime(time(NULL), systime): both are whole seconds.
gps_ref_age == now \div SECOND - time_reference_gps.at \div SECOND

\* A number of checks, or init_cpt: counted to the one that averages and no further.
Counted(n) == IF n <= XERR_INIT_AVG THEN n + 1 ELSE n

\* wait_ms(1000) is over: the section of mx_timeref.
CheckReference ==
  LET valid == 0 <= gps_ref_age /\ gps_ref_age <= GPS_REF_MAX_AGE
  IN  /\ phase = "run" /\ vpc = "wait"
      /\ now >= checked + SECOND
      /\ checked' = now
      /\ gps_ref_valid' = valid /\ ref_valid_local' = valid
      /\ good' = (IF valid THEN Counted(good) ELSE 0)
      /\ good_run' = (IF valid THEN Counted(good_run) ELSE 0)
      /\ vpc' = "correct"
      /\ UNCHANGED <<xtal_correct_ok, init_cpt, clock_vars, main_vars, sync_vars, gps_vars,
                     serial_vars>>

\* Mutant: the correction outlives the reference.
CorrectionKept(ok, cpt, valid) ==
  IF ~valid THEN [ok |-> ok, cpt |-> 0]
  ELSE [ok |-> ok \/ cpt = XERR_INIT_AVG, cpt |-> Counted(cpt)]

\* The XTAL correction after a check: averaged over XERR_INIT_AVG measurements, then
\* tracked, and given up with the reference.
Correction(ok, cpt, valid) ==
  IF ~valid THEN [ok |-> FALSE, cpt |-> 0]
  ELSE [ok |-> ok \/ cpt = XERR_INIT_AVG, cpt |-> Counted(cpt)]

\* The section of mx_xcorr.
CorrectXtal ==
  LET c == Correction(xtal_correct_ok, init_cpt, ref_valid_local)
  IN  /\ vpc = "correct"
      /\ xtal_correct_ok' = c.ok /\ init_cpt' = c.cpt
      /\ vpc' = "wait"
      /\ UNCHANGED <<checked, gps_ref_valid, ref_valid_local, good, good_run, clock_vars,
                     main_vars, sync_vars, gps_vars, serial_vars>>

Next ==
  \/ Tick \/ Slip \/ Start \/ Stop
  \/ TimersyncWakes \/ DisableGps \/ ReadClock \/ ReadCount \/ SetOffset \/ EnableGps
  \/ GpsRead \/ GpsTime \/ GpsTrigger \/ GpsSync \/ GpsCoords \/ GpsOther \/ GpsScanned
  \/ CheckReference \/ CorrectXtal

Spec == Init /\ [][Next]_vars

-----------------------------------------------------------------------------
(* Properties.                                                             *)

\* Whenever a thread can ask, get_concentrator_time gives the value of the counter, in
\* spite of its wrapping around ("TODO: handle sx1301 coutner wrap-up"), except for the
\* delay between the two readings of the last synchronisation and for what the counter
\* has gained since.  It is off only if that reading of the counter failed, which
\* set_concentrator_time does not notice (timersync.c:70, 106, lora_pkt_fwd.c:1210).
ConcentTime ==
  phase = "run" /\ ~sync.failed =>
    get_concentrator_time(now) = (now - boot + sync.slip + sync.lag) % COUNTER_RANGE

\* How far the time stamp of the reference is ahead of the counter at its pulse.
StampError ==
  LET stamp == time_reference_gps.stamp
  IN  (stamp.count - stamp.pulse) % COUNTER_RANGE

\* The time stamp of the reference is never further from the counter at its pulse than the
\* counter went on from the pulse to the reading, and if it is off at all, it was read
\* while set_concentrator_time had GPS mode switched off, after the next pulse, or for a
\* pulse from before lgw_start.
StampOnPulse ==
  /\ StampError <= time_reference_gps.stamp.late
  /\ StampError # 0 => time_reference_gps.stamp.upset

\* A reference that is called valid is young, also between two checks.
ReferenceFresh ==
  phase = "run" /\ gps_ref_valid =>
    now - time_reference_gps.at < (GPS_REF_MAX_AGE + 2) * SECOND + VALID_LAG

\* A reference of an earlier run, made with a counter that has started again since, is
\* called valid only from the first check on and no longer than GPS_REF_MAX_AGE, and what
\* thread_valid takes, from lgw_start.
EarlierRunPasses ==
  phase = "run" /\ gps_ref_valid /\ time_reference_gps.boot # boot =>
    boot + SECOND <= now /\ now < boot + (GPS_REF_MAX_AGE + 2) * SECOND + VALID_LAG

\* How wrong what GPS times are converted with can be.  It is not always "timestamp
\* captured on PPM pulse" (lora_pkt_fwd.c:2685): thread_timersync switches GPS mode off and
\* on in between (timersync.c:98, 134).  Nor is it always of this run: it survives a
\* restart, and reset() (lora_comms.h:31).  But the error of the one and the duration of
\* the other are bounded (lora_pkt_fwd.c:1118, 2687, 2852).
ReferenceSound == StampOnPulse /\ ReferenceFresh /\ EarlierRunPasses

\* Beacons are sent (lora_pkt_fwd.c:2109) only when the reference has been valid for
\* XERR_INIT_AVG checks and one more without a break, in this run or since the one
\* before; and after as many checks of this run they are sent (lora_pkt_fwd.c:2866-2896).
CorrectionEarned ==
  /\ gps_ref_valid /\ xtal_correct_ok => good > XERR_INIT_AVG
  /\ phase = "run" /\ vpc = "wait" /\ good_run > XERR_INIT_AVG => xtal_correct_ok

\* A read never goes past the end of serial_buff, and what is removed is there
\* (lora_pkt_fwd.c:2738, 2803-2813).
BufferBounded ==
  /\ gpc = "read" => wr_idx + LGW_GPS_MIN_MSG_SIZE <= BUFF_SIZE
  /\ wr_idx <= BUFF_SIZE /\ frame_end <= rd_idx /\ rd_idx <= wr_idx

\* The longest frame that is always kept until it is complete.
LongestKept == BUFF_SIZE - 2 * LGW_GPS_MIN_MSG_SIZE + 2

\* Every frame the device has sent is recognised, once and in order, however its bytes
\* are spread over the reads and whatever noise is in front of it, if it is not longer
\* than LongestKept (lora_pkt_fwd.c:2749-2813).
FramesOnce ==
  /\ \A i \in 1 .. Len(handled) - 1 : handled[i].start < handled[i + 1].start
  /\ gpc = "read" =>
       \A f \in stream.frames :
         first <= f.start /\ f.start + f.size <= base + wr_idx /\ f.size <= LongestKept
           => \E i \in DOMAIN handled : handled[i] = f
=============================================================================
