------------------------------- MODULE Beacon -------------------------------
(***************************************************************************)
(* The beacons of thread_down in lora_pkt_fwd.c: the packet it prepares     *)
(* from the settings Configuration leaves, and loads with one GPS time      *)
(* after the other.  When a beacon is due and what the JiT queue makes of   *)
(* it is part of JitThreads.                                                *)
(*                                                                          *)
(* beacon_pkt is a local variable of the thread, and is not initialised:    *)
(* what is not written holds whatever was there before.  Latitude and       *)
(* longitude are in whole degrees.                                          *)
(***************************************************************************)
EXTENDS Configuration

CONSTANTS
  JUNK,            \* bytes the memory of beacon_pkt can hold at first
  SLOTS,           \* the beacons, as multiples of the period
  BEACON_STARTS    \* bound: beacons are looked at in the first starts only

ASSUME BeaconConstants ==
  /\ JUNK \subseteq 0 .. 255
  /\ SLOTS \subseteq Nat
  /\ BEACON_STARTS \in Nat

VARIABLES
  bpc,          \* thread_down: "none", "ready", "loaded", or "exited"
  beacon_pkt,   \* size, frequency and payload, which begins at 0
  beacon_time   \* next_beacon_gps_time of a beacon that is loaded

beacon_vars == <<bpc, beacon_pkt, beacon_time>>

NoBeacon == [size |-> 0, freq_hz |-> 0, payload |-> <<>>]

BeaconInit == Init /\ bpc = "none" /\ beacon_pkt = NoBeacon /\ beacon_time = 0

-----------------------------------------------------------------------------
(* crc16: one bit at a time, with the polynomial 0x1021.                     *)

TwoTo == <<1, 2, 4, 8, 16, 32, 64, 128>>
BitAt(x, i) == (x \div TwoTo[i + 1]) % 2

\* Exclusive or, of two bytes and of two numbers of 16 bits.
ByteXor ==
  [a \in 0 .. 255 |-> [b \in 0 .. 255 |->
     LET bit(i) == TwoTo[i + 1] * ((BitAt(a, i) + BitAt(b, i)) % 2)
     IN  bit(0) + bit(1) + bit(2) + bit(3) + bit(4) + bit(5) + bit(6) + bit(7)]]
Xor(a, b) == ByteXor[a \div 256][b \div 256] * 256 + ByteXor[a % 256][b % 256]

Shifted(x) == IF x >= 32768 THEN Xor((2 * x) % 65536, 4129) ELSE 2 * x

EightShifts(x) ==
  Shifted(Shifted(Shifted(Shifted(Shifted(Shifted(Shifted(Shifted(x))))))))

\* data[from] and the size - 1 bytes behind it.
crc16(data, from, size) ==
  LET x[i \in 0 .. size] ==
        IF i = 0 THEN 0 ELSE EightShifts(Xor(x[i - 1], data[from + i - 1] * 256))
  IN  x[size]

-----------------------------------------------------------------------------
(* The packet.                                                              *)

\* `bytes' are written from index `at' on.
Put(data, at, bytes) ==
  [i \in DOMAIN data |-> IF i - at + 1 \in DOMAIN bytes THEN bytes[i - at + 1] ELSE data[i]]

\* A number, or its two's complement, as n bytes, the lowest first.
Places == <<1, 256, 65536, 16777216>>
Bytes(x, n) == [k \in 1 .. n |-> (x \div Places[k]) % 256]
Zeroes(n) == [k \in 1 .. n |-> 0]

\* Sizes of the two unused fields, by datarate.
RFU1 == [sf \in {8, 9, 10, 12} |-> CASE sf = 8 -> 1 [] sf = 9 -> 2 [] sf = 10 -> 3 [] sf = 12 -> 5]
RFU2 == [sf \in {8, 9, 10, 12} |-> CASE sf = 8 -> 3 [] sf = 9 -> 0 [] sf = 10 -> 1 [] sf = 12 -> 3]

\* A coordinate as a fraction of 2^23 of the full range, truncated and clipped.
Field(deg, full) ==
  LET f == IF deg >= 0 THEN (deg * 8388608) \div full ELSE -((-deg * 8388608) \div full)
  IN  IF f > 8388607 THEN 8388607 ELSE IF f < -8388608 THEN -8388608 ELSE f

\* The gateway specific part, with its CRC, behind the time and its CRC.
Prepared(gw, memory) ==
  LET sf == gw["beacon_datarate"]
      at == RFU1[sf] + 6
      fields == <<gw["beacon_infodesc"]>> \o Bytes(Field(gw["ref_latitude"], 90), 3)
                \o Bytes(Field(gw["ref_longitude"], 180), 3) \o Zeroes(RFU2[sf])
      data == Put(Put(memory, 0, Zeroes(RFU1[sf])), at, fields)
  IN  Put(data, at + 7 + RFU2[sf], Bytes(crc16(data, at, 7 + RFU2[sf]), 2))

\* Mutant: the CRC is computed before the time is written.
LoadedStale(gw, data, time) ==
  LET at == RFU1[gw["beacon_datarate"]]
  IN  Put(Put(data, at, Bytes(time, 4)), at + 4, Bytes(crc16(data, 0, at + 4), 2))

\* The time and the CRC of the network common part.
Loaded(gw, data, time) ==
  LET at == RFU1[gw["beacon_datarate"]]
      timed == Put(data, at, Bytes(time, 4))
  IN  Put(timed, at + 4, Bytes(crc16(timed, 0, at + 4), 2))

Frequency(gw, time) ==
  LET chan == IF gw["beacon_freq_nb"] > 1
                THEN (time \div gw["beacon_period"]) % gw["beacon_freq_nb"] ELSE 0
  IN  gw["beacon_freq_hz"] + chan * gw["beacon_freq_step"]

Supported(gw) ==
  gw["beacon_bw_hz"] \in {125000, 500000} /\ gw["beacon_datarate"] \in DOMAIN RFU1

-----------------------------------------------------------------------------
(* thread_down.                                                             *)

\* The thread prepares its beacons, whether there will be any or not.
BeaconSetup ==
  /\ mpc = "running" /\ bpc = "none" /\ starts <= BEACON_STARTS
  /\ Supported(prog.gw)
  /\ \E junk \in JUNK :
       LET sf == prog.gw["beacon_datarate"]
           size == RFU1[sf] + 4 + 2 + 7 + RFU2[sf] + 2
       IN  beacon_pkt' = [size |-> size, freq_hz |-> 0,
                          payload |-> Prepared(prog.gw, [i \in 0 .. size - 1 |-> junk])]
  /\ bpc' = "ready"
  /\ UNCHANGED <<vars, beacon_time>>

\* exit(EXIT_FAILURE) for a bandwidth or a datarate that is not supported.
BeaconUnsupported ==
  /\ mpc = "running" /\ bpc = "none" /\ starts <= BEACON_STARTS
  /\ ~Supported(prog.gw)
  /\ bpc' = "exited"
  /\ UNCHANGED <<vars, beacon_pkt, beacon_time>>

\* One round of the refill loop, up to the call of jit_enqueue.
BeaconLoad ==
  /\ bpc \in {"ready", "loaded"} /\ mpc = "running"
  /\ prog.gw["beacon_period"] # 0
  /\ \E k \in SLOTS :
       LET time == k * prog.gw["beacon_period"]
       IN  /\ beacon_time' = time
           /\ beacon_pkt' = [beacon_pkt EXCEPT
                               !.freq_hz = Frequency(prog.gw, time),
                               !.payload = Loaded(prog.gw, @, time)]
  /\ bpc' = "loaded"
  /\ UNCHANGED vars

\* The steps of main; the thread and its variables end before start returns.
MainNext ==
  /\ Next
  /\ IF mpc' = "off" THEN bpc' = "none" /\ beacon_pkt' = NoBeacon /\ beacon_time' = 0
                    ELSE UNCHANGED beacon_vars

BeaconNext ==
  \/ MainNext
  \/ BeaconSetup \/ BeaconUnsupported \/ BeaconLoad

BeaconSpec == BeaconInit /\ [][BeaconNext]_<<vars, beacon_vars>>

-----------------------------------------------------------------------------
(* What a device makes of a beacon.                                         *)

\* One step of a long division of polynomials by x^16 + x^12 + x^5 + 1.
Flip(b, i) == [b EXCEPT ![i] = 1 - @]
Subtract(b, i) ==
  IF b[i] = 0 THEN b ELSE Flip(Flip(Flip(Flip(b, i), i + 4), i + 11), i + 16)

\* The remainder of the bytes, as a polynomial, is 0.
Divisible(bytes) ==
  LET n == 8 * Len(bytes)
      bits == [i \in 1 .. n |-> BitAt(bytes[(i - 1) \div 8 + 1], 7 - ((i - 1) % 8))]
      rest[i \in 0 .. n - 16] == IF i = 0 THEN bits ELSE Subtract(rest[i - 1], i)
  IN  \A i \in n - 15 .. n : rest[n - 16][i] = 0

\* Bytes a to b of the packet, the last two of which are a CRC, lowest byte first.
Part(p, a, b) ==
  [k \in 1 .. b - a + 1 |->
     p[IF a + k - 1 = b - 1 THEN b ELSE IF a + k - 1 = b THEN b - 1 ELSE a + k - 1]]

Unsigned(p, at, n) ==
  p[at] + 256 * p[at + 1] + 65536 * p[at + 2] + (IF n = 4 THEN 16777216 * p[at + 3] ELSE 0)
Coordinate(p, at) ==
  LET f == Unsigned(p, at, 3) IN IF f >= 8388608 THEN f - 16777216 ELSE f

\* `f' is as near to `deg' degrees as a field comes, on a range that ends at `full'.
Near(f, deg, full) ==
  LET d == f * full - (IF deg > full THEN full ELSE IF deg < -full THEN -full ELSE deg) * 8388608
  IN  d \in -full .. full

\* A beacon handed to the JiT queue has the length and the layout of its datarate
\* in LoRaWAN, both its CRCs hold, and it tells its own time, and the
\* descriptor and position of the settings: nothing of the beacon before and
\* nothing that was never written (lora_pkt_fwd.c:2018-2065, 2153-2163).
BeaconReadable ==
  bpc = "loaded" =>
    LET p == beacon_pkt.payload
        sf == prog.gw["beacon_datarate"]
        last_common == sf - 2
    IN  /\ <<sf, beacon_pkt.size>> \in {<<8, 19>>, <<9, 17>>, <<10, 19>>, <<12, 23>>}
        /\ Divisible(Part(p, 0, last_common))
        /\ Divisible(Part(p, last_common + 1, beacon_pkt.size - 1))
        /\ Unsigned(p, last_common - 5, 4) = beacon_time
        /\ p[last_common + 1] = prog.gw["beacon_infodesc"]
        /\ Near(Coordinate(p, last_common + 2), prog.gw["ref_latitude"], 90)
        /\ Near(Coordinate(p, last_common + 5), prog.gw["ref_longitude"], 180)
=============================================================================
