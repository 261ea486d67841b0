# TLA+ models of the packet forwarder library

The repository turns Semtech's LoRa packet forwarder into a library: the program
`lora_pkt_fwd` runs inside a process of its client, and instead of a UDP socket
it talks to the client through queues in memory. This directory holds TLA+ modules of the parts
that carry state and run concurrently, TLC configurations that check them on
small instances, and TLAPS proofs about all of them.

File names below are relative to `src/lora_pkt_fwd/`; `fwd.c` is short for
`src/lora_pkt_fwd.c`, `comms.cc` for `src/lora_comms.cc`.

## 1. Inventory of the system

### Threads

`start()` (`comms.cc:681`) runs the forwarder's `main` on the thread of its
caller. `main` (`fwd.c:984`) reads the configuration, opens the GPS device,
takes the two links, starts the concentrator and creates four or six threads,
then collects statistics until `exit_sig` is set. The client has threads of its own,
which call `send_to`, `recv_from`, the log functions, `stop` and `reset`.

| thread | where | what it does |
| --- | --- | --- |
| main | `fwd.c:984-1452` | initialisation, status reports, shutdown |
| `thread_up` | `fwd.c:1457-1893` | fetches received packets, forwards them on the uplink, waits for PUSH_ACK |
| `thread_down` | `fwd.c:1898-2561` | PULL_DATA, PULL_ACK, downlink requests, beacons: the producer of the JiT queue |
| `thread_jit` | `fwd.c:2587-2668` | polls the JiT queue and programs the concentrator: its consumer |
| `thread_timersync` | `src/timersync.c` | keeps the offset between the host's clock and the concentrator's counter |
| `thread_gps`, `thread_valid` | `fwd.c:2722-2900` | the GPS time reference, its age and the clock correction |

### Components, their state, and what makes them correct

* **In-memory links** (`comms.cc:32-220`, `302-372`). A `Queue` is a FIFO with a byte
  counter, a mutex and two condition variables; a `Link` is two of them. Calls
  have a high-water mark and a timeout; `close` wakes everybody and empties the
  queue. *Correct if* the counter is exact, nobody sleeps on a condition that
  holds, a closed queue stays empty, a mark is kept although several senders wake at once, a
  close releases every call, and all in all a call behaves as one atomic step.
* **Log queues** (`comms.cc:222-300`). A `Queue` of formatted messages whose close
  can be put off until it is empty. *Correct if* no message is lost by that and
  the close does happen.
* **JiT queue** (`src/jitqueue.c`). An array of nodes sorted by the time they are due on a
  32-bit microsecond counter that wraps, and a count of beacons. *Correct if* it
  stays in its array, counts its beacons, never holds two overlapping packets,
  and hands out what is due, in order and in time.
* **Life cycle** (`comms.cc:374-444`, `556-725`; `fwd.c:984-1256`, `1419-1452`). The
  stop request, the handler and whether it was called; `exit_sig`; the workers. *Correct
  if* a stop takes effect whenever it comes, no worker outlives what it uses, and the
  forwarder can be started again.
* **Upstream thread and reports**. The counters under `mx_meas_up`, the status report under
  `mx_stat_rep`, the datagram being built. *Correct if* each packet is counted and
  forwarded once and each report is sent once.
* **Downstream protocol**. The token of the last PULL_DATA, the auto-quit count, the
  counters under `mx_meas_dw`. *Correct if* each request gets one answer, its own, and auto-quit
  triggers exactly when it says it does.
* **Time synchronisation** (`src/timersync.c`; `fwd.c:2670-2900`). The offset between the host's clock and
  the counter, the serial buffer of `thread_gps`, the GPS time reference, whether it is valid, and the
  clock correction. *Correct if* the converted time is the counter's, the error of the
  time stamp in the reference is bounded and has a known cause, a reference called valid is young, and the buffer neither overflows nor loses a frame.
* **Configuration** (`fwd.c:246-901`, `1030-1066`). Static variables that up to two files set, in order,
  and that survive from one start to the next, and what was told to libloragw. *Correct if* the local
  file wins, the program and libloragw agree, and starting again with the same files changes nothing.
* **Beacons** (`fwd.c:2563-2585`, `1941-2066`, `2159-2192`). The packet prepared once and completed
  for each beacon. *Correct if* a device can read it: fields, frequency and two checksums.
* **base64** (`src/base64.c`). Pure functions with limits on their buffers; `char_to_code` ends the calling thread on a
  character it does not know. *Correct if* the text is that of RFC 4648, fits, and reads back as what it was made of.

### How they interact

`thread_down` and `thread_jit` share the JiT queue (mutex `mx_jit_queue`) and the
concentrator (`mx_concent`); `thread_valid` and `thread_down` share the GPS reference
(`mx_timeref`); main and `thread_up` share counters and the report; every thread reads `exit_sig`.
The client and the forwarder share only links, log queues and the stop state.

### What is hard to test

PROJECT.json lists the hazards at their lines. The important kinds are: values
read in one mutex section and used in the next (`jit_queue_is_full`, the index of
`jit_peek`, `num_beacon`, `report_ready`); a counter that wraps; wake-ups that several
threads wait for; a stop that races the registration of its handler; joins that
wait for a thread that waits for a device; acknowledgements that are late, duplicated or lost; settings and
references that outlive the run they belong to; a mode of the concentrator that one thread switches while another relies on it.

## 2. Modules

| module | models | state |
| --- | --- | --- |
| `QueueCalls` | arguments, results and messages of the queue calls | none |
| `Channel` | abstract: what `lora_comms.h` says of `send_to`/`recv_from` | a FIFO, open or not, the calls in progress |
| `WaitQueue` | `WaitQueue` and `Queue` of `comms.cc` | the queue, the byte counter, each thread's place in its call |
| `LogQueue` | `LogQueue` of `comms.cc`, extends `WaitQueue` | `close_pending` |
| `JitQueue` | the functions of `jitqueue.c` as operators | none |
| `JitThreads` | `thread_jit`, and the part of `thread_down` that fills the queue | queue, clock, TX modem, both threads' locals |
| `Lifecycle` | `start`, `stop`, `reset`, main, workers | see above |
| `Base64` | the functions of `base64.c` as operators, and RFC 4648 as a reference | none |
| `Upstream` | `thread_up`, main's reports; extends `Base64` | counters, report, datagrams, acknowledgements |
| `Downstream` | the protocol half of `thread_down`, main's copies; extends `Base64` | tokens, counters, answers, the packet |
| `GpsSerial` | the buffer of `thread_gps` | a window of the device's stream, the indices, the frames handled |
| `TimeSync` | `timersync.c`, `thread_gps`, `thread_valid`; extends `GpsSerial` | clocks, GPS mode, the offset, the reference, the correction |
| `Configuration` | both parse functions and the choice of the files | settings of the program and of libloragw |
| `Beacon` | the contents of beacons; extends `Configuration` | the packet, its time |
| `JitProofs`, `TimeProofs`, `LifeProofs`, `DownProofs`, `UpProofs` | theorems about the module each extends | |
| `QueueProofs` | theorems about `WaitQueue` and `LogQueue`, extends `LogQueue` | |
| `ConfigProofs` | theorems about `Configuration` and `Beacon`, extends `Beacon` | |
| `DataFacts` | theorems about `Base64`; arithmetic and sums of a field over a sequence for the other proofs | |
| `MCJit`, `MCQueue`, `MCLog`, `MCLifecycle`, `MCUpstream`, `MCDownstream`, `MCTimeSync`, `MCConfiguration` | sets for TLC | |

Conventions: each mutex section is one step; a local variable read in one step and used in a later one
is a variable of the model. Definitions keep the names of the code. A definition marked *Mutant* in its comment is not part of
the model: it is a plausible bug that the property named in PROJECT.json must detect.

### The links

`SendCall`/`RecvCall` make a call with any length, mark and timeout of the constants. `SendEnter`/`RecvEnter` are
`enqueue`/`dequeue` from taking the mutex to returning or sleeping, `SendWake`/`RecvWake` what
follows in `wait` when the thread has the mutex back, `Expire` the passing of a deadline, and
`SpuriousWake` what condition variables are allowed to do. `Close` notifies both condition variables. `Reset` of a link
requires that nobody is in a call, which is what `lora_comms.h` asks of the caller of
`reset()`; a log queue may be reset at any time.

`LogQueue` has any number of readers. The close that was put off is carried out by the reader that finds the queue empty, and notifies nobody (`comms.cc:290-294`):
a second reader that already sleeps without a deadline is left behind in a closed queue. `Stranded` names this state, and `PendingCloses` says that nothing else leads to it
and that every other call returns.

`Queue::recv` lowers the byte counter by the size of an element it has already
destroyed (`comms.cc:214`). That is undefined behaviour: `FREED_SIZES` is the set of values
that can be read instead of the old one. The runs and theorems take it to be empty, that is, memory intact;
with any other value `SizeIsSum` fails.

### The JiT queue and its threads

Times are ticks; `Count(t)` is the wrapped counter. `jit_enqueue` is two actions, `DownFull` (the
unlocked-again test for fullness) and `DownEnqueue` (criteria, insertion, sort), and `jit_peek`
is a purge that removes one outdated node at a time and a pick. `jit_sort_queue` is the rank of each
node under `compare`, the code's wrapped comparison; that comparison is a linear order as long as the counts in
the queue lie within half of the counter's range.
An immediate downlink is first tried one second ahead, at `time_us + 1E6` (`jitqueue.c:178`): a double, whose conversion to `uint32_t` is
undefined when it does not fit. `AsapTimes` is the set of what it can become there: the sum modulo the counter, as x86-64 computes it, or the largest value, to which other
processors cut it. `JIT_LAG` and `DOWN_LAG` say how far
the clock may run between two looks at it: one tick means threads scheduled in time, a lag of the
whole horizon means any scheduling at all.

Behaviour of the code that the model shows and that a maintainer should know:
a downlink that arrives too late by more than the wrap allows is refused as `TOO_EARLY`, and a beacon in
the past is accepted (`jitqueue.c:232-255`); a Class A downlink ignores a beacon's whole pre-delay, not
only its guard (`:265`); when the purge has emptied the queue `jit_peek` reads `nodes[-1]` (`:430`), which is harmless because the
index it then returns is -1 whatever was read. Requests refused before `jit_enqueue` never touch the queue and belong to `Downstream`.

### Life cycle

`check_stop` is one atomic step under `stop_mutex`, and the call of the handler by whoever
took it is another. Main's steps are the stages of `main`; every stage that can call
`exit(EXIT_FAILURE)` may do so. A worker is set up, loops, is busy (a sleep, a timed `recv`, a `send`) and may
fail where the code calls `exit`. `thread_gps` blocks in `mem_read` until data or a stop. `mem_pthread_cancel` is a join.
`asked` is a history variable: a request to stop was made that no `reset()` has cancelled and no `start()` has ended on.
`quit_sig` does not appear: the library registers the handler for SIGTERM only. `thread_down` may also fail in the middle of
its work, where `char_to_code` calls `exit`.

What it shows beyond its properties: when a worker fails, `start()` still returns
`EXIT_SUCCESS`; when a `pthread_create` fails, the workers already created run on and nobody joins them
(`CrewSafe` speaks only of the other case); a start that fails after the GPS device was opened leaves it open.

### Upstream

A packet is its number, its CRC status and its payload. `UpFetch` reads `report_ready` together with the fetch, `UpCount` is the filter
under the mutex, `UpPack` the serialisation (150 lines of formatting, abstracted to the number and the base64 text of the payload), `UpReport`
takes whatever report is there by then. `thread_up` keeps `mx_meas_up` while it waits for the
acknowledgement, so main cannot copy in between: `UpMeas` and `UpAck` keep it. A report that is not sent before the
next one is overwritten; `SentOnce` allows that.

### Downstream

The client's messages are requests, acknowledgements and anything else. A request is reduced to
how its time is given, its first mistake, its size and its text. A text that decodes to another length than the size given, or not at all, only makes a warning (`fwd.c:2501-2504`): the packet is
queued with the size given, filled up with zeroes. A character that is none of base64 ends `thread_down` (`base64.c:91`, `exit` is `mem_exit`), and with it
the forwarder. `jit_enqueue` answers anything it can answer. Time is counted in time-outs of `recv`.
`FULL` is reported to the server as `COLLISION_PACKET`. The counters of requests and refusals are added up over all intervals by main,
those of PULL_DATA are not: an acknowledgement that comes after the copy falls into the next interval, whose
rate then exceeds 100% (`fwd.c:1336-1340`, `1364`), 200% if that interval has one PULL_DATA. `RatesBounded` says that it is one acknowledgement too many at most, and none over all intervals. A negative `keepalive_time`, "disabled" according to
`fwd.c:143`, makes the code send PULL_DATA without ever listening.

### base64

A byte is a number, a character its ASCII code. The functions give what the C functions return and what they write; `Encodes` and `Denotes`
say what the text of a payload is from the table and the bits of RFC 4648, without blocks or shifts, so that the two definitions
have nothing in common. `Upstream` and `Downstream` use the functions where the threads call them, and `PayloadEncoded` and `PayloadOwn` compare
with the reference; `PayloadOwn` for texts with padding only at the end of whole blocks, since what the code makes of padding in the middle of a text
has no meaning to compare with. `bin_to_b64` and `b64_to_bin` themselves are proved inverse, and proved to follow the reference, in `DataFacts`.

### Time synchronisation

`set_concentrator_time` is five steps, as its sections of `mx_concent` and its readings of the two clocks are: GPS mode off, host's clock, counter (which may
fail unnoticed), offset, GPS mode on. `thread_gps` reads bytes, recognises frames in `GpsSerial`, and for a UBX time message reads the time stamp and
then updates the reference in two sections. `thread_valid` wakes up once per second and is two sections. The clocks are ticks; the counter wraps and
can gain on the host. The offset is a difference of whole timevals, so the wrap cancels out, which `ConcentTime` shows
where the code says "TODO: handle sx1301 coutner wrap-up". GPS mode is off while `thread_timersync` reads the counter: a
time stamp taken just then is the counter of that moment and not of the pulse (`timersync.c:98-134`). `Stamps` therefore keeps with what was read what the counter was at the pulse (`gps_count`, a
history variable), how long after it the reading was, and whether one of the known causes was there: GPS mode off, the next pulse passed, or a pulse from before `lgw_start`, after which the counter began again.
`StampOnPulse` bounds the error by the time of the reading, always, and says that without one of the causes there is none. The reference of an earlier run is still there after a restart; if that takes
less than `GPS_REF_MAX_AGE`, `thread_valid` calls it valid with a counter that has started again. `EarlierRunPasses` says when: not before its first check, and no longer than that age.
What the average of the clock error is, is left out; when it is complete, tracked and given up is not.

`GpsSerial` keeps the buffer as a window of the device's byte stream. A frame of up to `LongestKept` bytes is always recognised; a longer one may be
dropped while it is still incomplete (that is 128 - 16 + 2 bytes with the buffer of the code and reads of 8 bytes, and an NMEA sentence has
at most 82). The move to the front is a `memcpy` of regions that may overlap (`fwd.c:2805`); it is modelled as the move it is meant to be.

### Configuration and beacons

A directory has up to three files; `debug_conf.json` alone, or `global_conf.json` and then `local_conf.json`. A file is which objects it
has and what these define. A number in it is what the code stores, that is, converted to the type of the setting (`fwd.c:796`, `850`): `beacon_period` is
unsigned and `beacon_infodesc` a byte. The settings are static variables and libloragw keeps its own copies: both are state that the next start
finds. A start fails where main calls `exit`, with whatever was read until then. `LocalWins`
is what `fwd.c:991-993` say for `gateway_conf`: it compares the settings of a running forwarder with the files of its directory and with what the start before has left (`last`), whatever
the order of the calls was, and those of a failed one too. A setting that no file defines is the one of the start before. What else the model shows: an `SX1301_conf` in a local file sets `lorawan_public` and `clksrc` back when it does not define
them and empties the power table; LBT cannot be disabled again; a radio that is disabled keeps its frequency range; an invalid
`beacon_period` is stored before it is found invalid, and a local file's is used; the size of the power table counts its entries wherever they are.

`Beacon` continues with what `thread_down` makes of the settings. The packet is not initialised and is used for every
beacon, so `JUNK` is what its memory may hold. `BeaconReadable` divides the polynomials of both parts of the packet with
remainder, the way a device would check them, independently of `crc16`, and reads the fields back. A datarate or bandwidth without beacons, which
"should not happen" (`fwd.c:1989`, `2014`), is not checked when files are read and ends `thread_down` even with beacons
off. A beacon always carries the configured reference coordinates, never the measured ones. When the beacon is due belongs to `JitThreads`.

## 3. Runs

Every run ends within about two minutes with two workers. Each module with variables has a `TypeOK` that states their types. That of `JitThreads` is
checked in `jit_schedules`; the others are kept out of the configurations, where they would say nothing about the code. All are proved, as `TypeCorrect`, `QueueTypes` and `ConfTypeInvariance`; the type of `Beacon` is part of `BeaconInv`.

| run | result | what it shows |
| --- | --- | --- |
| `queue` | pass | safety of the queue, `MarkKept`, `CloseReleases`, and refinement of `Channel` with its liveness |
| `log` | pass | deferred close: nothing lost (`DeferredCloseKeeps`), happens and releases all but a reader it leaves behind (`PendingCloses`) |
| `jit_schedules` | pass | bounds, beacon count, overlaps, index and guard under every schedule |
| `jit_timing` | pass | order, lateness, free concentrator, timely programming with threads scheduled in time |
| `jit_asap` | pass | an immediate downlink always gets a slot unless the queue is full, or its time is cut just before the counter wraps |
| `jit_busy` | violation | a packet taken out of the queue no longer takes part in collision tests |
| `lifecycle` | pass | no worker outlives what it uses; a stop always takes effect, and only one that is asked for and not spent; restart is clean |
| `autoquit` | violation | auto-quit sets `exit_sig` only: a silent GPS device keeps `start()` from returning |
| `upstream` | pass | every packet counted and forwarded once, as the base64 of its own payload; every report sent once |
| `downstream` | pass | one answer per request, its own payload queued, acknowledgements counted once, at most one in the wrong interval, auto-quit when and only when due |
| `timesync` | pass | the converted time is the counter's, across its wrap and a restart; the reference is fresh, also one of an earlier run, and its error bounded; the serial buffer neither overflows nor loses a frame |
| `config` | pass | the local file wins, program and libloragw agree, a repeated start changes nothing, beacons can be read |

### Bounds and why they suffice

* `queue`: two senders and one receiver, two sends each. Two senders are needed for the race on the mark, and one
  message of one byte and one that is cut to two make the mark of 2 be reached in one or two steps. `log` swaps the marks for those of the log queues
  and has two readers, one of which the deferred close can leave behind; each of the two senders has one message.
* `jit_*`: the delays keep the order they have in `jitqueue.c`; the counter starts just below its wrap, so that every run crosses it, and `jit_asap` asks for slots on both sides. `jit_schedules` has a queue of two nodes, so that it is full, and lets either
  thread stand still for the whole run. `jit_timing` uses a queue of five, three beacons and three requests planned ahead; with requests at shorter notice `ConcentratorFree` fails, which is `jit_busy`.
* `lifecycle`: two starts, with and without a reset between them, for all four configurations.
* `upstream`: two packets fetched together or apart, two reports, two acknowledgements and two tokens, so that an old acknowledgement can match a new datagram by accident, as random tokens may. The two payloads end in a block of one and of two bytes and use every range of the alphabet.
* `downstream`: threshold 2 and three PULL_DATA, so that an acknowledgement can interrupt the count; two messages; one copy of the counters at any time, which makes two intervals with the one that goes on, and an acknowledgement in the second for a PULL_DATA of the first. Room for three bytes of payload, so that texts are padded, too short for their size, too long, or no base64.
* `timesync`: five worlds, each a stream of the device with bounds of its own, since every combination at once is out of reach. Two of them have frames of all kinds and lengths, adjacent and after noise, up to `LongestKept` and one beyond;
  one has a message in the middle of a synchronisation with a counter that drifts, so that a time stamp is read with GPS mode off; one a reference that outlives its run; one a reference that ages, is lost and is renewed while the counter wraps.
* `config`: three starts, each with any of 44 directories (complete, plain, invalid, refused by the HAL, not JSON, missing), so that a start can find what a failed one left and be repeated. The beacons of the first two starts are
  looked at, with all four supported datarates, and memory that is all zeroes or all ones.

`CHECK_DEADLOCK FALSE` is set in `upstream`, `downstream`, `timesync` and `config`, where the bounds on packets, messages, reports, ticks and starts end the behaviour and the threads may end. In the other runs deadlock is checked.

### Fairness

Every thread that can take a step is scheduled (weak fairness per thread), deadlines pass, and sleeps end: this is what a
preemptive scheduler and timed waits give. Condition variables need not wake spuriously, mutexes are granted
weakly fairly. Nobody has to call `send_to`, `recv_from`, `stop`, `start` or `reset`; the GPS device may stay silent, the server may never answer, no failure has to happen. In
`LogSpec` the client that reads the log keeps reading, which is what the log queues are for (`lora_comms.h:63-65`). The JiT runs, `timesync` and `config` check safety only; the promptness of the threads there is a constant, not fairness.

## 4. Findings

* `jit_busy`: `jitqueue.h:114` promises that checks are made before queueing because a queued packet has to be sent; but a packet that has left the queue is invisible to the collision test, so an accepted packet can find the concentrator emitting and be dropped, or can overwrite a scheduled one.
* `autoquit`: `exit_sig` set without `check_stop` does not end `mem_read`.

Observed while modelling. Each of these is in the models, and the properties named say how far it goes; they state what holds all the same:

* The deferred close of a log queue is not notified (`comms.cc:290-294`): with two readers one can sleep on in a closed queue (`PendingCloses`).
* `reset()` promises the "pre-start state" (`lora_comms.h:31-33`), but it leaves the program's static variables alone. A setting of `gateway_conf` that no file defines
  stays what the start before has left (`LocalWins`), and the GPS reference and the clock correction of the run before are taken for valid again within `GPS_REF_MAX_AGE` although the counter has started again (`ReferenceSound`, `CorrectionEarned`).
* A time stamp read while `set_concentrator_time` has GPS mode off is the running counter, not the "timestamp captured on PPM pulse" of `fwd.c:2685` (`ReferenceSound`).
* The rate of PULL_ACK per interval can be printed as more than 100% (`fwd.c:1336-1340`, `1364`; `RatesBounded`).
* `jitqueue.c:178` converts a double that need not fit: in the last second before the counter wraps the first slot tried for an immediate downlink is undefined, and where the conversion cuts it, the
  downlink is refused as `TOO_LATE` in the last 32.5 ms, criteria 1's 1.5 + 1 + 30 ms (`ClassCAccepted`).
* The purge of `jit_peek` continues behind the first node (`i = 0; continue` runs through the loop's `i++`, `jitqueue.c:413`) and leaves an outdated node there to a later call.
* What section 2 says of configurations, beacons and payloads.

## 5. Proofs

TLAPS checks every leaf of the theorems; they hold for all values of the constants that satisfy the
assumptions stated in the modules (`JitConstants`, `ThreadConstants`, `CallConstants`, `FreedSizes`, `LifeConstants`, `UpConstants`, `DownConstants`, `SerialConstants`,
`TimeConstants`, `ConfConstants`, `BeaconConstants`), so for any number of threads, any delays, any counter range, any streams, packets and messages, and whatever the bounds on ticks and calls. Those on base64 and `crc16` assume nothing of constants. The
assumptions are types, and few more: payloads have at most 255 bytes, the serial buffer has room for two reads, and the host's clock starts
later after the epoch than a reference may be old. Each inductive invariant was checked by TLC before it was proved. Every
safety invariant and every action property that a passing run checks is the subject of a theorem; where the theorem has hypotheses, they are named below.

* `JitProofs`. The inductive invariant `IInv` conjoins the type invariant, `QueueWithinBounds`, `BeaconsCounted`, `NoOverlap`,
  `GuardKept`, `IndexInRange` and three strengthenings. `RoomKept` carries the answer of `jit_queue_is_full` over to the
  insertion: only `thread_down` inserts, so the room cannot vanish. `CallArmed` says a beacon is
  only queued while the refill loop has one left, which bounds `num_beacon`. `Prepared` gives each node a
  pre-delay of at least the start delay, and a beacon one of its guard, without which the collision test in one direction would imply neither `NoOverlap` in the
  other nor `GuardKept`. The lemmas on sorting show that `jit_sort_queue` permutes, so bounds, beacons and overlaps survive it
  whatever `compare` does. Theorems: `TypeCorrect`, `QueueBounded`, `BeaconsExact`, `NeverOverlapping`, `GuardHolds`, `IndexValid`.
  These hold under every schedule.
* `JitProofs`, punctuality. What the queue promises about time depends on the delays and the scheduler, so these theorems have hypotheses. TLC finds all of them satisfied by
  the constants and states of the runs, so that none is vacuous.
  * `Punctual`, on constants: the accepted advance is within half of the counter's range (`HalfAhead`, without which `compare` is no order); `thread_jit` comes round twice between the point from which a packet is handed out and its start
    delay; it comes round once while a packet is on the air (`Follows`); and `thread_down` uses its time while criteria 1 covers its age. With the delays of `jitqueue.c` a poll may come 14 ms after the last and the time may be 2.5 ms old.
  * `[]WithinReach`, on states: nothing accepted lies in the past, or so close to the limit of criteria 2 that `jit_peek`, whose time may be older, takes it for outdated. The code
    does not exclude either: a beacon computed from a `last_beacon` long past lies in the past.
  * `SInv` says which lead each node still has for the place `thread_jit` is at, and that the queue is sorted by it; `CompareIs` turns the wrapped comparison into the difference of leads. `ScheduleKept` proves it; `NothingMissed`, `SoonestTaken` and
    `SentInTime` follow from it (`NeverMissed`, `NextFirst`, `ProgrammedInTime`).
  * `AirKept` (`ConcentratorFree`, with `AirInv`) assumes `[]AirClear` besides, which is exactly what the collision test cannot see: nothing is accepted too close to a packet that has left the queue. Finding `jit_busy` is a behaviour
    without it. It also assumes `OneKind`, no beacons or only Class B, since the other classes may lie in a beacon's pre-delay.
  * `PlannedIsSent` has no hypothesis on states: without beacons and with a server that plans every downlink far enough ahead (`PlansAhead`), `PlanInv` implies both of them, and nothing is missed, packets leave in order and in time, and the concentrator is free for each.
  * `ImmediateAccepted` (`ClassCAccepted`, with `SlotInv`, which keeps the first slot tried among `AsapTimes`) assumes `SlotRoom`: one second is more than criteria 1 asks for, the JiT delay is not longer than what a beacon keeps free behind it, and the counter has room behind the queue. An immediate downlink is then refused only by
    a full queue, or when its time was cut and the wrap is nearer than criteria 1 allows. The slot found is free because nodes are sorted and each reserves what its type says (`Genuine`).
* `QueueProofs`. `QInv` conjoins the type invariant, `SizeIsSum`, `NoLostWakeup`, `ClosedIsEmpty` and
  `SleepersArmed` (a sleeping sender has a mark, a thread whose deadline passed has a deadline). What `Buffered` of an appended or shortened
  sequence is, is proved from the recursive function itself. Theorems: `QueueTypes`, `SizeExact`, `WakeupsKept`, `ClosedEmpties`, the
  action property `MarksKept`, and `QueueImplementsChannel`: initial states and steps of the queue map to those of `Channel`. They assume `FREED_SIZES = {}`.
  About `LogQueue`: `DeferredClosesKeep`, that a deferred close loses no message, for any writers and readers and whatever size is read, if the client closes in no other way (`CLOSES` without `TRUE`); and `OneReaderInvariance`, that
  the invariants of the queue survive deferred closes if there is one reader. With two `NoLostWakeup` does not hold, as the deferred close notifies nobody.
* `DataFacts`, base64. `PayloadFits`: no payload of up to 255 bytes makes `bin_to_b64` fail on the 341 characters `thread_up` gives it. It rests on
  `TextLength`, four characters for each three bytes begun. `RoundTrip`: for payloads of every length and content, `b64_to_bin` gives back what `bin_to_b64` encoded and never
  exits. The argument goes block by block: a block of 24 bits is put together again from its four codes (`BlockOfCodes`) and from its three bytes
  (`BlockIs`); in a last block that is not complete the codes without a character are 0 on both sides (`RestIsZero`, `BlockBack`); no code is written as padding,
  so that exactly the padding is taken off (`PaddingBack`). No induction is needed: each byte of the result depends on one block.
  `PayloadText` and `DataRead` compare both directions with RFC 4648: the bits of a block are the same whether it is cut into four codes or three bytes, so that a character is the
  one of its six bits, and a byte read the one of its eight.
* `DataFacts` also has the arithmetic that the other proofs need, and lemmas on sums of one field over a sequence (`SumAppend`, `SumMoved`), on which the counters added up over reports rest.
* `TimeProofs` proves all that `timesync` checks. `TypeInv` is inductive only with the host's clock not running backwards, `ThreadsInv` says which thread is idle in which phase of main.
  `SerialInv` keeps the scan, the end of the last frame and the write index in order, which is `NoOverflow`. `FramesInv` says of every frame that is kept
  that it is handled or still ahead of the scan, and that none is complete and unhandled when the next read comes; a removal is right because it takes away only what the scan has passed, or a frame longer than
  `LongestKept` (`NoFrameLost`). `PulseInv` says what the counter at the last pulse was, from the pulses' distance and the drift, so that what went on since is known whether GPS mode is on or off; `StampInv`, that every time stamp,
  also the one read and not used yet, is off by no more than its reading took and only with a cause; `AgeInv` bounds the age at the last check and
  the time since it, where whole seconds are compared but ticks pass (`SecondsApart`), and `EarlierInv` the time since `lgw_start` with a reference of an earlier run; together they are `ReferenceReliable`. `CorrectionInv` relates the checks of the run, those since the
  reference was last lost and the counter that lags between the two sections of `thread_valid` (`CorrectionJustified`). `OffsetInv` says that an offset is the time at which the
  counter was last 0 modulo its range, which is also true of one that is about to be set; `ConcentratorTime` follows by arithmetic modulo the range.
* `LifeProofs`: `CrewEquipped` and `ReturnsOnlyWhenAsked`. `PreparedInv` says what main has opened and switched on at each of its places, `CrewInv` which workers can be alive there; a joined worker is dead because
  `Crew` names each worker once. `StopInv` traces `exit_sig` to a request that is still good or to the auto-quit, through whoever took the handler in `check_stop` and has not called it yet; a `reset()` that left anything of a request behind would break it, as
  `asked` would be over and `exit_sig` or the request still there.
* `DownProofs`: `RequestsAnswered`, `RatesSound`, `PayloadsOwn` and the action property `AutoquitEarned`. `MsgInv` keeps what was read from a message while the thread decides about it; `AnswerInv` says that the last request asked is the one not answered yet.
  `PullInv` counts the PULL_DATA since the last acknowledged one, also while `autoquit_cnt` lags behind by the one just sent. `RateInv` bounds the acknowledgements of each interval: only the last PULL_DATA before it can still be acknowledged in it besides its own. `CountInv` holds over all intervals together: the copies of main and the running counters are added up
  (`Total`), a refusal about to be counted is counted in advance, and the acknowledgements counted are exactly the PULL_DATA that have one, as `req_ack` admits each only once.
  `PacketInv` adds for `PayloadsOwn` that the packet being made has been cleared for its request and filled from its text alone; the rest is `DataRead`.
* `UpProofs`: `ReportsComplete`, `ForwardedExactly`, `PayloadsArrive` and `PayloadsEncoded`. `MeasInv` ties the mutex to the wait for the acknowledgement, `AddUp` and `ReportConsistent` are the two parts of `StatsExact`. `ReportInv` says that a report that is ready is
  newer than all that left, and that once `thread_up` has seen it ready it stays so until it takes it, which makes the unlocked look at `report_ready` harmless. `SentInv`, `DgramInv` and `KeptInv` place every packet that passed the filter: in a datagram sent, in
  the one being built, or about to be packed; they carry the text of each as what `bin_to_b64` makes of its payload. `PayloadsArrive` then composes the thread with `RoundTrip`: whatever was sent reads back as the payload it
  stands for. `PayloadsEncoded`, with `PacketsInv` (a datagram just sent is in the list), composes it with `PayloadText`: what was sent is the text of RFC 4648.
* `ConfigProofs`, configuration: `ConfTypeInvariance`, `GatewayLocalWins`, `HalAgreement`, `StartsRepeatable`. Each call of a parse function is a function of the settings that, for each of them, either keeps it
  or gives it a value that comes from the file alone; such functions are closed under composition, which covers the chains over radios and channels, and a second application changes nothing. The invariant `Produced` says of the settings found after a start
  that they were produced so by its directory, which is what `Repeatable` compares the next start with. `WinsInv` says how far main is with the calls of `Plan`, and that the settings are those the start found until the first `gateway_conf` has been read and those with what its file says behind it;
  the local file's call then makes of them what `LocalWins` says. `BeaconsKeepSettings`: with beacons the configuration still implements `Spec`, so all of this holds there too.
* `ConfigProofs`, beacons. `PartDivides`: data followed by what `crc16` returns divides by x^16 + x^12 + x^5 + 1. `Agree` relates the 16 bits of the code to what the division leaves; one round of the inner loop is one step
  of the division (`AgreeStep`), eight are a byte (`AgreeByte`). Both sides are recursive functions over the length; instead of an induction over it, a shortest counterexample is taken and refuted. `BeaconsReadable`: `BeaconInv` says that the specific part of the packet is complete once
  prepared and never touched again, that the common part is that of the last round, and that the settings do not change while `thread_down` runs. The statement is limited to GPS seconds below 2^32, the width of the field, which is
  until the year 2116; behind it the time in a beacon is the real one modulo 2^32.

The first attempt to prove `PayloadOwn` showed that it was false for a text with padding in its middle, of which the run has none: the property skips every padding character,
`b64_to_bin` only those at the end, so that it refuses a text like `a=bcd` for its length and leaves the payload zero, where the property expected three bytes. The property now speaks of the texts for which base64 defines a payload, and is proved for them.

Only model-checked is liveness: `CloseReleases`, `PendingCloses`, `StopTerminates`, `ReportSent`, `AutoquitHappens` and the liveness
half of `ChannelSpec`. They need fairness, and so `ENABLED`, which is out of the prover's reach.

## 6. Not modelled

* `parson.c` is a vendored JSON parser; what the files and requests define is the input of `Configuration` and `Downstream`.
* libloragw is not in the repository and is modelled only as its callers use it: TX status, the counter, fetches that may fail, the GPS parsers, the settings it takes or refuses.
* `util_ack`, `util_sink`, `util_tx_test`: small command line tools around a socket, with no state beyond their options. The copy of `base64.c` in `util_tx_test` is the one modelled.
* `example.c` is a client; that it calls `stop()`, which locks a mutex, from a signal handler is listed as a hazard and not modelled, as asynchronous signals are not.
* The start of `thread_down` up to `jit_queue_init` (`fwd.c:2068`): `JitThreads` begins behind it. In the first run the queue is zero anyway. After a restart it holds the
  nodes of the earlier run, and if `thread_down` is held up for longer than the 10 ms `thread_jit` sleeps first, `thread_jit` can still find them.
* Text: JSON, log messages, the printed statistics. The average of the clock error is floating point; only when it is valid is modelled. Two remarks from reading: `set_gw_send_hwm` before `start()` has no effect because `mem_socket` resets the link, and a `push_timeout_ms` of 0 makes `thread_up` block in `recv` with `mx_meas_up` held.

## 7. What remains open

* A composition of `Downstream` over `WaitQueue`, so that closing the downlink meets a request in progress. Today each is checked against its
  own abstraction of the other: `Downstream` sees `recv` return or time out, `WaitQueue` implements `Channel` for any caller.
* Liveness for every value of the constants, see section 5.
* The start of `thread_down` before `jit_queue_init` and `example.c`, see section 6.
