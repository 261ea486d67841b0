----------------------------- MODULE Lifecycle -----------------------------
(***************************************************************************)
(* The life of one packet forwarder inside the library: start(), stop() and *)
(* reset() of lora_comms.cc, the main() of lora_pkt_fwd.c that start() runs *)
(* and the worker threads it creates and joins.                             *)
(*                                                                          *)
(* Of what main and the workers do between two looks at exit_sig only how   *)
(* they block is kept: a sleep or a recv with a timeout ends by itself, the *)
(* read of the GPS device needs data or a stop.  quit_sig is never set: the *)
(* library installs the handler for SIGTERM alone.                          *)
(***************************************************************************)
EXTENDS Integers, Sequences, FiniteSets

CONSTANTS
  CONFIGS,      \* the configurations that can be found: whether there is a GPS
                \*   device and whether autoquit_threshold is set
  MAX_STARTS    \* bound: number of calls of start()

Config == [gps : BOOLEAN, autoquit : BOOLEAN]

ASSUME LifeConstants == CONFIGS \subseteq Config /\ MAX_STARTS \in Nat

Links == {"uplink", "downlink"}
Workers == {"up", "down", "jit", "timersync", "gps", "valid"}
GpsWorkers == {"gps", "valid"}

VARIABLES
  next_socket,            \* the socket mem_socket gives out next: 0, 1 or none left
  link_open,              \* whether a link is open
  signal_handler,         \* whether main has registered sig_handler
  signal_handler_called,
  stop_requested,
  asked,                  \* history: a stop was asked for that no reset() has cancelled
                          \*   and no start() has made good
  exit_sig,
  mpc,                    \* where the thread that called start() is
  mi,                     \*   the worker it creates or joins next
  status,                 \*   r: what start() returns, or has returned
  conf,                   \* the configuration, the same for every run
  gps_enabled,
  gps_open,               \* the GPS device is open
  hw_on,                  \* the concentrator runs
  wpc,                    \* where each worker is
  spc,                    \* where the thread that calls stop() is
  starts                  \* bound: calls of start() so far

stop_vars == <<signal_handler, signal_handler_called, stop_requested, asked>>
main_vars == <<mpc, mi, status, conf, starts>>
gps_vars == <<gps_enabled, gps_open>>
link_vars == <<next_socket, link_open>>
vars == <<next_socket, link_open, signal_handler, signal_handler_called, stop_requested,
          asked, exit_sig, mpc, mi, status, conf, gps_enabled, gps_open, hw_on, wpc, spc,
          starts>>

TypeOK ==
  /\ next_socket \in 0 .. 2
  /\ link_open \in [Links -> BOOLEAN]
  /\ signal_handler \in BOOLEAN
  /\ signal_handler_called \in BOOLEAN
  /\ stop_requested \in BOOLEAN
  /\ asked \in BOOLEAN
  /\ exit_sig \in BOOLEAN
  /\ mpc \in {"idle", "config", "gps", "sock_up", "sock_down", "hw", "spawn", "sigaction",
              "handler", "loop", "wait", "join", "gps_close", "hw_stop", "close"}
  /\ mi \in 1 .. 6
  /\ status \in {"SUCCESS", "FAILURE"}
  /\ conf \in Config
  /\ gps_enabled \in BOOLEAN
  /\ gps_open \in BOOLEAN
  /\ hw_on \in BOOLEAN
  /\ wpc \in [Workers -> {"none", "setup", "loop", "busy", "read", "catch", "handler", "ended"}]
  /\ spc \in {"idle", "handler"}
  /\ starts \in Nat

\* A process that has just loaded the library.
Init ==
  /\ next_socket = 0
  /\ link_open = [l \in Links |-> TRUE]
  /\ signal_handler = FALSE
  /\ signal_handler_called = FALSE
  /\ stop_requested = FALSE
  /\ asked = FALSE
  /\ exit_sig = FALSE
  /\ mpc = "idle" /\ mi = 1 /\ status = "SUCCESS"
  /\ conf \in CONFIGS
  /\ gps_enabled = FALSE /\ gps_open = FALSE /\ hw_on = FALSE
  /\ wpc = [w \in Workers |-> "none"]
  /\ spc = "idle"
  /\ starts = 0

Alive(w) == wpc[w] \notin {"none", "ended"}

\* Mutant: a request made before the handler is registered is forgotten.
check_stop_forgets(handler, request) ==
  LET h == signal_handler /\ request /\ ~signal_handler_called
  IN  /\ signal_handler' = (signal_handler \/ handler)
      /\ stop_requested' = (stop_requested \/ request)
      /\ signal_handler_called' = (signal_handler_called \/ h)
      /\ asked' = (asked \/ request)

\* check_stop, under stop_mutex: the caller that sets signal_handler_called is
\* the one that then calls the handler.
check_stop(handler, request) ==
  /\ signal_handler' = (signal_handler \/ handler)
  /\ stop_requested' = (stop_requested \/ request)
  /\ signal_handler_called' = (signal_handler_called \/ (signal_handler' /\ stop_requested'))
  /\ asked' = (asked \/ request)

\* The caller of check_stop has the handler to call.
HandlerTaken == signal_handler_called' /\ ~signal_handler_called

-----------------------------------------------------------------------------
(* start() and main.                                                       *)

\* start(), the first time or again, with or without a reset in between, when no
\* worker of an earlier run is left.
Start ==
  /\ mpc = "idle"
  /\ \A w \in Workers : ~Alive(w)
  /\ starts < MAX_STARTS
  /\ starts' = starts + 1
  /\ status' = "SUCCESS"
  /\ mpc' = "config"
  /\ UNCHANGED <<mi, conf, stop_vars, link_vars, gps_vars, exit_sig, hw_on, wpc, spc>>

\* exit(EXIT_FAILURE) in main: an exception that start() catches.  Workers that
\* have been created are left to themselves.
MainFails ==
  /\ mpc' = "close"
  /\ mi' = 1
  /\ status' = "FAILURE"

\* The configuration files are found and parsed, or main gives up.
MainConfig ==
  /\ mpc = "config"
  /\ (mpc' = "gps" /\ UNCHANGED <<mi, status>>) \/ MainFails
  /\ UNCHANGED <<conf, starts, stop_vars, link_vars, gps_vars, exit_sig, hw_on, wpc, spc>>

\* lgw_gps_enable: a device that cannot be opened is done without.
MainGps ==
  /\ mpc = "gps"
  /\ mpc' = "sock_up"
  /\ IF conf.gps
       THEN \E ok \in BOOLEAN : gps_enabled' = ok /\ gps_open' = (gps_open \/ ok)
       ELSE UNCHANGED gps_vars
  /\ UNCHANGED <<mi, status, conf, starts, stop_vars, link_vars, exit_sig, hw_on, wpc, spc>>

\* getaddrinfo, which may fail, socket and connect: a socket is one of the two links,
\* which is re-opened.
Socket(next) ==
  \/ /\ next_socket < 2
     /\ next_socket' = next_socket + 1
     /\ link_open' = [link_open EXCEPT ![IF next_socket = 0 THEN "uplink" ELSE "downlink"] = TRUE]
     /\ mpc' = next
     /\ UNCHANGED <<mi, status>>
  \/ MainFails /\ UNCHANGED link_vars

MainSocket ==
  /\ \/ mpc = "sock_up" /\ Socket("sock_down")
     \/ mpc = "sock_down" /\ Socket("hw")
  /\ UNCHANGED <<conf, starts, stop_vars, gps_vars, exit_sig, hw_on, wpc, spc>>

\* lgw_start and set_concentrator_time.
MainHardware ==
  /\ mpc = "hw"
  /\ \/ hw_on' = TRUE /\ mpc' = "spawn" /\ UNCHANGED <<mi, status>>
     \/ MainFails /\ UNCHANGED hw_on
  /\ UNCHANGED <<conf, starts, stop_vars, link_vars, gps_vars, exit_sig, wpc, spc>>

\* The workers in the order they are created and joined.
Crew == <<"up", "down", "jit", "timersync">> \o
        (IF gps_enabled THEN <<"gps", "valid">> ELSE <<>>)

\* pthread_create, which may fail.
MainSpawn ==
  /\ mpc = "spawn"
  /\ \/ /\ wpc' = [wpc EXCEPT ![Crew[mi]] = "setup"]
        /\ mi' = IF mi = Len(Crew) THEN 1 ELSE mi + 1
        /\ mpc' = IF mi = Len(Crew) THEN "sigaction" ELSE "spawn"
        /\ UNCHANGED status
     \/ MainFails /\ UNCHANGED wpc
  /\ UNCHANGED <<conf, starts, stop_vars, link_vars, gps_vars, exit_sig, hw_on, spc>>

\* sigaction(SIGTERM).
MainSigaction ==
  /\ mpc = "sigaction"
  /\ check_stop(TRUE, FALSE)
  /\ mpc' = IF HandlerTaken THEN "handler" ELSE "loop"
  /\ UNCHANGED <<mi, status, conf, starts, link_vars, gps_vars, exit_sig, hw_on, wpc, spc>>

MainHandler ==
  /\ mpc = "handler"
  /\ exit_sig' = TRUE
  /\ mpc' = "loop"
  /\ UNCHANGED <<mi, status, conf, starts, stop_vars, link_vars, gps_vars, hw_on, wpc, spc>>

\* The loop that waits and reports, until exit_sig is set.
MainLoop ==
  /\ \/ mpc = "loop" /\ mpc' = IF exit_sig THEN "join" ELSE "wait"
     \/ mpc = "wait" /\ mpc' = "loop"
  /\ UNCHANGED <<mi, status, conf, starts, stop_vars, link_vars, gps_vars, exit_sig, hw_on,
                 wpc, spc>>

\* Mutant: pthread_cancel does not wait.
MainJoinFirst ==
  /\ mpc = "join"
  /\ mi = 1 => ~Alive("up")
  /\ mi' = IF mi = Len(Crew) THEN 1 ELSE mi + 1
  /\ mpc' = IF mi < Len(Crew) THEN "join" ELSE IF gps_enabled THEN "gps_close" ELSE "hw_stop"
  /\ UNCHANGED <<status, conf, starts, stop_vars, link_vars, gps_vars, exit_sig, hw_on, wpc, spc>>

\* pthread_join, and pthread_cancel, which the library makes a join.
MainJoin ==
  /\ mpc = "join"
  /\ ~Alive(Crew[mi])
  /\ mi' = IF mi = Len(Crew) THEN 1 ELSE mi + 1
  /\ mpc' = IF mi < Len(Crew) THEN "join" ELSE IF gps_enabled THEN "gps_close" ELSE "hw_stop"
  /\ UNCHANGED <<status, conf, starts, stop_vars, link_vars, gps_vars, exit_sig, hw_on, wpc, spc>>

\* lgw_gps_disable.
MainGpsClose ==
  /\ mpc = "gps_close"
  /\ gps_open' = FALSE
  /\ mpc' = "hw_stop"
  /\ UNCHANGED <<gps_enabled, mi, status, conf, starts, stop_vars, link_vars, exit_sig, hw_on,
                 wpc, spc>>

\* lgw_stop, if it was exit_sig that ended the loop, and exit(EXIT_SUCCESS).
MainStop ==
  /\ mpc = "hw_stop"
  /\ hw_on' = IF exit_sig THEN FALSE ELSE hw_on
  /\ mpc' = "close"
  /\ UNCHANGED <<mi, status, conf, starts, stop_vars, link_vars, gps_vars, exit_sig, wpc, spc>>

\* start() closes the two links and returns.
Return ==
  /\ mpc = "close"
  /\ link_open' = [l \in Links |-> FALSE]
  /\ mpc' = "idle"
  /\ asked' = (asked /\ status # "SUCCESS")
  /\ UNCHANGED <<next_socket, mi, status, conf, starts, signal_handler, signal_handler_called,
                 stop_requested, gps_vars, exit_sig, hw_on, wpc, spc>>

MainStep ==
  MainConfig \/ MainGps \/ MainSocket \/ MainHardware \/ MainSpawn \/ MainSigaction
  \/ MainHandler \/ MainLoop \/ MainJoin \/ MainGpsClose \/ MainStop \/ Return

-----------------------------------------------------------------------------
(* Workers.                                                                *)

WorkerGoes(w, to) ==
  /\ wpc' = [wpc EXCEPT ![w] = to]
  /\ UNCHANGED <<main_vars, link_vars, gps_vars, hw_on, spc>>

\* with_catcher runs the thread's function up to its loop.
WorkerSetup(w) ==
  /\ wpc[w] = "setup"
  /\ WorkerGoes(w, "loop")
  /\ UNCHANGED <<stop_vars, exit_sig>>

\* while (!exit_sig && !quit_sig)
WorkerLoop(w) ==
  /\ wpc[w] = "loop"
  /\ WorkerGoes(w, IF exit_sig THEN "ended" ELSE IF w = "gps" THEN "read" ELSE "busy")
  /\ UNCHANGED <<stop_vars, exit_sig>>

\* A wait_ms, a recv with a timeout or a send without a mark is over.
WorkerBusy(w) ==
  /\ wpc[w] = "busy"
  /\ WorkerGoes(w, "loop")
  /\ UNCHANGED <<stop_vars, exit_sig>>

\* mem_read gives up when the signal handler has been called.
GpsReadStopped ==
  /\ wpc["gps"] = "read"
  /\ signal_handler_called
  /\ WorkerGoes("gps", "loop")
  /\ UNCHANGED <<stop_vars, exit_sig>>

\* The GPS device has sent something.
GpsReadData ==
  /\ wpc["gps"] = "read"
  /\ WorkerGoes("gps", "loop")
  /\ UNCHANGED <<stop_vars, exit_sig>>

\* exit(EXIT_FAILURE) in thread_up (a fetch fails) or in thread_down (a beacon
\* setting is not supported, or later a request whose data is not base64): an
\* exception for with_catcher.
WorkerFail(w) ==
  /\ \/ w \in {"up", "down"} /\ wpc[w] = "busy"
     \/ w = "down" /\ wpc[w] = "setup"
  /\ WorkerGoes(w, "catch")
  /\ UNCHANGED <<stop_vars, exit_sig>>

\* with_catcher stops the forwarder.
WorkerCatch(w) ==
  /\ wpc[w] = "catch"
  /\ check_stop(FALSE, TRUE)
  /\ WorkerGoes(w, IF HandlerTaken THEN "handler" ELSE "ended")
  /\ UNCHANGED exit_sig

WorkerHandler(w) ==
  /\ wpc[w] = "handler"
  /\ exit_sig' = TRUE
  /\ WorkerGoes(w, "ended")
  /\ UNCHANGED stop_vars

\* thread_down: too many PULL_DATA were not acknowledged.
Autoquit ==
  /\ conf.autoquit
  /\ wpc["down"] = "loop"
  /\ ~exit_sig
  /\ exit_sig' = TRUE
  /\ WorkerGoes("down", "ended")
  /\ UNCHANGED stop_vars

WorkerStep(w) ==
  WorkerSetup(w) \/ WorkerLoop(w) \/ WorkerBusy(w) \/ WorkerCatch(w) \/ WorkerHandler(w)

-----------------------------------------------------------------------------
(* The client.                                                             *)

\* stop(), at any time.
Stop ==
  /\ spc = "idle"
  /\ check_stop(FALSE, TRUE)
  /\ spc' = IF HandlerTaken THEN "handler" ELSE "idle"
  /\ UNCHANGED <<main_vars, link_vars, gps_vars, exit_sig, hw_on, wpc>>

StopHandler ==
  /\ spc = "handler"
  /\ exit_sig' = TRUE
  /\ spc' = "idle"
  /\ UNCHANGED <<main_vars, link_vars, gps_vars, stop_vars, hw_on, wpc>>

\* Mutant: the request is kept.
ResetKeepsRequest ==
  /\ mpc = "idle" /\ spc = "idle" /\ \A w \in Workers : ~Alive(w)
  /\ next_socket' = 0
  /\ link_open' = [l \in Links |-> TRUE]
  /\ signal_handler' = FALSE
  /\ signal_handler_called' = FALSE
  /\ asked' = FALSE
  /\ exit_sig' = FALSE
  /\ UNCHANGED <<stop_requested, main_vars, gps_vars, hw_on, wpc, spc>>

\* reset(): "Ensure no threads are accessing the packet forwarder".
Reset ==
  /\ mpc = "idle" /\ spc = "idle" /\ \A w \in Workers : ~Alive(w)
  /\ next_socket' = 0
  /\ link_open' = [l \in Links |-> TRUE]
  /\ signal_handler' = FALSE
  /\ signal_handler_called' = FALSE
  /\ stop_requested' = FALSE
  /\ asked' = FALSE
  /\ exit_sig' = FALSE
  /\ UNCHANGED <<main_vars, gps_vars, hw_on, wpc, spc>>

Next ==
  \/ Start \/ MainStep
  \/ \E w \in Workers : WorkerStep(w) \/ WorkerFail(w)
  \/ GpsReadStopped \/ GpsReadData \/ Autoquit
  \/ Stop \/ StopHandler \/ Reset

\* The scheduler runs every thread that can go on, and sleeps end.  Nobody has to
\* call start, stop or reset, the GPS device may stay silent, and neither a
\* failure nor an autoquit ever has to happen.
Fairness ==
  /\ WF_vars(MainStep)
  /\ \A w \in Workers : WF_vars(WorkerStep(w))
  /\ WF_vars(GpsReadStopped)
  /\ WF_vars(StopHandler)

Spec == Init /\ [][Next]_vars /\ Fairness

-----------------------------------------------------------------------------
(* Properties.                                                             *)

\* What a worker uses is there.
Equipped(w) == hw_on /\ (\A l \in Links : link_open[l]) /\ (w \in GpsWorkers => gps_open)

\* A worker that runs finds the concentrator on, the links open and its GPS
\* device open, from its creation to its end; only when main failed to create
\* all of them are some left behind.  When start() has returned EXIT_SUCCESS nothing
\* is left running and reset() may follow (lora_comms.cc:574, lora_pkt_fwd.c:1419-1449).
CrewSafe ==
  status = "SUCCESS" =>
    /\ \A w \in Workers : Alive(w) => Equipped(w)
    /\ mpc = "idle" =>
         ~hw_on /\ (gps_enabled => ~gps_open) /\ \A w \in Workers : ~Alive(w)

\* "This won't return until stop() is called on a separate thread": unless the
\* configuration asks for autoquit, start() succeeds only when a stop was asked for, by
\* the client or by a worker that failed, while it ran or before, and is not spent: no
\* reset() came in between, and no start() has succeeded on it already.  A request that
\* a start() which failed has left behind still counts, as one made before any start()
\* does; what reset() has put back never ends a run (lora_comms.h:23,
\* lora_comms.cc:715-725).
ReturnsWhenAsked ==
  mpc = "close" /\ status = "SUCCESS" /\ ~conf.autoquit => asked

\* stop() works whenever it is called: before start(), while main is still
\* creating workers and has no handler registered, or while thread_gps waits for
\* a silent device; start() returns.  So does it when a worker fails.
StopTerminates == stop_requested /\ mpc # "idle" ~> mpc = "idle"

\* "exit_sig: application terminates cleanly" (lora_pkt_fwd.c:130), whoever set it.
ExitTerminates == exit_sig /\ mpc # "idle" ~> mpc = "idle"
=============================================================================
