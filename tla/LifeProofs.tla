----------------------------- MODULE LifeProofs -----------------------------
(***************************************************************************)
(* Proofs about Lifecycle: its type invariant, that workers find what they  *)
(* use and that start() succeeds only when somebody asked it to end, for    *)
(* every set of configurations and every number of starts.                  *)
(***************************************************************************)
EXTENDS Lifecycle, TLAPS

\* The places of main in which workers of the run may be alive, and those in which the
\* links are open.
Manned == {"spawn", "sigaction", "handler", "loop", "wait", "join"}
Running == Manned \cup {"hw", "gps_close", "hw_stop"}

\* main has returned, or is about to, and has not failed.
Done == mpc \in {"close", "idle"} /\ status = "SUCCESS"

\* What main has made ready when it comes to a place: the links, the GPS device, the
\* concentrator; and what it has put away again.
PreparedInv ==
  /\ mpc = "sock_down" => next_socket = 2 \/ (next_socket = 1 /\ link_open["uplink"])
  /\ mpc \in Running => \A l \in Links : link_open[l]
  /\ mpc \in Running \ {"hw"} => hw_on
  /\ mpc \in {"sock_up", "sock_down", "gps_close"} \cup (Running \ {"hw_stop"}) =>
       (gps_enabled => gps_open)
  /\ Done => ~hw_on
  /\ Done \/ mpc = "hw_stop" => (gps_enabled => ~gps_open)
  /\ ~conf.gps => ~gps_enabled

\* Which workers can be alive in a run that has not failed: those of the crew, from their
\* creation on and until they are joined.
CrewInv ==
  /\ mpc \in {"spawn", "join"} => mi <= Len(Crew)
  /\ mpc \notin {"spawn", "join"} => mi = 1
  /\ status = "FAILURE" => mpc \in {"close", "idle"}
  /\ status = "SUCCESS" =>
       \A w \in Workers : Alive(w) =>
         /\ mpc \in Manned
         /\ w \in GpsWorkers => gps_enabled
         /\ mpc = "join" => \A i \in 1 .. mi - 1 : Crew[i] # w

\* Both sockets are given out and main cannot come past them: no start() can succeed until
\* reset() is called.
Spent ==
  /\ next_socket = 2
  /\ \/ mpc \in {"idle", "config", "gps", "sock_up"}
     \/ mpc = "close" /\ status = "FAILURE"

\* Where exit_sig comes from, and who has seen it.  A request that is no longer asked for
\* is of use to no start() any more.
StopInv ==
  /\ mpc = "sock_down" => next_socket # 0
  /\ mpc \in Running \/ (mpc = "close" /\ status = "SUCCESS") => next_socket = 2
  /\ stop_requested => asked \/ Spent
  /\ exit_sig => asked \/ conf.autoquit \/ Spent
  /\ signal_handler_called => stop_requested
  /\ mpc = "handler" \/ spc = "handler" \/ (\E w \in Workers : wpc[w] = "handler") => stop_requested
  /\ mpc \in {"join", "gps_close", "hw_stop"} => exit_sig
  /\ mpc = "close" /\ status = "SUCCESS" => exit_sig

\* The invariant that is inductive.
IInv == TypeOK /\ PreparedInv /\ CrewInv /\ StopInv

\* A step of a worker.
WorkerAction ==
  \/ \E w \in Workers : WorkerStep(w) \/ WorkerFail(w)
  \/ GpsReadStopped \/ GpsReadData \/ Autoquit

-----------------------------------------------------------------------------
(* Lemmas.                                                                 *)

\* Who belongs to the crew.
LEMMA CrewMembers ==
  /\ Len(Crew) \in {4, 6}
  /\ \A i \in 1 .. Len(Crew) : Crew[i] \in Workers /\ (Crew[i] \in GpsWorkers => gps_enabled)
  /\ \A w \in Workers : (w \in GpsWorkers => gps_enabled) =>
       \E i \in 1 .. Len(Crew) : Crew[i] = w
<1>1. CASE gps_enabled
  <2>1. /\ Len(Crew) = 6 /\ Crew[1] = "up" /\ Crew[2] = "down" /\ Crew[3] = "jit"
        /\ Crew[4] = "timersync" /\ Crew[5] = "gps" /\ Crew[6] = "valid"
    <3> DEFINE a == <<"up", "down", "jit", "timersync">> b == <<"gps", "valid">>
    <3>1. Crew = a \o b
      BY <1>1 DEF Crew
    <3>2. a \in Seq(Workers) /\ b \in Seq(Workers) /\ Len(a) = 4 /\ Len(b) = 2
      BY DEF Workers
    <3>3. Len(a \o b) = 6
      BY <3>2
    <3>4. /\ (a \o b)[1] = "up" /\ (a \o b)[2] = "down" /\ (a \o b)[3] = "jit"
          /\ (a \o b)[4] = "timersync" /\ (a \o b)[5] = "gps" /\ (a \o b)[6] = "valid"
      BY <3>2
    <3> QED BY <3>1, <3>3, <3>4
  <2>2. 1 .. 6 = {1, 2, 3, 4, 5, 6}
    OBVIOUS
  <2> QED BY <1>1, <2>1, <2>2, Zenon DEF Workers, GpsWorkers
<1>2. CASE ~gps_enabled
  <2>1. Crew = <<"up", "down", "jit", "timersync">>
    BY <1>2 DEF Crew
  <2> QED BY <1>2, <2>1 DEF Workers, GpsWorkers
<1> QED BY <1>1, <1>2

\* An index that is not the last has a next one.
LEMMA NextIndex ==
  ASSUME NEW n \in {4, 6}, NEW i \in 1 .. 6, i <= n, i # n
  PROVE  i + 1 \in 1 .. 6 /\ 1 \in 1 .. 6
  OBVIOUS

\* A step of a worker moves that worker, which is alive, and wakes no other.
LEMMA WorkerMoves ==
  ASSUME TypeOK, WorkerAction
  PROVE  /\ UNCHANGED <<main_vars, link_vars, gps_vars, hw_on, spc>>
         /\ wpc' \in [Workers -> {"none", "setup", "loop", "busy", "read", "catch", "handler",
                                  "ended"}]
         /\ \A v \in Workers : Alive(v)' => Alive(v)
<1>1. ASSUME NEW w \in Workers, NEW to, WorkerGoes(w, to), Alive(w),
             to \in {"loop", "ended", "read", "busy", "catch", "handler"}
      PROVE  /\ UNCHANGED <<main_vars, link_vars, gps_vars, hw_on, spc>>
             /\ wpc' \in [Workers -> {"none", "setup", "loop", "busy", "read", "catch",
                                      "handler", "ended"}]
             /\ \A v \in Workers : Alive(v)' => Alive(v)
  BY <1>1 DEF WorkerGoes, TypeOK, Alive
<1>2. ASSUME NEW w \in Workers, WorkerStep(w) \/ WorkerFail(w)
      PROVE  \E to \in {"loop", "ended", "read", "busy", "catch", "handler"} :
               WorkerGoes(w, to) /\ Alive(w)
  BY <1>2 DEF WorkerStep, WorkerFail, WorkerSetup, WorkerLoop, WorkerBusy, WorkerCatch,
              WorkerHandler, Alive
<1>3. "gps" \in Workers /\ "down" \in Workers
  BY DEF Workers
<1>4. CASE GpsReadStopped \/ GpsReadData
  <2>1. WorkerGoes("gps", "loop") /\ Alive("gps")
    BY <1>4 DEF GpsReadStopped, GpsReadData, Alive
  <2> QED BY <1>1, <1>3, <2>1
<1>5. CASE Autoquit
  <2>1. WorkerGoes("down", "ended") /\ Alive("down")
    BY <1>5 DEF Autoquit, Alive
  <2> QED BY <1>1, <1>3, <2>1
<1> QED BY <1>1, <1>2, <1>4, <1>5 DEF WorkerAction

\* What check_stop does to the types, and that the handler is only called on request.
LEMMA StopChecked ==
  ASSUME TypeOK, NEW handler \in BOOLEAN, NEW request \in BOOLEAN, check_stop(handler, request)
  PROVE  /\ signal_handler' \in BOOLEAN /\ stop_requested' \in BOOLEAN
         /\ signal_handler_called' \in BOOLEAN
         /\ stop_requested => stop_requested'
         /\ (signal_handler_called => stop_requested)
              => (signal_handler_called' => stop_requested')
         /\ request => stop_requested' /\ asked'
         /\ asked' \in BOOLEAN /\ (asked => asked')
         /\ ~request => (stop_requested' <=> stop_requested)
  BY Zenon DEF check_stop, TypeOK

\* Every step is one of main, of a worker or of the client.
LEMMA Steps ==
  ASSUME [Next]_vars
  PROVE  \/ Start \/ MainConfig \/ MainGps \/ MainSocket \/ MainHardware \/ MainSpawn
         \/ MainSigaction \/ MainHandler \/ MainLoop \/ MainJoin \/ MainGpsClose \/ MainStop
         \/ Return \/ WorkerAction \/ Stop \/ StopHandler \/ Reset \/ UNCHANGED vars
  BY Zenon DEF Next, MainStep, WorkerAction

-----------------------------------------------------------------------------
(* One lemma for each part of the invariant.                               *)

\* Types.
LEMMA TypeStep ==
  IInv /\ [Next]_vars => TypeOK'
<1> SUFFICES ASSUME TypeOK, CrewInv, [Next]_vars PROVE TypeOK'
  BY DEF IInv
<1> USE DEF stop_vars, main_vars, gps_vars, link_vars, vars
<1>1. CASE Start
  BY <1>1 DEF Start, MainFails, TypeOK
<1>2. CASE MainConfig
  BY <1>2 DEF MainConfig, MainFails, TypeOK
<1>3. CASE MainHandler
  BY <1>3 DEF MainHandler, MainFails, TypeOK
<1>4. CASE MainLoop
  BY <1>4 DEF MainLoop, MainFails, TypeOK
<1>5. CASE UNCHANGED vars
  BY <1>5 DEF MainFails, TypeOK
<1>6. CASE MainGps
  BY <1>6 DEF MainGps, MainFails, TypeOK
<1>7. CASE MainHardware
  <2>1. /\ hw_on' \in {TRUE, hw_on} /\ mpc' \in {"spawn", "close"} /\ mi' \in {1, mi}
        /\ status' \in {"FAILURE", status}
        /\ UNCHANGED <<conf, starts, stop_vars, link_vars, gps_vars, exit_sig, wpc, spc>>
    BY <1>7 DEF MainHardware, MainFails
  <2>2. hw_on' \in BOOLEAN
    BY <2>1, Zenon DEF TypeOK
  <2>3. mi' \in 1 .. 6 /\ status' \in {"SUCCESS", "FAILURE"}
    BY <2>1 DEF TypeOK
  <2> QED BY <2>1, <2>2, <2>3 DEF TypeOK
<1>8. CASE MainGpsClose
  BY <1>8 DEF MainGpsClose, MainFails, TypeOK
<1>9. CASE MainStop
  <2>1. hw_on' \in {FALSE, hw_on} /\ mpc' = "close"
        /\ UNCHANGED <<mi, status, conf, starts, stop_vars, link_vars, gps_vars, exit_sig, wpc,
                       spc>>
    BY <1>9 DEF MainStop
  <2>2. hw_on' \in BOOLEAN
    BY <2>1, Zenon DEF TypeOK
  <2> QED BY <2>1, <2>2 DEF TypeOK
<1>10. CASE MainSocket
  <2>1. link_open' \in [Links -> BOOLEAN]
    BY <1>10 DEF MainSocket, Socket, Links, MainFails, TypeOK
  <2>2. next_socket' \in 0 .. 2
    BY <1>10 DEF MainSocket, Socket, MainFails, TypeOK
  <2>3. /\ mpc' \in {"sock_down", "hw", "close"} /\ mi' \in {1, mi}
        /\ status' \in {"FAILURE", status}
        /\ UNCHANGED <<conf, starts, stop_vars, gps_vars, exit_sig, hw_on, wpc, spc>>
    BY <1>10 DEF MainSocket, Socket, MainFails
  <2>4. mi' \in 1 .. 6 /\ status' \in {"SUCCESS", "FAILURE"}
    BY <2>3 DEF TypeOK
  <2> QED BY <2>1, <2>2, <2>3, <2>4 DEF TypeOK
<1>11. CASE MainSpawn
  <2>1. mi <= Len(Crew) /\ Len(Crew) \in {4, 6}
    BY <1>11, CrewMembers DEF MainSpawn, CrewInv
  <2>2. Crew[mi] \in Workers
    BY <2>1, CrewMembers DEF TypeOK
  <2>3. mi' \in 1 .. 6
    <3>1. mi' = 1 \/ (mi' = mi + 1 /\ mi # Len(Crew))
      BY <1>11, Zenon DEF MainSpawn, MainFails
    <3>2. mi \in 1 .. 6
      BY DEF TypeOK
    <3>3. mi # Len(Crew) => mi + 1 \in 1 .. 6
      BY <2>1, <3>2, NextIndex, Zenon
    <3>4. 1 \in 1 .. 6
      OBVIOUS
    <3> QED BY <3>1, <3>3, <3>4, Zenon
  <2>4. wpc' \in [Workers -> {"none", "setup", "loop", "busy", "read", "catch", "handler",
                              "ended"}]
    BY <1>11, <2>2 DEF MainSpawn, MainFails, TypeOK
  <2> QED BY <1>11, <2>3, <2>4 DEF MainSpawn, MainFails, TypeOK
<1>12. CASE MainSigaction
  <2>1. signal_handler' \in BOOLEAN /\ stop_requested' \in BOOLEAN
        /\ signal_handler_called' \in BOOLEAN /\ asked' \in BOOLEAN
    BY <1>12, StopChecked DEF MainSigaction
  <2> QED BY <1>12, <2>1 DEF MainSigaction, TypeOK
<1>13. CASE MainJoin
  <2>1. mi <= Len(Crew) /\ Len(Crew) \in {4, 6}
    BY <1>13, CrewMembers DEF MainJoin, CrewInv
  <2>2. mi' \in 1 .. 6
    <3>1. mi' = 1 \/ (mi' = mi + 1 /\ mi # Len(Crew))
      BY <1>13, Zenon DEF MainJoin
    <3>2. mi \in 1 .. 6
      BY DEF TypeOK
    <3>3. mi # Len(Crew) => mi + 1 \in 1 .. 6
      BY <2>1, <3>2, NextIndex, Zenon
    <3>4. 1 \in 1 .. 6
      OBVIOUS
    <3> QED BY <3>1, <3>3, <3>4, Zenon
  <2>3. mpc' \in {"join", "gps_close", "hw_stop"}
    BY <1>13, Zenon DEF MainJoin
  <2> QED BY <1>13, <2>2, <2>3 DEF MainJoin, TypeOK
<1>14. CASE Return \/ Reset \/ StopHandler
  <2>1. CASE Return
    <3>1. asked' \in BOOLEAN
      BY <2>1, Zenon DEF Return, TypeOK
    <3> QED BY <2>1, <3>1 DEF Return, TypeOK
  <2>2. CASE Reset
    <3>1. link_open' \in [Links -> BOOLEAN] /\ next_socket' \in 0 .. 2
      BY <2>2 DEF Reset
    <3>2. signal_handler' \in BOOLEAN /\ signal_handler_called' \in BOOLEAN
          /\ stop_requested' \in BOOLEAN /\ asked' \in BOOLEAN /\ exit_sig' \in BOOLEAN
      BY <2>2 DEF Reset
    <3>3. UNCHANGED <<main_vars, gps_vars, hw_on, wpc, spc>>
      BY <2>2 DEF Reset
    <3> QED BY <3>1, <3>2, <3>3 DEF TypeOK
  <2>3. CASE StopHandler
    BY <2>3 DEF StopHandler, TypeOK
  <2> QED BY <1>14, <2>1, <2>2, <2>3
<1>15. CASE Stop
  <2>1. signal_handler' \in BOOLEAN /\ stop_requested' \in BOOLEAN
        /\ signal_handler_called' \in BOOLEAN /\ asked' \in BOOLEAN
    BY <1>15, StopChecked DEF Stop
  <2> QED BY <1>15, <2>1 DEF Stop, TypeOK
<1>16. CASE WorkerAction
  <2>1. signal_handler' \in BOOLEAN /\ stop_requested' \in BOOLEAN
        /\ signal_handler_called' \in BOOLEAN /\ exit_sig' \in BOOLEAN /\ asked' \in BOOLEAN
    <3>1. ASSUME NEW w \in Workers, WorkerCatch(w)
          PROVE  /\ signal_handler' \in BOOLEAN /\ stop_requested' \in BOOLEAN
                 /\ signal_handler_called' \in BOOLEAN /\ exit_sig' \in BOOLEAN /\ asked' \in BOOLEAN
      BY <3>1, StopChecked DEF WorkerCatch, TypeOK
    <3>2. ASSUME NEW w \in Workers, WorkerSetup(w) \/ WorkerLoop(w) \/ WorkerBusy(w)
                                    \/ WorkerHandler(w) \/ WorkerFail(w)
          PROVE  UNCHANGED stop_vars /\ (exit_sig' = exit_sig \/ exit_sig' = TRUE)
      BY <3>2 DEF WorkerSetup, WorkerLoop, WorkerBusy, WorkerHandler, WorkerFail
    <3>3. ASSUME GpsReadStopped \/ GpsReadData \/ Autoquit
          PROVE  UNCHANGED stop_vars /\ (exit_sig' = exit_sig \/ exit_sig' = TRUE)
      BY <3>3 DEF GpsReadStopped, GpsReadData, Autoquit
    <3>4. UNCHANGED stop_vars /\ (exit_sig' = exit_sig \/ exit_sig' = TRUE)
            => /\ signal_handler' \in BOOLEAN /\ stop_requested' \in BOOLEAN
               /\ signal_handler_called' \in BOOLEAN /\ exit_sig' \in BOOLEAN /\ asked' \in BOOLEAN
      BY DEF TypeOK
    <3> QED BY <1>16, <3>1, <3>2, <3>3, <3>4 DEF WorkerAction, WorkerStep
  <2> QED BY <1>16, <2>1, WorkerMoves DEF TypeOK
<1> QED BY <1>1, <1>2, <1>3, <1>4, <1>5, <1>6, <1>7, <1>8, <1>9, <1>10, <1>11,
        <1>12, <1>13, <1>14, <1>15, <1>16, Steps

\* What main has made ready stays ready until main puts it away.
LEMMA PreparedStep ==
  IInv /\ [Next]_vars => PreparedInv'
<1> SUFFICES ASSUME TypeOK, PreparedInv, StopInv, CrewInv, [Next]_vars PROVE PreparedInv'
  BY DEF IInv
<1> USE DEF main_vars, gps_vars, link_vars, vars, PreparedInv, Done, Running, Manned
<1>1. CASE Start \/ MainConfig \/ MainHandler \/ MainLoop \/ UNCHANGED vars
  BY <1>1 DEF Start, MainConfig, MainHandler, MainLoop, MainFails
<1>2. CASE MainGps
  BY <1>2 DEF MainGps, TypeOK
<1>3. CASE MainSocket
  <2>1. CASE mpc = "sock_up" /\ Socket("sock_down")
    BY <1>3, <2>1 DEF MainSocket, Socket, MainFails, TypeOK, Links
  <2>2. CASE mpc = "sock_down" /\ Socket("hw")
    BY <1>3, <2>2 DEF MainSocket, Socket, MainFails, TypeOK, Links
  <2> QED BY <1>3, <2>1, <2>2 DEF MainSocket
<1>4. CASE MainHardware \/ MainSpawn
  <2>1. CASE MainHardware
    BY <2>1 DEF MainHardware, MainFails
  <2>2. CASE MainSpawn
    BY <2>2 DEF MainSpawn, MainFails
  <2> QED BY <1>4, <2>1, <2>2
<1>5. CASE MainSigaction \/ MainJoin
  <2>1. CASE MainSigaction
    BY <2>1 DEF MainSigaction
  <2>2. CASE MainJoin
    BY <2>2 DEF MainJoin
  <2> QED BY <1>5, <2>1, <2>2
<1>6. CASE MainGpsClose \/ MainStop
  <2>1. CASE MainGpsClose
    BY <2>1 DEF MainGpsClose, StopInv
  <2>2. CASE MainStop
    BY <2>2 DEF MainStop, StopInv
  <2> QED BY <1>6, <2>1, <2>2
<1>7. CASE Return \/ Reset
  <2>1. CASE Return
    BY <2>1 DEF Return
  <2>2. CASE Reset
    BY <2>2 DEF Reset
  <2> QED BY <1>7, <2>1, <2>2
<1>8. CASE Stop \/ StopHandler
  <2>1. CASE Stop
    BY <2>1 DEF Stop
  <2>2. CASE StopHandler
    BY <2>2 DEF StopHandler
  <2> QED BY <1>8, <2>1, <2>2
<1>9. CASE WorkerAction
  <2>1. UNCHANGED <<main_vars, link_vars, gps_vars, hw_on, spc>>
    BY <1>9, WorkerMoves
  <2> QED BY <2>1
<1> QED BY <1>1, <1>2, <1>3, <1>4, <1>5, <1>6, <1>7, <1>8, <1>9, Steps

\* Workers of a run that has not failed are created, end and are joined; none is left.
LEMMA CrewStep ==
  IInv /\ [Next]_vars => CrewInv'
<1> SUFFICES ASSUME TypeOK, CrewInv, PreparedInv, [Next]_vars PROVE CrewInv'
  BY DEF IInv
<1> USE DEF main_vars, gps_vars, link_vars, vars, Manned
<1>1. Len(Crew) \in {4, 6} /\ mi \in 1 .. 6
  BY CrewMembers DEF TypeOK
<1>2. ASSUME UNCHANGED gps_enabled PROVE Crew' = Crew
  BY <1>2 DEF Crew
<1>3. CASE Start
  <2>1. \A w \in Workers : ~Alive(w)'
    BY <1>3 DEF Start, Alive
  <2> QED BY <1>3, <2>1 DEF Start, CrewInv
<1>4. CASE MainConfig \/ MainSocket \/ MainHardware
  <2>1. CASE MainConfig
    BY <1>2, <2>1 DEF MainConfig, Socket, MainFails, CrewInv, Alive
  <2>2. CASE MainSocket
    BY <1>2, <2>2 DEF MainSocket, Socket, MainFails, CrewInv, Alive
  <2>3. CASE MainHardware
    <3>1. mpc = "hw" /\ gps_enabled' = gps_enabled /\ wpc' = wpc
          /\ ((mpc' = "spawn" /\ mi' = mi /\ status' = status) \/ MainFails)
      BY <2>3 DEF MainHardware
    <3> QED BY <1>1, <1>2, <3>1 DEF MainFails, CrewInv, Alive
  <2> QED BY <1>4, <2>1, <2>2, <2>3
<1>5. CASE MainGps
  BY <1>5 DEF MainGps, CrewInv, Alive
<1>6. CASE MainSpawn
  <2>1. CASE MainFails /\ UNCHANGED wpc
    BY <1>6, <2>1 DEF MainFails, MainSpawn, CrewInv
  <2>2. CASE /\ wpc' = [wpc EXCEPT ![Crew[mi]] = "setup"]
             /\ mi' = IF mi = Len(Crew) THEN 1 ELSE mi + 1
             /\ mpc' = IF mi = Len(Crew) THEN "sigaction" ELSE "spawn"
             /\ UNCHANGED status
    <3>1. mi <= Len(Crew) /\ mpc = "spawn" /\ gps_enabled' = gps_enabled
      BY <1>6 DEF MainSpawn, CrewInv
    <3>2. Crew[mi] \in GpsWorkers => gps_enabled
      BY <1>1, <3>1, CrewMembers
    <3>3. \A w \in Workers : Alive(w)' => Alive(w) \/ w = Crew[mi]
      BY <2>2 DEF Alive, TypeOK
    <3>4. mpc' = "spawn" => mi' <= Len(Crew)
      BY <1>1, <2>2, <3>1
    <3>5. mpc' # "spawn" => mi' = 1 /\ mpc' = "sigaction"
      BY <2>2
    <3> QED BY <1>2, <2>2, <3>1, <3>2, <3>3, <3>4, <3>5 DEF CrewInv
  <2> QED BY <1>6, <2>1, <2>2 DEF MainSpawn
<1>7. CASE MainSigaction \/ MainHandler
  <2>1. CASE MainSigaction
    BY <1>2, <2>1 DEF MainSigaction, CrewInv, Alive
  <2>2. CASE MainHandler
    BY <1>2, <2>2 DEF MainHandler, CrewInv, Alive
  <2> QED BY <1>7, <2>1, <2>2
<1>8. CASE MainLoop
  <2>1. UNCHANGED <<mi, status, gps_enabled, wpc>> /\ mi = 1 /\ mpc' \in {"join", "wait", "loop"}
        /\ mpc \in {"loop", "wait"} /\ Crew' = Crew
    BY <1>2, <1>8 DEF MainLoop, CrewInv
  <2> QED BY <1>1, <2>1 DEF CrewInv, Alive
<1>9. CASE MainJoin
  <2>1. /\ mpc = "join" /\ mi <= Len(Crew) /\ ~Alive(Crew[mi])
        /\ UNCHANGED <<status, gps_enabled, wpc>> /\ Crew' = Crew
        /\ mi' = IF mi = Len(Crew) THEN 1 ELSE mi + 1
        /\ mpc' = IF mi < Len(Crew) THEN "join" ELSE IF gps_enabled THEN "gps_close" ELSE "hw_stop"
    BY <1>2, <1>9 DEF MainJoin, CrewInv
  <2>2. status = "SUCCESS"
    BY <2>1 DEF CrewInv, TypeOK
  <2>3. ASSUME NEW w \in Workers, Alive(w), NEW i \in 1 .. mi PROVE Crew[i] # w
    <3>1. i = mi \/ i \in 1 .. mi - 1
      BY <1>1
    <3> QED BY <2>1, <2>2, <2>3, <3>1 DEF CrewInv
  <2>4. CASE mi < Len(Crew)
    <3>1. mpc' = "join" /\ mi' = mi + 1 /\ mi' <= Len(Crew)
      BY <1>1, <2>1, <2>4
    <3>2. mi' - 1 = mi
      BY <1>1, <3>1
    <3>3. \A w \in Workers : Alive(w)' => Alive(w) /\ (w \in GpsWorkers => gps_enabled)
      BY <2>1, <2>2 DEF CrewInv, Alive
    <3> QED BY <2>1, <2>2, <2>3, <3>1, <3>2, <3>3 DEF CrewInv
  <2>5. CASE ~(mi < Len(Crew))
    <3>1. mi = Len(Crew) /\ mi' = 1 /\ mpc' \in {"gps_close", "hw_stop"}
      BY <1>1, <2>1, <2>5
    <3>2. \A w \in Workers : ~Alive(w)
      BY <2>2, <2>3, <3>1, CrewMembers DEF CrewInv
    <3>3. \A w \in Workers : ~Alive(w)'
      BY <2>1, <3>2 DEF Alive
    <3> QED BY <2>1, <2>2, <3>1, <3>3 DEF CrewInv
  <2> QED BY <2>4, <2>5
<1>10. CASE MainGpsClose \/ MainStop \/ Return
  <2>1. CASE MainGpsClose
    BY <1>2, <2>1 DEF MainGpsClose, CrewInv, Alive
  <2>2. CASE MainStop
    BY <1>2, <2>2 DEF MainStop, CrewInv, Alive
  <2>3. CASE Return
    BY <1>2, <2>3 DEF Return, CrewInv, Alive
  <2> QED BY <1>10, <2>1, <2>2, <2>3
<1>11. CASE Stop \/ StopHandler \/ Reset \/ UNCHANGED vars
  <2>1. CASE Stop
    BY <1>2, <2>1 DEF Stop, CrewInv, Alive
  <2>2. CASE StopHandler
    BY <1>2, <2>2 DEF StopHandler, CrewInv, Alive
  <2>3. CASE Reset
    BY <1>2, <2>3 DEF Reset, CrewInv, Alive
  <2>4. CASE UNCHANGED vars
    BY <1>2, <2>4 DEF CrewInv, Alive
  <2> QED BY <1>11, <2>1, <2>2, <2>3, <2>4
<1>12. CASE WorkerAction
  <2>1. UNCHANGED <<mpc, mi, status, gps_enabled>> /\ Crew' = Crew
        /\ \A v \in Workers : Alive(v)' => Alive(v)
    BY <1>2, <1>12, WorkerMoves
  <2> QED BY <2>1 DEF CrewInv
<1> QED BY <1>3, <1>4, <1>5, <1>6, <1>7, <1>8, <1>9, <1>10, <1>11, <1>12, Steps

\* exit_sig is set for a reason, and main goes on to join only when it is set.
LEMMA StopStep ==
  IInv /\ [Next]_vars => StopInv'
<1> SUFFICES ASSUME TypeOK, StopInv, CrewInv, [Next]_vars PROVE StopInv'
  BY DEF IInv
<1> USE DEF stop_vars, main_vars, link_vars, vars, StopInv, Spent, Running, Manned
<1>1. ASSUME UNCHANGED <<stop_vars, next_socket, exit_sig, mpc, status, conf, spc, wpc>> PROVE StopInv'
  BY <1>1
<1>2. CASE Start
  BY <1>2 DEF Start
<1>3. CASE MainConfig
  BY <1>3 DEF MainConfig, MainFails
<1>4. CASE MainGps
  BY <1>4 DEF MainGps
<1>5. CASE MainSocket
  <2>1. UNCHANGED <<stop_vars, exit_sig, conf, spc, wpc>> /\ next_socket \in 0 .. 2
    BY <1>5 DEF MainSocket, TypeOK
  <2>2. \/ /\ next_socket < 2 /\ next_socket' = next_socket + 1 /\ UNCHANGED status
           /\ \/ mpc = "sock_up" /\ mpc' = "sock_down"
              \/ mpc = "sock_down" /\ mpc' = "hw"
        \/ /\ UNCHANGED next_socket /\ mpc' = "close" /\ status' = "FAILURE"
           /\ mpc \in {"sock_up", "sock_down"}
    BY <1>5 DEF MainSocket, Socket, MainFails
  <2> QED BY <2>1, <2>2
<1>6. CASE MainHardware
  BY <1>6 DEF MainHardware, MainFails
<1>7. CASE MainSpawn
  <2>1. \A w \in Workers : wpc'[w] = "handler" => wpc[w] = "handler"
    BY <1>7 DEF MainSpawn, TypeOK
  <2>2. mpc = "spawn" /\ (mpc' \in {"spawn", "sigaction"} \/ MainFails)
        /\ UNCHANGED <<stop_vars, next_socket, exit_sig, conf, spc>>
    BY <1>7 DEF MainSpawn
  <2> QED BY <2>1, <2>2 DEF MainFails
<1>8. CASE MainSigaction
  <2>1. /\ signal_handler_called' => stop_requested'
        /\ stop_requested => stop_requested'
        /\ (stop_requested' <=> stop_requested) /\ (asked => asked')
    BY <1>8, StopChecked DEF MainSigaction
  <2>2. mpc' = "handler" => signal_handler_called'
    BY <1>8 DEF MainSigaction, HandlerTaken
  <2>3. mpc' \in {"handler", "loop"} /\ UNCHANGED <<next_socket, exit_sig, conf, spc, wpc, status>>
        /\ mpc = "sigaction"
    BY <1>8 DEF MainSigaction
  <2> QED BY <2>1, <2>2, <2>3
<1>9. CASE MainHandler
  BY <1>9 DEF MainHandler
<1>10. CASE MainLoop
  BY <1>10 DEF MainLoop
<1>11. CASE MainJoin
  BY <1>11 DEF MainJoin
<1>12. CASE MainGpsClose
  BY <1>12 DEF MainGpsClose
<1>13. CASE MainStop
  BY <1>13 DEF MainStop
<1>14. CASE Return
  <2>1. /\ UNCHANGED <<next_socket, exit_sig, status, conf, spc, wpc>>
        /\ UNCHANGED <<signal_handler_called, stop_requested>>
        /\ mpc = "close" /\ mpc' = "idle"
        /\ status # "SUCCESS" => (asked' <=> asked)
    BY <1>14, Zenon DEF Return
  <2>2. CASE next_socket = 2
    BY <2>1, <2>2
  <2>3. CASE next_socket # 2
    BY <2>1, <2>3
  <2> QED BY <2>2, <2>3
<1>15. CASE Stop
  <2>1. /\ stop_requested' /\ asked'
        /\ UNCHANGED <<next_socket, exit_sig, mpc, status, conf, wpc>>
    BY <1>15, StopChecked DEF Stop
  <2> QED BY <2>1
<1>16. CASE StopHandler
  BY <1>16 DEF StopHandler
<1>17. CASE Reset
  <2>1. \A w \in Workers : wpc'[w] # "handler"
    BY <1>17 DEF Reset, Alive
  <2>2. mpc' = "idle" /\ spc' = "idle" /\ ~signal_handler_called' /\ ~exit_sig'
        /\ ~stop_requested'
    BY <1>17 DEF Reset
  <2> QED BY <2>1, <2>2
<1>18. CASE WorkerAction
  <2>1. UNCHANGED <<next_socket, mpc, status, conf, spc>>
    BY <1>18, WorkerMoves
  <2>2. ASSUME NEW w \in Workers, WorkerSetup(w) \/ WorkerLoop(w) \/ WorkerBusy(w) \/ WorkerFail(w)
        PROVE  StopInv'
    <3>1. UNCHANGED <<stop_vars, exit_sig>>
          /\ \A v \in Workers : wpc'[v] = "handler" => wpc[v] = "handler"
      BY <2>2 DEF WorkerSetup, WorkerLoop, WorkerBusy, WorkerFail, WorkerGoes, TypeOK
    <3> QED BY <2>1, <3>1
  <2>3. ASSUME NEW w \in Workers, WorkerCatch(w) PROVE StopInv'
    <3>1. stop_requested' /\ asked' /\ UNCHANGED exit_sig
      BY <2>3, StopChecked DEF WorkerCatch
    <3> QED BY <2>1, <3>1
  <2>4. ASSUME NEW w \in Workers, WorkerHandler(w) PROVE StopInv'
    <3>1. UNCHANGED stop_vars /\ stop_requested /\ exit_sig'
      BY <2>4 DEF WorkerHandler
    <3> QED BY <2>1, <3>1
  <2>5. ASSUME GpsReadStopped \/ GpsReadData PROVE StopInv'
    <3>1. UNCHANGED <<stop_vars, exit_sig>>
          /\ \A v \in Workers : wpc'[v] = "handler" => wpc[v] = "handler"
      BY <2>5 DEF GpsReadStopped, GpsReadData, WorkerGoes, TypeOK
    <3> QED BY <2>1, <3>1
  <2>6. ASSUME Autoquit PROVE StopInv'
    <3>1. conf.autoquit /\ exit_sig' /\ UNCHANGED stop_vars
          /\ \A v \in Workers : wpc'[v] = "handler" => wpc[v] = "handler"
      BY <2>6 DEF Autoquit, WorkerGoes, TypeOK
    <3> QED BY <2>1, <3>1
  <2> QED BY <1>18, <2>2, <2>3, <2>4, <2>5, <2>6 DEF WorkerAction, WorkerStep
<1>19. CASE UNCHANGED vars
  BY <1>1, <1>19
<1> QED
  BY <1>2, <1>3, <1>4, <1>5, <1>6, <1>7, <1>8, <1>9, <1>10, <1>11, <1>12, <1>13, <1>14,
     <1>15, <1>16, <1>17, <1>18, <1>19, Steps

-----------------------------------------------------------------------------
(* The theorems.                                                           *)

\* The conjunction is an invariant of the forwarder's life.
LEMMA Invariant ==
  Spec => []IInv
<1>1. Init => IInv
  <2> SUFFICES ASSUME Init PROVE IInv
    OBVIOUS
  <2>1. TypeOK
    <3>1. link_open \in [Links -> BOOLEAN] /\ conf \in Config
          /\ wpc \in [Workers -> {"none", "setup", "loop", "busy", "read", "catch", "handler",
                                  "ended"}]
      BY LifeConstants DEF Init
    <3>2. next_socket \in 0 .. 2 /\ mi \in 1 .. 6 /\ starts \in Nat
      BY DEF Init
    <3> QED BY <3>1, <3>2, Zenon DEF Init, TypeOK
  <2>2. PreparedInv
    BY DEF Init, PreparedInv, Running, Manned, Done
  <2>3. \A w \in Workers : ~Alive(w) /\ wpc[w] # "handler"
    BY DEF Init, Alive
  <2> QED BY <2>1, <2>2, <2>3 DEF Init, IInv, CrewInv, StopInv, Running, Manned
<1>2. IInv /\ [Next]_vars => IInv'
  BY TypeStep, PreparedStep, CrewStep, StopStep DEF IInv
<1> QED BY <1>1, <1>2, PTL DEF Spec

\* Every variable of the life cycle keeps its type, so main never creates or joins a
\* worker that is not in the crew (lora_pkt_fwd.c:1291-1346, 1419-1435).
THEOREM TypeCorrect ==
  Spec => []TypeOK
<1>1. IInv => TypeOK
  BY DEF IInv
<1> QED BY <1>1, Invariant, PTL

\* However often start() is called, with or without reset() in between, a worker of a run
\* that has not failed finds the links open, the concentrator on and its device open, and
\* none is left when start() has returned EXIT_SUCCESS (lora_comms.cc:574,
\* lora_pkt_fwd.c:1419-1449).
THEOREM CrewEquipped ==
  Spec => []CrewSafe
<1>1. IInv => CrewSafe
  <2> SUFFICES ASSUME IInv, status = "SUCCESS" PROVE CrewSafe
    BY DEF CrewSafe
  <2>1. ASSUME NEW w \in Workers, Alive(w) PROVE Equipped(w)
    <3>1. mpc \in Manned /\ (w \in GpsWorkers => gps_enabled)
      BY <2>1 DEF IInv, CrewInv
    <3>2. hw_on /\ (\A l \in Links : link_open[l]) /\ (gps_enabled => gps_open)
      BY <3>1 DEF IInv, PreparedInv, Manned, Running
    <3> QED BY <3>1, <3>2 DEF Equipped
  <2>2. ASSUME mpc = "idle"
        PROVE  ~hw_on /\ (gps_enabled => ~gps_open) /\ \A w \in Workers : ~Alive(w)
    <3>1. Done /\ mpc \notin Manned
      BY <2>2 DEF Done, Manned
    <3> QED BY <3>1 DEF IInv, CrewInv, PreparedInv
  <2> QED BY <2>1, <2>2 DEF CrewSafe
<1> QED BY <1>1, Invariant, PTL

\* start() returns EXIT_SUCCESS only by an autoquit that the configuration asks for or when a
\* stop was asked for that no reset() has cancelled and no start() has succeeded on already
\* (lora_comms.h:23, lora_comms.cc:715-725).
THEOREM ReturnsOnlyWhenAsked ==
  Spec => []ReturnsWhenAsked
<1>1. IInv => ReturnsWhenAsked
  BY DEF IInv, StopInv, Spent, ReturnsWhenAsked
<1> QED BY <1>1, Invariant, PTL
=============================================================================
