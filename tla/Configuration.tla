---------------------------- MODULE Configuration ----------------------------
(***************************************************************************)
(* What the JSON files of a directory make of the settings of the program   *)
(* and of libloragw (HAL): parse_SX1301_configuration and                    *)
(* parse_gateway_configuration of lora_pkt_fwd.c, and the part of main that *)
(* calls them.  The settings are static variables: as a library the program *)
(* is started again and again, with one directory or another, and each      *)
(* start finds what the ones before have left.                              *)
(*                                                                          *)
(* A file is whether it is JSON, which of the two objects it has, and what  *)
(* these define, as functions whose domain is what is there.  The value of  *)
(* a setting is the number the code stores, converted to its type; a        *)
(* setting of the wrong type counts as not there, or as 0 where the code    *)
(* takes it as that.                                                        *)
(***************************************************************************)
EXTENDS Integers, Sequences, FiniteSetsExt

CONSTANTS
  TX_GAIN_LUT_SIZE_MAX,   \* entries of the table of powers
  RADIOS,                 \* the RF chains, and
  CHANNELS,               \* the IF chains, which are read in this order
  DIRECTORIES,            \* the directories the client starts the program with
  MAX_STARTS              \* bound: starts

Lut == 0 .. TX_GAIN_LUT_SIZE_MAX - 1
Radios == {RADIOS[i] : i \in DOMAIN RADIOS}
Channels == {CHANNELS[i] : i \in DOMAIN CHANNELS}

\* The settings of gateway_conf before and behind beacon_period, in that order.
Early == {"gateway_ID", "server_address", "serv_port_up", "serv_port_down",
          "keepalive_interval", "stat_interval", "push_timeout_ms",
          "forward_crc_valid", "forward_crc_error", "forward_crc_disabled",
          "gps_tty_path", "ref_latitude", "ref_longitude", "ref_altitude", "fake_gps"}
Late == {"beacon_freq_hz", "beacon_freq_nb", "beacon_freq_step", "beacon_datarate",
         "beacon_bw_hz", "beacon_power", "beacon_infodesc", "autoquit_threshold"}
Params == Early \cup {"beacon_period"} \cup Late

Board == {"lorawan_public", "clksrc"}

\* A radio of a file: whether it may receive and send, in which range of frequencies,
\* and whether the HAL takes it.  The range is a number that stands for one, or 0.
Radio == [enable : BOOLEAN, tx_enable : BOOLEAN, range : Nat, ok : BOOLEAN]

IsFile(file) ==
  /\ DOMAIN file = {"json", "has", "board", "board_ok", "lbt", "gain", "lut", "lut_ok",
                    "radio", "chan", "gw"}
  /\ file.json \in BOOLEAN                         \* it is JSON
  /\ file.has \subseteq {"SX1301_conf", "gateway_conf"}
  /\ file.board \in [DOMAIN file.board -> Int]      \* SX1301_conf
  /\ DOMAIN file.board \subseteq Board
  /\ file.board_ok \in BOOLEAN
  /\ file.lbt \in {"none", "disabled", "enabled", "refused"}
  /\ file.gain \in Seq(Int) /\ Len(file.gain) <= 1
  /\ file.lut \in [DOMAIN file.lut -> Int]          \*   the power of an entry
  /\ DOMAIN file.lut \subseteq Lut
  /\ file.lut_ok \in BOOLEAN
  /\ DOMAIN file.radio \subseteq Radios
  /\ \A r \in DOMAIN file.radio : file.radio[r] \in Radio
  /\ DOMAIN file.chan \subseteq Channels
  /\ \A c \in DOMAIN file.chan : file.chan[c] \in {"disabled", "enabled", "refused"}
  /\ file.gw \in [DOMAIN file.gw -> Int]            \* gateway_conf
  /\ DOMAIN file.gw \subseteq Params
  /\ "beacon_period" \in DOMAIN file.gw => file.gw["beacon_period"] \in Nat
  /\ "beacon_infodesc" \in DOMAIN file.gw => file.gw["beacon_infodesc"] \in 0 .. 255

ASSUME ConfConstants ==
  /\ TX_GAIN_LUT_SIZE_MAX \in Nat
  /\ MAX_STARTS \in Nat
  /\ RADIOS \in Seq(STRING) /\ "txlut" \notin Radios
  /\ CHANNELS \in Seq(STRING)
  /\ \A dir \in DIRECTORIES :
       /\ DOMAIN dir \subseteq {"debug", "global", "local"}
       /\ \A name \in DOMAIN dir : IsFile(dir[name])

VARIABLES
  mpc,        \* where main is
  dir,        \* the directory it was started with
  todo,       \* the calls of the parse functions it has yet to make
  prog,       \* the program's settings
  hal,        \* the configuration the HAL has
  refused,    \* the tables and radios of which the HAL refused the last it was given
  last,       \* the directory and the settings when the last start returned
  starts      \* bound: starts

vars == <<mpc, dir, todo, prog, hal, refused, last, starts>>

NoTable == [size |-> 0, power |-> [i \in Lut |-> 0]]

\* The settings the program is compiled with; where the value makes no difference
\* here, 0 stands for it.
Default ==
  [p \in Params |->
     CASE p = "beacon_freq_hz" -> 869525000
       [] p = "beacon_freq_nb" -> 1
       [] p = "beacon_datarate" -> 9
       [] p = "beacon_bw_hz" -> 125000
       [] OTHER -> 0]

Compiled ==
  [antenna_gain |-> 0, txlut |-> NoTable, range |-> [r \in Radios |-> 0], gw |-> Default]

HalCompiled ==
  [board |-> [b \in Board |-> 0], lbt |-> FALSE, txlut |-> NoTable,
   radio |-> [r \in Radios |-> [enable |-> FALSE, tx_enable |-> FALSE, range |-> 0]],
   chan |-> [c \in Channels |-> FALSE]]

TypeOK ==
  /\ mpc \in {"off", "read", "running", "failed"}
  /\ prog.antenna_gain \in Int
  /\ prog.txlut.size \in 0 .. TX_GAIN_LUT_SIZE_MAX
  /\ prog.txlut.power \in [Lut -> Int]
  /\ prog.range \in [Radios -> Nat]
  /\ prog.gw \in [Params -> Int]
  /\ hal.txlut.size \in 0 .. TX_GAIN_LUT_SIZE_MAX
  /\ hal.chan \in [Channels -> BOOLEAN]
  /\ refused \subseteq {"txlut"} \cup Radios
  /\ Len(todo) <= 4
  /\ (mpc = "read") = (todo # <<>>)
  /\ starts \in 0 .. MAX_STARTS

Init ==
  /\ mpc = "off"
  /\ dir = << >>
  /\ todo = <<>>
  /\ prog = Compiled
  /\ hal = HalCompiled
  /\ refused = {}
  /\ last = [dir |-> << >>, prog |-> Compiled, hal |-> HalCompiled]
  /\ starts = 0

-----------------------------------------------------------------------------
(* parse_SX1301_configuration: a step takes the settings so far, and gives   *)
(* them back with ok = FALSE where the function returns -1.                   *)

Fails(st) == [st EXCEPT !.ok = FALSE]

\* What is not in the file is set back to 0.
SetBoard(st, file) ==
  IF file.board_ok
    THEN [st EXCEPT !.hal.board = [b \in Board |-> IF b \in DOMAIN file.board
                                                     THEN file.board[b] ELSE 0]]
    ELSE Fails(st)

\* The HAL hears of LBT only when it is enabled.
SetLbt(st, file) ==
  CASE file.lbt = "enabled" -> [st EXCEPT !.hal.lbt = TRUE]
    [] file.lbt = "refused" -> Fails(st)
    [] OTHER -> st

\* Mutant: the gain is added to the one before.
SetGainAdded(st, file) ==
  IF file.gain = <<>> THEN st ELSE [st EXCEPT !.prog.antenna_gain = @ + file.gain[1]]

SetGain(st, file) ==
  IF file.gain = <<>> THEN st ELSE [st EXCEPT !.prog.antenna_gain = file.gain[1]]

\* The table of the file: its size is how many entries there are, wherever they are.
Table(st, file) ==
  [size |-> Cardinality(DOMAIN file.lut),
   power |-> [i \in Lut |-> IF i \in DOMAIN file.lut THEN file.lut[i] ELSE 0]]

\* The HAL hears of the table only when there is something in it.
SetTxlut(st, file) ==
  LET new == [st EXCEPT !.prog.txlut = Table(st, file)]
  IN  CASE new.prog.txlut.size = 0 -> new
        [] new.prog.txlut.size > 0 /\ file.lut_ok ->
             [new EXCEPT !.hal.txlut = new.prog.txlut, !.refused = @ \ {"txlut"}]
        [] OTHER -> Fails([new EXCEPT !.refused = @ \cup {"txlut"}])

\* Mutant: the first range stays.
TxRangeFirst(old, radio) ==
  IF radio.enable /\ radio.tx_enable /\ old = 0 THEN radio.range ELSE old

\* The range is that of the last file with which the radio could send.
TxRange(old, radio) ==
  IF radio.enable /\ radio.tx_enable THEN radio.range ELSE old

SetRadio(st, file, r) ==
  LET radio == file.radio[r]
      sends == radio.enable /\ radio.tx_enable
      new == [st EXCEPT !.prog.range[r] = TxRange(@, radio)]
  IN  CASE ~st.ok \/ r \notin DOMAIN file.radio -> st
        [] st.ok /\ r \in DOMAIN file.radio /\ radio.ok ->
             [new EXCEPT !.hal.radio[r] = [enable |-> radio.enable, tx_enable |-> sends,
                                           range |-> IF sends THEN radio.range ELSE 0],
                         !.refused = @ \ {r}]
        [] OTHER -> Fails([new EXCEPT !.refused = @ \cup {r}])

\* chan_multiSF_0 and so on, chan_Lora_std and chan_FSK.
SetChannel(st, file, c) ==
  CASE ~st.ok \/ c \notin DOMAIN file.chan -> st
    [] st.ok /\ c \in DOMAIN file.chan /\ file.chan[c] # "refused" ->
         [st EXCEPT !.hal.chan[c] = file.chan[c] = "enabled"]
    [] OTHER -> Fails(st)

\* The board, LBT, the gain of the antenna and the table, until one fails.
WithTables(st, file) ==
  LET board == SetBoard(st, file)
      lbt == IF board.ok THEN SetLbt(board, file) ELSE board
  IN  IF lbt.ok THEN SetTxlut(SetGain(lbt, file), file) ELSE lbt

WithRadios(st, file) ==
  LET after[n \in 0 .. Len(RADIOS)] ==
        IF n = 0 THEN st ELSE SetRadio(after[n - 1], file, RADIOS[n])
  IN  after[Len(RADIOS)]

WithChannels(st, file) ==
  LET after[n \in 0 .. Len(CHANNELS)] ==
        IF n = 0 THEN st ELSE SetChannel(after[n - 1], file, CHANNELS[n])
  IN  after[Len(CHANNELS)]

parse_SX1301_configuration(st, file) ==
  IF "SX1301_conf" \in file.has
    THEN WithChannels(WithRadios(WithTables(st, file), file), file)
    ELSE Fails(st)

-----------------------------------------------------------------------------
(* parse_gateway_configuration.                                             *)

PeriodInvalid(gw) == "beacon_period" \in DOMAIN gw /\ gw["beacon_period"] \in 1 .. 5

\* An invalid period is stored, and ends the function.
Parsed(old, gw) ==
  [p \in Params |-> IF p \in DOMAIN gw /\ (p \in Late => ~PeriodInvalid(gw))
                      THEN gw[p] ELSE old[p]]

parse_gateway_configuration(st, file) ==
  IF "gateway_conf" \in file.has
    THEN [st EXCEPT !.prog.gw = Parsed(@, file.gw), !.ok = ~PeriodInvalid(file.gw)]
    ELSE Fails(st)

-----------------------------------------------------------------------------
(* main.                                                                    *)

Calls(name, fatal) == <<[file |-> name, object |-> "SX1301_conf", fatal |-> fatal],
                        [file |-> name, object |-> "gateway_conf", fatal |-> fatal]>>

\* Mutant: the local file is read first, and the global one overwrites it.
PlanLocalFirst(d) ==
  CASE "debug" \in DOMAIN d -> Calls("debug", TRUE)
    [] "debug" \notin DOMAIN d /\ "global" \in DOMAIN d ->
         (IF "local" \in DOMAIN d THEN Calls("local", FALSE) ELSE <<>>) \o Calls("global", TRUE)
    [] DOMAIN d = {"local"} -> Calls("local", TRUE)
    [] OTHER -> <<>>

\* Which files are read, and whether what the functions return matters.
Plan(d) ==
  CASE "debug" \in DOMAIN d -> Calls("debug", TRUE)
    [] "debug" \notin DOMAIN d /\ "global" \in DOMAIN d ->
         Calls("global", TRUE) \o (IF "local" \in DOMAIN d THEN Calls("local", FALSE) ELSE <<>>)
    [] DOMAIN d = {"local"} -> Calls("local", TRUE)
    [] OTHER -> <<>>

\* start(cfg_dir), up to the configuration.
Start ==
  /\ mpc = "off"
  /\ starts < MAX_STARTS
  /\ starts' = starts + 1
  /\ \E d \in DIRECTORIES :
       /\ dir' = d
       /\ todo' = Plan(d)
       /\ mpc' = IF Plan(d) = <<>> THEN "failed" ELSE "read"
  /\ UNCHANGED <<prog, hal, refused, last>>

\* A file that is no JSON is fatal, wherever it is.
NotJson ==
  /\ mpc = "read"
  /\ ~dir[Head(todo).file].json
  /\ mpc' = "failed"
  /\ todo' = <<>>
  /\ UNCHANGED <<dir, prog, hal, refused, last, starts>>

\* The next call, or the end of the configuration.
After(ok) ==
  LET fails == ~ok /\ Head(todo).fatal
  IN  /\ todo' = IF fails THEN <<>> ELSE Tail(todo)
      /\ mpc' = IF fails THEN "failed" ELSE IF todo' = <<>> THEN "running" ELSE "read"

ReadSX1301 ==
  /\ mpc = "read"
  /\ Head(todo).object = "SX1301_conf"
  /\ dir[Head(todo).file].json
  /\ LET st == parse_SX1301_configuration(
                 [prog |-> prog, hal |-> hal, refused |-> refused, ok |-> TRUE],
                 dir[Head(todo).file])
     IN  /\ prog' = st.prog
         /\ hal' = st.hal
         /\ refused' = st.refused
         /\ After(st.ok)
  /\ UNCHANGED <<dir, last, starts>>

ReadGateway ==
  /\ mpc = "read"
  /\ Head(todo).object = "gateway_conf"
  /\ dir[Head(todo).file].json
  /\ LET st == parse_gateway_configuration([prog |-> prog, ok |-> TRUE],
                                            dir[Head(todo).file])
     IN  /\ prog' = st.prog
         /\ After(st.ok)
  /\ UNCHANGED <<dir, hal, refused, last, starts>>

\* The forwarder has been stopped, or has failed: start returns, the settings stay.
Return ==
  /\ mpc \in {"running", "failed"}
  /\ mpc' = "off"
  /\ last' = [dir |-> dir, prog |-> prog, hal |-> hal]
  /\ UNCHANGED <<dir, todo, prog, hal, refused, starts>>

Next == Start \/ NotJson \/ ReadSX1301 \/ ReadGateway \/ Return

Spec == Init /\ [][Next]_vars

-----------------------------------------------------------------------------
(* Properties.                                                              *)

\* What a file of a directory says a setting is: a setting behind an invalid period is
\* not read.
Says(d, name, p) ==
  /\ name \in DOMAIN d
  /\ "gateway_conf" \in d[name].has
  /\ p \in DOMAIN d[name].gw
  /\ p \in Late => ~PeriodInvalid(d[name].gw)

\* The file that has to be right for the forwarder to run.
Base(d) ==
  CASE "debug" \in DOMAIN d -> "debug"
    [] "debug" \notin DOMAIN d /\ "global" \in DOMAIN d -> "global"
    [] OTHER -> "local"

\* When the forwarder runs, a setting of gateway_conf is what the local file says, also
\* beside a global one, unless there is a debug file; what the other file says, where the
\* local one says nothing; and where neither does, what the start before has left.  A
\* start that failed has stored nothing but what the file that must be right says
\* (lora_pkt_fwd.c:989-993 "overwrite global parameters for parameters that are defined
\* in both", 1065-1103).
LocalWins ==
  \A p \in Params :
    /\ mpc = "running" =>
         prog.gw[p] = IF Base(dir) # "debug" /\ Says(dir, "local", p)
                        THEN dir["local"].gw[p]
                        ELSE IF Says(dir, Base(dir), p) THEN dir[Base(dir)].gw[p]
                                                        ELSE last.prog.gw[p]
    /\ mpc = "failed" =>
         \/ prog.gw[p] = last.prog.gw[p]
         \/ Says(dir, Base(dir), p) /\ prog.gw[p] = dir[Base(dir)].gw[p]

\* thread_down checks a downlink with the program's settings, and the HAL sends it with
\* its own: unless the HAL refused what it was given last, the table of powers is the
\* one the HAL has, or is empty, and a radio that sends has the range that came with it
\* (lora_pkt_fwd.c:473-482, 518-543).
AgreesWithHal ==
  mpc = "running" =>
    /\ "txlut" \in refused \/ prog.txlut.size = 0 \/ prog.txlut = hal.txlut
    /\ \A r \in Radios :
         r \in refused \/ ~hal.radio[r].tx_enable \/ prog.range[r] = hal.radio[r].range

\* A second start with the same directory changes nothing, whether the first came to
\* run or not, and whatever was started before (lora_comms.cc:681-708).
Repeatable ==
  mpc \in {"running", "failed"} /\ starts > 1 /\ dir = last.dir =>
    prog = last.prog /\ hal = last.hal
=============================================================================
