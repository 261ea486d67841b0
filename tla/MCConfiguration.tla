--------------------------- MODULE MCConfiguration ---------------------------
(* Configuration and Beacon with a selection of files. *)
EXTENDS Beacon

TwoRadios == <<"radio_0", "radio_1">>
TwoChannels == <<"chan_multiSF_0", "chan_FSK">>

\* A file with both objects and nothing in them.
Plain ==
  [json |-> TRUE, has |-> {"SX1301_conf", "gateway_conf"}, board |-> <<>>, board_ok |-> TRUE,
   lbt |-> "none", gain |-> <<>>, lut |-> <<>>, lut_ok |-> TRUE, radio |-> <<>>,
   chan |-> <<>>, gw |-> <<>>]

Sending(range, ok) == [enable |-> TRUE, tx_enable |-> TRUE, range |-> range, ok |-> ok]
Receiving == [enable |-> TRUE, tx_enable |-> FALSE, range |-> 0, ok |-> TRUE]
Off == [enable |-> FALSE, tx_enable |-> FALSE, range |-> 0, ok |-> TRUE]

Full ==
  [Plain EXCEPT !.board = [lorawan_public |-> 1, clksrc |-> 1], !.lbt = "enabled",
                !.gain = <<3>>, !.lut = [i \in 0 .. 1 |-> 10 + i],
                !.radio = [radio_0 |-> Sending(1, TRUE), radio_1 |-> Receiving],
                !.chan = [chan_multiSF_0 |-> "enabled", chan_FSK |-> "enabled"],
                !.gw = [server_address |-> 1, beacon_period |-> 128, beacon_datarate |-> 12,
                         beacon_infodesc |-> 7, beacon_freq_nb |-> 8,
                         beacon_freq_step |-> 600000, ref_latitude |-> -34,
                         ref_longitude |-> 181, autoquit_threshold |-> 1]]

\* The global file: complete, plain, with an invalid period, with a radio that is
\* refused, or without gateway_conf.
Global ==
  {Full,
   Plain,
   [Full EXCEPT !.gw = [beacon_period |-> 3, autoquit_threshold |-> 2]],
   [Full EXCEPT !.radio = [radio_0 |-> Sending(2, FALSE)], !.chan = <<>>],
   [Plain EXCEPT !.has = {"SX1301_conf"}]}

\* The local file: not JSON; gateway_conf only, with an invalid period; a radio switched
\* off and no table; a table that is refused; another table, with a gap, another range
\* and a channel that is refused; a board that is refused and a datarate without beacons.
Local ==
  {[Plain EXCEPT !.json = FALSE],
   [Plain EXCEPT !.has = {"gateway_conf"},
                 !.gw = [server_address |-> 2, beacon_period |-> 4, ref_latitude |-> 90,
                         ref_longitude |-> -180, autoquit_threshold |-> 3]],
   [Plain EXCEPT !.lbt = "disabled", !.radio = [radio_0 |-> Off]],
   [Plain EXCEPT !.lut = [i \in {1} |-> 14], !.lut_ok = FALSE,
                 !.gw = [server_address |-> 3, beacon_datarate |-> 10]],
   [Plain EXCEPT !.gain = <<5>>, !.lut = [i \in {0, 2} |-> 20 + i],
                 !.radio = [radio_0 |-> Sending(3, TRUE), radio_1 |-> Off],
                 !.chan = [chan_multiSF_0 |-> "refused", chan_FSK |-> "disabled"],
                 !.gw = [beacon_datarate |-> 8, beacon_period |-> 128,
                         autoquit_threshold |-> 4]],
   [Plain EXCEPT !.board_ok = FALSE, !.gain = <<6>>, !.gw = [beacon_datarate |-> 11]]}

Debug == [Full EXCEPT !.lbt = "refused"]

SomeDirectories ==
  {[global |-> g] : g \in Global} \cup {[local |-> l] : l \in Local}
  \cup {[global |-> g, local |-> l] : g \in Global, l \in Local}
  \cup {[debug |-> f, global |-> Plain] : f \in {Debug, Plain}} \cup {<<>>}
=============================================================================
