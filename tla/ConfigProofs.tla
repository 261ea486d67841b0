---------------------------- MODULE ConfigProofs ----------------------------
(***************************************************************************)
(* What Configuration guarantees for any radios, channels, directories and  *)
(* files, and any number of starts, with beacons or without.                *)
(***************************************************************************)
EXTENDS Beacon, DataFacts, FiniteSetTheorems, SequenceTheorems

-----------------------------------------------------------------------------
(* The settings.                                                            *)

Tables == [size : 0 .. TX_GAIN_LUT_SIZE_MAX, power : [Lut -> Int]]
Prog == [antenna_gain : Int, txlut : Tables, range : [Radios -> Nat], gw : [Params -> Int]]
Rf == [enable : BOOLEAN, tx_enable : BOOLEAN, range : Nat]
Hal == [board : [Board -> Int], lbt : BOOLEAN, txlut : Tables, radio : [Radios -> Rf],
        chan : [Channels -> BOOLEAN]]

\* What the parse functions are given and give back, and what they begin with.
St == [prog : Prog, hal : Hal, refused : SUBSET ({"txlut"} \cup Radios), ok : BOOLEAN]
Ready == {x \in St : x.ok}

\* The settings one by one.
Loc == {<<"gain", 0>>, <<"table", 0>>, <<"board", 0>>, <<"lbt", 0>>, <<"haltable", 0>>}
       \cup ({"range", "radio"} \X Radios) \cup ({"chan"} \X Channels) \cup ({"gw"} \X Params)

Value(x, l) ==
  CASE l[1] = "gain" -> x.prog.antenna_gain
    [] l[1] = "table" -> x.prog.txlut
    [] l[1] = "board" -> x.hal.board
    [] l[1] = "lbt" -> x.hal.lbt
    [] l[1] = "haltable" -> x.hal.txlut
    [] l[1] = "range" -> x.prog.range[l[2]]
    [] l[1] = "radio" -> x.hal.radio[l[2]]
    [] l[1] = "chan" -> x.hal.chan[l[2]]
    [] l[1] = "gw" -> x.prog.gw[l[2]]

\* A setting is of one of nine kinds.
LEMMA Kinds ==
  ASSUME NEW l \in Loc
  PROVE  l[1] \in {"gain", "table", "board", "lbt", "haltable", "range", "radio", "chan", "gw"}
  BY DEF Loc

\* The same settings, whatever was refused.
Same(x, y) == x.prog = y.prog /\ x.hal = y.hal

\* Settings that agree one by one are the same.
LEMMA SameValues ==
  ASSUME NEW x \in St, NEW y \in St, \A l \in Loc : Value(x, l) = Value(y, l)
  PROVE  Same(x, y)
<1>1. /\ x.prog.antenna_gain = y.prog.antenna_gain /\ x.prog.txlut = y.prog.txlut
      /\ x.hal.board = y.hal.board /\ x.hal.lbt = y.hal.lbt /\ x.hal.txlut = y.hal.txlut
  <2>1. Value(x, <<"gain", 0>>) = Value(y, <<"gain", 0>>) /\ Value(x, <<"table", 0>>) = Value(y, <<"table", 0>>)
        /\ Value(x, <<"board", 0>>) = Value(y, <<"board", 0>>) /\ Value(x, <<"lbt", 0>>) = Value(y, <<"lbt", 0>>)
        /\ Value(x, <<"haltable", 0>>) = Value(y, <<"haltable", 0>>)
    BY DEF Loc
  <2> QED BY <2>1 DEF Value
<1>2. \A r \in Radios : x.prog.range[r] = y.prog.range[r] /\ x.hal.radio[r] = y.hal.radio[r]
  <2>1. ASSUME NEW r \in Radios
        PROVE  x.prog.range[r] = y.prog.range[r] /\ x.hal.radio[r] = y.hal.radio[r]
    <3>1. Value(x, <<"range", r>>) = Value(y, <<"range", r>>) /\ Value(x, <<"radio", r>>) = Value(y, <<"radio", r>>)
      BY DEF Loc
    <3> QED BY <3>1 DEF Value
  <2> QED BY <2>1
<1>3. \A c \in Channels : x.hal.chan[c] = y.hal.chan[c]
  <2>1. ASSUME NEW c \in Channels PROVE x.hal.chan[c] = y.hal.chan[c]
    <3>1. Value(x, <<"chan", c>>) = Value(y, <<"chan", c>>)
      BY DEF Loc
    <3> QED BY <3>1 DEF Value
  <2> QED BY <2>1
<1>4. \A p \in Params : x.prog.gw[p] = y.prog.gw[p]
  <2>1. ASSUME NEW p \in Params PROVE x.prog.gw[p] = y.prog.gw[p]
    <3>1. Value(x, <<"gw", p>>) = Value(y, <<"gw", p>>)
      BY DEF Loc
    <3> QED BY <3>1 DEF Value
  <2> QED BY <2>1
<1>5. x.prog \in Prog /\ y.prog \in Prog /\ x.hal \in Hal /\ y.hal \in Hal
  BY DEF St
<1>6. x.prog = y.prog
  <2>1. x.prog.range = y.prog.range /\ x.prog.gw = y.prog.gw
    BY <1>2, <1>4, <1>5 DEF Prog
  <2> QED BY <1>1, <1>5, <2>1 DEF Prog
<1>7. x.hal = y.hal
  <2>1. x.hal.radio = y.hal.radio /\ x.hal.chan = y.hal.chan
    BY <1>2, <1>3, <1>5 DEF Hal
  <2> QED BY <1>1, <1>5, <2>1 DEF Hal
<1> QED BY <1>6, <1>7 DEF Same

-----------------------------------------------------------------------------
(* Functions that overwrite settings.  A call of a parse function, and every *)
(* part of one, either keeps a setting or gives it a value that comes from  *)
(* the file alone; so does a sequence of them.                              *)

Overwrites(F) ==
  /\ F \in [Ready -> St]
  /\ \E ok \in BOOLEAN : \A x \in Ready : F[x].ok = ok
  /\ \A l \in Loc : \/ \E v : \A x \in Ready : Value(F[x], l) = v
                    \/ \A x \in Ready : Value(F[x], l) = Value(x, l)

\* One function, and the other if it did not fail.
Then(F, G) == [x \in Ready |-> IF F[x].ok THEN G[F[x]] ELSE F[x]]

\* The composition overwrites what either does.
LEMMA ThenOverwrites ==
  ASSUME NEW F, NEW G, Overwrites(F), Overwrites(G)
  PROVE  Overwrites(Then(F, G))
<1>1. F \in [Ready -> St] /\ G \in [Ready -> St]
  BY DEF Overwrites
<1>2. PICK ok \in BOOLEAN : \A x \in Ready : F[x].ok = ok
  BY DEF Overwrites
<1>3. CASE ~ok
  <2>1. Then(F, G) = F
    BY <1>1, <1>2, <1>3 DEF Then
  <2> QED BY <2>1
<1>4. CASE ok
  <2> DEFINE H == Then(F, G)
  <2>1. \A x \in Ready : F[x] \in Ready /\ H[x] = G[F[x]]
    BY <1>1, <1>2, <1>4 DEF Then, Ready
  <2>2. H \in [Ready -> St]
    BY <1>1, <2>1 DEF Then
  <2>3. \E b \in BOOLEAN : \A x \in Ready : H[x].ok = b
    <3>1. PICK b \in BOOLEAN : \A x \in Ready : G[x].ok = b
      BY DEF Overwrites
    <3> HIDE DEF H
    <3> QED BY <2>1, <3>1
  <2> HIDE DEF H
  <2>4. ASSUME NEW l \in Loc
        PROVE  \/ \E v : \A x \in Ready : Value(H[x], l) = v
               \/ \A x \in Ready : Value(H[x], l) = Value(x, l)
    <3>1. CASE \E v : \A x \in Ready : Value(G[x], l) = v
      BY <2>1, <3>1
    <3>2. CASE \A x \in Ready : Value(G[x], l) = Value(x, l)
      <4>1. \A x \in Ready : Value(H[x], l) = Value(F[x], l)
        BY <2>1, <3>2
      <4>2. \/ \E v : \A x \in Ready : Value(F[x], l) = v
            \/ \A x \in Ready : Value(F[x], l) = Value(x, l)
        BY DEF Overwrites
      <4> QED BY <4>1, <4>2
    <3> QED BY <3>1, <3>2 DEF Overwrites
  <2> QED BY <2>2, <2>3, <2>4 DEF Overwrites, H
<1> QED BY <1>2, <1>3, <1>4

\* Applied to its own result, and what was refused forgotten, it changes nothing.
LEMMA OverwritesTwice ==
  ASSUME NEW F, Overwrites(F), NEW x \in Ready, NEW y \in Ready,
         NEW z \in Ready, Same(z, y), Same(y, F[x])
  PROVE  Same(F[z], y)
<1>1. F \in [Ready -> St]
  BY DEF Overwrites
<1>2. \A a, b : Same(a, b) => \A l \in Loc : Value(a, l) = Value(b, l)
  BY DEF Same, Value
<1>3. ASSUME NEW l \in Loc PROVE Value(F[z], l) = Value(y, l)
  <2>1. Value(z, l) = Value(y, l) /\ Value(y, l) = Value(F[x], l)
    BY <1>2
  <2>2. CASE \E v : \A w \in Ready : Value(F[w], l) = v
    BY <2>1, <2>2
  <2>3. CASE \A w \in Ready : Value(F[w], l) = Value(w, l)
    BY <2>1, <2>3
  <2> QED BY <2>2, <2>3 DEF Overwrites
<1>4. F[z] \in St /\ y \in St
  BY <1>1 DEF Ready
<1> QED BY <1>3, <1>4, SameValues

-----------------------------------------------------------------------------
(* The parts of parse_SX1301_configuration.                                  *)

\* What AgreesWithHal says once a file has been read.
Agrees(x) ==
  /\ "txlut" \in x.refused \/ x.prog.txlut.size = 0 \/ x.prog.txlut = x.hal.txlut
  /\ \A r \in Radios :
       r \in x.refused \/ ~x.hal.radio[r].tx_enable \/ x.prog.range[r] = x.hal.radio[r].range

\* A function that overwrites settings, none of gateway_conf, and leaves those of the
\* program in agreement with those of the HAL.
Sound(F) ==
  /\ Overwrites(F)
  /\ \A x \in Ready : F[x].prog.gw = x.prog.gw /\ (Agrees(x) => Agrees(F[x]))

\* One such function after the other is one.
LEMMA ThenSound ==
  ASSUME NEW F, NEW G, Sound(F), Sound(G)
  PROVE  Sound(Then(F, G))
<1>1. Overwrites(Then(F, G))
  BY ThenOverwrites DEF Sound
<1>2. F \in [Ready -> St]
  BY DEF Sound, Overwrites
<1>3. ASSUME NEW x \in Ready
      PROVE  /\ Then(F, G)[x].prog.gw = x.prog.gw
             /\ Agrees(x) => Agrees(Then(F, G)[x])
  <2>1. Then(F, G)[x] = IF F[x].ok THEN G[F[x]] ELSE F[x]
    BY DEF Then
  <2>2. F[x].ok => F[x] \in Ready
    BY <1>2 DEF Ready
  <2> QED BY <2>1, <2>2 DEF Sound
<1> QED BY <1>1, <1>3 DEF Sound

\* A radio's name is not that of the table.
LEMMA NotARadio == "txlut" \notin Radios
  BY ConfConstants

\* The frame of a step that changes what is refused, if anything.
LEMMA FailsSound == Sound([x \in Ready |-> Fails(x)])
<1> DEFINE F == [x \in Ready |-> Fails(x)]
<1>1. \A x \in Ready : /\ F[x] \in St /\ F[x].ok = FALSE
                       /\ F[x].prog = x.prog /\ F[x].hal = x.hal /\ F[x].refused = x.refused
  BY DEF Ready, St, Fails
<1>2. F \in [Ready -> St]
  BY <1>1
<1> HIDE DEF F
<1>3. \A l \in Loc : \A x \in Ready : Value(F[x], l) = Value(x, l)
  BY <1>1 DEF Value
<1>4. Overwrites(F)
  BY <1>1, <1>2, <1>3 DEF Overwrites
<1>5. \A x \in Ready : Agrees(x) => Agrees(F[x])
  BY <1>1 DEF Agrees
<1> QED BY <1>1, <1>4, <1>5 DEF Sound, F

\* A step that changes nothing.
LEMMA NothingSound == Sound([x \in Ready |-> x])
<1> DEFINE F == [x \in Ready |-> x]
<1>1. \A x \in Ready : F[x] = x /\ x \in St /\ x.ok = TRUE
  BY DEF Ready, St
<1>2. F \in [Ready -> St]
  BY <1>1
<1> HIDE DEF F
<1>3. \A l \in Loc : \A x \in Ready : Value(F[x], l) = Value(x, l)
  BY <1>1
<1>4. Overwrites(F)
  BY <1>1, <1>2, <1>3 DEF Overwrites
<1> QED BY <1>1, <1>4 DEF Sound, F

\* The board.
LEMMA BoardSound ==
  ASSUME NEW file, IsFile(file)
  PROVE  Sound([x \in Ready |-> SetBoard(x, file)])
<1> DEFINE F == [x \in Ready |-> SetBoard(x, file)]
           B == [b \in Board |-> IF b \in DOMAIN file.board THEN file.board[b] ELSE 0]
<1>1. CASE ~file.board_ok
  <2>1. F = [x \in Ready |-> Fails(x)]
    BY <1>1 DEF SetBoard
  <2> QED BY <2>1, FailsSound
<1>2. CASE file.board_ok
  <2>1. B \in [Board -> Int]
    BY DEF IsFile
  <2>2. \A x \in Ready : F[x] = [x EXCEPT !.hal.board = B]
    BY <1>2 DEF SetBoard
  <2> HIDE DEF F, B
  <2>3. ASSUME NEW x \in Ready
        PROVE  /\ F[x] \in St /\ F[x].ok = TRUE /\ F[x].prog = x.prog /\ F[x].refused = x.refused
               /\ F[x].hal.board = B /\ F[x].hal.lbt = x.hal.lbt /\ F[x].hal.txlut = x.hal.txlut
               /\ F[x].hal.radio = x.hal.radio /\ F[x].hal.chan = x.hal.chan
    <3> DEFINE h == [x.hal EXCEPT !.board = B]
    <3>1. x.hal \in Hal
      BY DEF Ready, St
    <3>2. /\ h \in Hal /\ h.board = B /\ h.lbt = x.hal.lbt /\ h.txlut = x.hal.txlut
          /\ h.radio = x.hal.radio /\ h.chan = x.hal.chan
      BY <2>1, <3>1 DEF Hal
    <3>3. F[x] = [x EXCEPT !.hal = h]
      BY <2>2
    <3> HIDE DEF h
    <3> QED BY <3>2, <3>3 DEF Ready, St
  <2>4. F \in [Ready -> St]
    <3>1. F = [x \in Ready |-> F[x]]
      BY DEF F
    <3> QED BY <2>3, <3>1
  <2>5. ASSUME NEW l \in Loc
        PROVE  \/ \E v : \A x \in Ready : Value(F[x], l) = v
               \/ \A x \in Ready : Value(F[x], l) = Value(x, l)
    <3>1. CASE l[1] = "board"
      <4>1. \A x \in Ready : Value(F[x], l) = B
        BY <2>3, <3>1 DEF Value
      <4> QED BY <4>1
    <3>2. CASE l[1] # "board"
      BY <2>3, <3>2, Kinds DEF Value
    <3> QED BY <3>1, <3>2
  <2>6. Overwrites(F)
    BY <2>3, <2>4, <2>5 DEF Overwrites
  <2>7. \A x \in Ready : Agrees(x) => Agrees(F[x])
    BY <2>3 DEF Agrees
  <2> QED BY <2>3, <2>6, <2>7 DEF Sound, F
<1> QED BY <1>1, <1>2 DEF IsFile

\* LBT.
LEMMA LbtSound ==
  ASSUME NEW file, IsFile(file)
  PROVE  Sound([x \in Ready |-> SetLbt(x, file)])
<1> DEFINE F == [x \in Ready |-> SetLbt(x, file)]
<1>1. CASE file.lbt = "refused"
  <2>1. F = [x \in Ready |-> Fails(x)]
    BY <1>1 DEF SetLbt
  <2> QED BY <2>1, FailsSound
<1>2. CASE file.lbt \notin {"enabled", "refused"}
  <2>1. F = [x \in Ready |-> x]
    BY <1>2 DEF SetLbt
  <2> QED BY <2>1, NothingSound
<1>3. CASE file.lbt = "enabled"
  <2>2. \A x \in Ready : F[x] = [x EXCEPT !.hal.lbt = TRUE]
    BY <1>3 DEF SetLbt
  <2> HIDE DEF F
  <2>3. ASSUME NEW x \in Ready
        PROVE  /\ F[x] \in St /\ F[x].ok = TRUE /\ F[x].prog = x.prog /\ F[x].refused = x.refused
               /\ F[x].hal.lbt = TRUE /\ F[x].hal.board = x.hal.board
               /\ F[x].hal.txlut = x.hal.txlut
               /\ F[x].hal.radio = x.hal.radio /\ F[x].hal.chan = x.hal.chan
    <3> DEFINE h == [x.hal EXCEPT !.lbt = TRUE]
    <3>1. x.hal \in Hal
      BY DEF Ready, St
    <3>2. /\ h \in Hal /\ h.board = x.hal.board /\ h.lbt = TRUE /\ h.txlut = x.hal.txlut
          /\ h.radio = x.hal.radio /\ h.chan = x.hal.chan
      BY <3>1 DEF Hal
    <3>3. F[x] = [x EXCEPT !.hal = h]
      BY <2>2
    <3> HIDE DEF h
    <3> QED BY <3>2, <3>3 DEF Ready, St
  <2>4. F \in [Ready -> St]
    <3>1. F = [x \in Ready |-> F[x]]
      BY DEF F
    <3> QED BY <2>3, <3>1
  <2>5. ASSUME NEW l \in Loc
        PROVE  \/ \E v : \A x \in Ready : Value(F[x], l) = v
               \/ \A x \in Ready : Value(F[x], l) = Value(x, l)
    <3>1. CASE l[1] = "lbt"
      <4>1. \A x \in Ready : Value(F[x], l) = TRUE
        BY <2>3, <3>1 DEF Value
      <4> QED BY <4>1
    <3>2. CASE l[1] # "lbt"
      BY <2>3, <3>2, Kinds DEF Value
    <3> QED BY <3>1, <3>2
  <2>6. Overwrites(F)
    BY <2>3, <2>4, <2>5 DEF Overwrites
  <2>7. \A x \in Ready : Agrees(x) => Agrees(F[x])
    BY <2>3 DEF Agrees
  <2> QED BY <2>3, <2>6, <2>7 DEF Sound, F
<1> QED BY <1>1, <1>2, <1>3

\* The gain of the antenna.
LEMMA GainSound ==
  ASSUME NEW file, IsFile(file)
  PROVE  Sound([x \in Ready |-> SetGain(x, file)])
<1> DEFINE F == [x \in Ready |-> SetGain(x, file)]
<1>1. CASE file.gain = <<>>
  <2>1. F = [x \in Ready |-> x]
    BY <1>1 DEF SetGain
  <2> QED BY <2>1, NothingSound
<1>2. CASE file.gain # <<>>
  <2>1. file.gain[1] \in Int
    BY <1>2 DEF IsFile
  <2>2. \A x \in Ready : F[x] = [x EXCEPT !.prog.antenna_gain = file.gain[1]]
    BY <1>2 DEF SetGain
  <2> HIDE DEF F
  <2>3. ASSUME NEW x \in Ready
        PROVE  /\ F[x] \in St /\ F[x].ok = TRUE /\ F[x].hal = x.hal /\ F[x].refused = x.refused
               /\ F[x].prog.antenna_gain = file.gain[1]
               /\ F[x].prog.txlut = x.prog.txlut /\ F[x].prog.range = x.prog.range
               /\ F[x].prog.gw = x.prog.gw
    <3> DEFINE p == [x.prog EXCEPT !.antenna_gain = file.gain[1]]
    <3>1. x.prog \in Prog
      BY DEF Ready, St
    <3>2. /\ p \in Prog /\ p.antenna_gain = file.gain[1] /\ p.txlut = x.prog.txlut
          /\ p.range = x.prog.range /\ p.gw = x.prog.gw
      BY <2>1, <3>1 DEF Prog
    <3>3. F[x] = [x EXCEPT !.prog = p]
      BY <2>2
    <3> HIDE DEF p
    <3> QED BY <3>2, <3>3 DEF Ready, St
  <2>4. F \in [Ready -> St]
    <3>1. F = [x \in Ready |-> F[x]]
      BY DEF F
    <3> QED BY <2>3, <3>1
  <2>5. ASSUME NEW l \in Loc
        PROVE  \/ \E v : \A x \in Ready : Value(F[x], l) = v
               \/ \A x \in Ready : Value(F[x], l) = Value(x, l)
    <3>1. CASE l[1] = "gain"
      <4>1. \A x \in Ready : Value(F[x], l) = file.gain[1]
        BY <2>3, <3>1 DEF Value
      <4> QED BY <4>1
    <3>2. CASE l[1] # "gain"
      BY <2>3, <3>2, Kinds DEF Value
    <3> QED BY <3>1, <3>2
  <2>6. Overwrites(F)
    BY <2>3, <2>4, <2>5 DEF Overwrites
  <2>7. \A x \in Ready : Agrees(x) => Agrees(F[x])
    BY <2>3 DEF Agrees
  <2> QED BY <2>3, <2>6, <2>7 DEF Sound, F
<1> QED BY <1>1, <1>2

\* The table of powers is that of the file, whatever was there.
LEMMA TableType ==
  ASSUME NEW file, IsFile(file), NEW x
  PROVE  LET T == [size |-> Cardinality(DOMAIN file.lut),
                   power |-> [i \in Lut |-> IF i \in DOMAIN file.lut THEN file.lut[i] ELSE 0]]
         IN  Table(x, file) = T /\ T \in Tables
<1>1. IsFiniteSet(Lut)
  BY ConfConstants, FS_Interval DEF Lut
<1>2. IsFiniteSet(DOMAIN file.lut)
  BY <1>1, FS_Subset DEF IsFile
<1>3. Cardinality(DOMAIN file.lut) \in 0 .. TX_GAIN_LUT_SIZE_MAX
  <2>1. Cardinality(Lut) = TX_GAIN_LUT_SIZE_MAX
    <3>1. TX_GAIN_LUT_SIZE_MAX - 1 \in Int /\ 0 \in Int /\ TX_GAIN_LUT_SIZE_MAX \in Nat
      BY ConfConstants
    <3>2. Cardinality(Lut) = IF 0 > TX_GAIN_LUT_SIZE_MAX - 1 THEN 0 ELSE TX_GAIN_LUT_SIZE_MAX - 1 - 0 + 1
      BY <3>1, FS_Interval DEF Lut
    <3> QED BY <3>1, <3>2
  <2>2. Cardinality(DOMAIN file.lut) \in Nat /\ Cardinality(DOMAIN file.lut) <= Cardinality(Lut)
    BY <1>1, <1>2, FS_CardinalityType, FS_Subset DEF IsFile
  <2> QED BY <2>1, <2>2
<1>4. [i \in Lut |-> IF i \in DOMAIN file.lut THEN file.lut[i] ELSE 0] \in [Lut -> Int]
  BY DEF IsFile
<1> QED BY <1>3, <1>4 DEF Table, Tables

\* The table: with it the HAL has the same, or has refused it, or it is empty.
LEMMA TxlutSound ==
  ASSUME NEW file, IsFile(file)
  PROVE  Sound([x \in Ready |-> SetTxlut(x, file)])
<1> DEFINE F == [x \in Ready |-> SetTxlut(x, file)]
           T == [size |-> Cardinality(DOMAIN file.lut),
                 power |-> [i \in Lut |-> IF i \in DOMAIN file.lut THEN file.lut[i] ELSE 0]]
           new(x) == [x EXCEPT !.prog.txlut = T]
           fits == T.size > 0 /\ file.lut_ok
<1>1. T \in Tables /\ \A x : Table(x, file) = T
  BY TableType
<1> HIDE DEF T
<1>2. T.size \in Nat
  BY <1>1, ConfConstants DEF Tables
<1>3. ASSUME NEW x \in Ready
      PROVE  /\ new(x) \in Ready /\ new(x).hal = x.hal /\ new(x).refused = x.refused
             /\ new(x).prog.txlut = T /\ new(x).prog.antenna_gain = x.prog.antenna_gain
             /\ new(x).prog.range = x.prog.range /\ new(x).prog.gw = x.prog.gw
  <2> DEFINE p == [x.prog EXCEPT !.txlut = T]
  <2>1. x.prog \in Prog
    BY DEF Ready, St
  <2>2. /\ p \in Prog /\ p.antenna_gain = x.prog.antenna_gain /\ p.txlut = T
        /\ p.range = x.prog.range /\ p.gw = x.prog.gw
    BY <1>1, <2>1 DEF Prog
  <2>3. new(x) = [x EXCEPT !.prog = p]
    OBVIOUS
  <2> HIDE DEF p, new
  <2> QED BY <2>2, <2>3 DEF Ready, St
<1>4. ASSUME NEW x \in Ready
      PROVE  F[x] = IF T.size = 0 THEN new(x)
                    ELSE IF fits THEN [new(x) EXCEPT !.hal.txlut = T, !.refused = @ \ {"txlut"}]
                    ELSE [new(x) EXCEPT !.refused = @ \cup {"txlut"}, !.ok = FALSE]
  <2>1. new(x).prog.txlut = T
    BY <1>3
  <2>2. [x EXCEPT !.prog.txlut = Table(x, file)] = new(x)
    BY <1>1
  <2>3. SetTxlut(x, file) =
          CASE new(x).prog.txlut.size = 0 -> new(x)
            [] new(x).prog.txlut.size > 0 /\ file.lut_ok ->
                 [new(x) EXCEPT !.hal.txlut = new(x).prog.txlut, !.refused = @ \ {"txlut"}]
            [] OTHER -> Fails([new(x) EXCEPT !.refused = @ \cup {"txlut"}])
    BY <2>2, Zenon DEF SetTxlut
  <2>4. F[x] = SetTxlut(x, file)
    OBVIOUS
  <2> HIDE DEF new, F
  <2>5. CASE T.size = 0
    BY <2>1, <2>3, <2>4, <2>5
  <2>6. CASE T.size # 0 /\ fits
    BY <2>1, <2>3, <2>4, <2>6
  <2>7. CASE T.size # 0 /\ ~fits
    <3>1. F[x] = Fails([new(x) EXCEPT !.refused = @ \cup {"txlut"}])
      BY <1>2, <2>1, <2>3, <2>4, <2>7
    <3> QED BY <2>7, <3>1 DEF Fails
  <2> QED BY <2>5, <2>6, <2>7
<1> HIDE DEF F, new
<1>5. ASSUME NEW x \in Ready
      PROVE  /\ F[x] \in St /\ F[x].ok = (T.size = 0 \/ fits)
             /\ F[x].prog = new(x).prog
             /\ F[x].hal.txlut = IF fits THEN T ELSE x.hal.txlut
             /\ F[x].hal.board = x.hal.board /\ F[x].hal.lbt = x.hal.lbt
             /\ F[x].hal.radio = x.hal.radio /\ F[x].hal.chan = x.hal.chan
             /\ F[x].refused \ {"txlut"} = x.refused \ {"txlut"}
             /\ T.size # 0 /\ ~fits => "txlut" \in F[x].refused
             /\ T.size = 0 => F[x].refused = x.refused
  <2>1. new(x) \in St /\ new(x).ok = TRUE /\ new(x).hal \in Hal /\ new(x).hal = x.hal
        /\ new(x).refused = x.refused
    BY <1>3 DEF Ready, St
  <2>2. CASE T.size = 0
    <3>1. F[x] = new(x)
      BY <1>4, <2>2
    <3>2. ~fits
      BY <2>2
    <3> HIDE DEF fits
    <3> QED BY <2>1, <2>2, <3>1, <3>2
  <2>3. CASE T.size # 0 /\ fits
    <3> DEFINE h == [new(x).hal EXCEPT !.txlut = T]
    <3>1. /\ h \in Hal /\ h.board = x.hal.board /\ h.lbt = x.hal.lbt /\ h.txlut = T
          /\ h.radio = x.hal.radio /\ h.chan = x.hal.chan
      BY <1>1, <2>1 DEF Hal
    <3>2. F[x] = [new(x) EXCEPT !.hal = h, !.refused = @ \ {"txlut"}]
      BY <1>4, <2>3
    <3> HIDE DEF h
    <3> QED BY <2>1, <2>3, <3>1, <3>2 DEF St
  <2>4. CASE T.size # 0 /\ ~fits
    <3>1. F[x] = [new(x) EXCEPT !.refused = @ \cup {"txlut"}, !.ok = FALSE]
      BY <1>4, <2>4
    <3> QED BY <2>1, <2>4, <3>1 DEF St
  <2> QED BY <2>2, <2>3, <2>4
<1>6. F \in [Ready -> St] /\ \A x \in Ready : F[x].ok = (T.size = 0 \/ fits)
  <2>1. F = [x \in Ready |-> F[x]]
    BY DEF F
  <2> QED BY <1>5, <2>1
<1>7. ASSUME NEW l \in Loc
      PROVE  \/ \E v : \A x \in Ready : Value(F[x], l) = v
             \/ \A x \in Ready : Value(F[x], l) = Value(x, l)
  <2>1. CASE l[1] = "table" \/ (l[1] = "haltable" /\ fits)
    <3>1. \A x \in Ready : Value(F[x], l) = T
      BY <1>3, <1>5, <2>1 DEF Value
    <3> QED BY <3>1
  <2>2. CASE l[1] # "table" /\ ~(l[1] = "haltable" /\ fits)
    <3>1. \A x \in Ready : Value(F[x], l) = Value(x, l)
      BY <1>3, <1>5, <2>2, Kinds DEF Value
    <3> QED BY <3>1
  <2> QED BY <2>1, <2>2
<1>8. Overwrites(F)
  <2>1. (T.size = 0 \/ fits) \in BOOLEAN
    OBVIOUS
  <2> QED BY <1>6, <1>7, <2>1 DEF Overwrites
<1>9. ASSUME NEW x \in Ready, Agrees(x) PROVE Agrees(F[x])
  <2>1. "txlut" \in F[x].refused \/ F[x].prog.txlut.size = 0 \/ F[x].prog.txlut = F[x].hal.txlut
    BY <1>3, <1>5
  <2>2. \A r \in Radios : r \in F[x].refused <=> r \in x.refused
    BY <1>5, NotARadio
  <2>3. F[x].prog.range = x.prog.range
    BY <1>3, <1>5
  <2> QED BY <1>5, <1>9, <2>1, <2>2, <2>3 DEF Agrees
<1> QED BY <1>3, <1>5, <1>8, <1>9 DEF Sound, F

\* A radio: its range is that of the file, or the radio does not send, or the HAL has
\* refused it.
LEMMA RadioSound ==
  ASSUME NEW file, IsFile(file), NEW r \in Radios
  PROVE  Sound([x \in Ready |-> SetRadio(x, file, r)])
<1> DEFINE F == [x \in Ready |-> SetRadio(x, file, r)]
           radio == file.radio[r]
           sends == radio.enable /\ radio.tx_enable
           rf == [enable |-> radio.enable, tx_enable |-> sends,
                  range |-> IF sends THEN radio.range ELSE 0]
           new(x) == [x EXCEPT !.prog.range[r] = IF sends THEN radio.range ELSE @]
<1>1. CASE r \notin DOMAIN file.radio
  <2>1. F = [x \in Ready |-> x]
    BY <1>1 DEF SetRadio
  <2> QED BY <2>1, NothingSound
<1>2. CASE r \in DOMAIN file.radio
  <2>1. radio \in Radio
    BY <1>2 DEF IsFile
  <2>2. radio.range \in Nat /\ rf \in Rf /\ radio.ok \in BOOLEAN
    BY <2>1 DEF Radio, Rf
  <2>3. /\ rf.tx_enable = sends
        /\ sends => rf.range = radio.range
    OBVIOUS
  <2> HIDE DEF rf
  <2>4. ASSUME NEW x \in Ready
        PROVE  /\ new(x) \in St /\ new(x).ok = TRUE /\ new(x).hal = x.hal
               /\ new(x).refused = x.refused /\ new(x).prog.txlut = x.prog.txlut
               /\ new(x).prog.antenna_gain = x.prog.antenna_gain
               /\ new(x).prog.range = [x.prog.range EXCEPT ![r] = IF sends THEN radio.range ELSE @]
               /\ new(x).prog.gw = x.prog.gw
    <3> DEFINE g == [x.prog.range EXCEPT ![r] = IF sends THEN radio.range ELSE @]
               p == [x.prog EXCEPT !.range = g]
    <3>1. x.prog \in Prog /\ x.prog.range \in [Radios -> Nat]
      BY DEF Ready, St, Prog
    <3>2. g \in [Radios -> Nat]
      BY <2>2, <3>1
    <3>3. new(x) = [x EXCEPT !.prog = p]
      OBVIOUS
    <3> HIDE DEF g
    <3>4. /\ p \in Prog /\ p.antenna_gain = x.prog.antenna_gain /\ p.txlut = x.prog.txlut
          /\ p.range = g /\ p.gw = x.prog.gw
      BY <3>1, <3>2 DEF Prog
    <3> HIDE DEF p, new
    <3>5. new(x).prog = p /\ new(x) \in St /\ new(x).ok = TRUE /\ new(x).hal = x.hal
          /\ new(x).refused = x.refused
      BY <3>3, <3>4 DEF Ready, St
    <3> QED BY <3>4, <3>5 DEF g
  <2>5. ASSUME NEW x \in Ready
        PROVE  F[x] = IF radio.ok THEN [new(x) EXCEPT !.hal.radio[r] = rf, !.refused = @ \ {r}]
                      ELSE [new(x) EXCEPT !.refused = @ \cup {r}, !.ok = FALSE]
    <3>1. [x EXCEPT !.prog.range[r] = TxRange(@, radio)] = new(x)
      BY DEF TxRange
    <3>2. SetRadio(x, file, r) =
            CASE ~x.ok \/ r \notin DOMAIN file.radio -> x
              [] x.ok /\ r \in DOMAIN file.radio /\ radio.ok ->
                   [new(x) EXCEPT !.hal.radio[r] = rf, !.refused = @ \ {r}]
              [] OTHER -> Fails([new(x) EXCEPT !.refused = @ \cup {r}])
      BY <3>1, Zenon DEF SetRadio, rf
    <3>3. F[x] = SetRadio(x, file, r) /\ x.ok
      BY DEF Ready
    <3> HIDE DEF new, F
    <3>4. CASE radio.ok
      BY <1>2, <3>2, <3>3, <3>4
    <3>5. CASE ~radio.ok
      <4>1. F[x] = Fails([new(x) EXCEPT !.refused = @ \cup {r}])
        BY <1>2, <3>2, <3>3, <3>5
      <4> QED BY <3>5, <4>1 DEF Fails
    <3> QED BY <3>4, <3>5
  <2> HIDE DEF F, new
  <2>6. ASSUME NEW x \in Ready
        PROVE  /\ F[x] \in St /\ F[x].ok = radio.ok /\ F[x].prog = new(x).prog
               /\ F[x].hal.txlut = x.hal.txlut
               /\ F[x].hal.board = x.hal.board /\ F[x].hal.lbt = x.hal.lbt
               /\ F[x].hal.radio = [x.hal.radio EXCEPT ![r] = IF radio.ok THEN rf ELSE @]
               /\ F[x].hal.chan = x.hal.chan
               /\ F[x].refused \ {r} = x.refused \ {r}
               /\ ~radio.ok => r \in F[x].refused
    <3> HIDE DEF sends
    <3>1. /\ new(x) \in St /\ new(x).hal = x.hal /\ new(x).refused = x.refused
          /\ new(x).ok = TRUE /\ x.hal \in Hal /\ x.hal.radio \in [Radios -> Rf]
      <4>1. new(x) \in St /\ new(x).hal = x.hal /\ new(x).refused = x.refused /\ new(x).ok = TRUE
        BY <2>4
      <4> QED BY <4>1 DEF St, Hal
    <3>2. CASE radio.ok
      <4> DEFINE g == [x.hal.radio EXCEPT ![r] = rf]
                 h == [x.hal EXCEPT !.radio = g]
      <4>1. g \in [Radios -> Rf]
        BY <2>2, <3>1
      <4>2. F[x] = [new(x) EXCEPT !.hal = h, !.refused = @ \ {r}]
        BY <2>5, <3>1, <3>2
      <4> HIDE DEF g
      <4>3. /\ h \in Hal /\ h.board = x.hal.board /\ h.lbt = x.hal.lbt /\ h.txlut = x.hal.txlut
            /\ h.radio = g /\ h.chan = x.hal.chan
        BY <3>1, <4>1 DEF Hal
      <4> HIDE DEF h
      <4>4. F[x] \in St /\ F[x].ok = TRUE /\ F[x].prog = new(x).prog /\ F[x].hal = h
            /\ F[x].refused = x.refused \ {r}
        BY <3>1, <4>2, <4>3 DEF St
      <4>5. g = [x.hal.radio EXCEPT ![r] = IF radio.ok THEN rf ELSE @]
        BY <3>2 DEF g
      <4> QED BY <2>2, <3>2, <4>3, <4>4, <4>5
    <3>3. CASE ~radio.ok
      <4>1. F[x] = [new(x) EXCEPT !.refused = @ \cup {r}, !.ok = FALSE]
        BY <2>5, <3>3
      <4>2. F[x] \in St /\ F[x].ok = FALSE /\ F[x].prog = new(x).prog /\ F[x].hal = x.hal
            /\ F[x].refused = x.refused \cup {r}
        BY <3>1, <4>1 DEF St
      <4>3. x.hal.radio = [x.hal.radio EXCEPT ![r] = IF radio.ok THEN rf ELSE @]
        BY <3>1, <3>3
      <4> QED BY <2>2, <3>3, <4>2, <4>3
    <3> QED BY <2>2, <3>2, <3>3
  <2>7. F \in [Ready -> St] /\ \A x \in Ready : F[x].ok = radio.ok
    <3>1. F = [x \in Ready |-> F[x]]
      BY DEF F
    <3> QED BY <2>6, <3>1
  <2>8. ASSUME NEW x \in Ready
        PROVE  /\ F[x].prog.range[r] = IF sends THEN radio.range ELSE x.prog.range[r]
               /\ F[x].hal.radio[r] = IF radio.ok THEN rf ELSE x.hal.radio[r]
               /\ \A s \in Radios \ {r} : /\ F[x].prog.range[s] = x.prog.range[s]
                                          /\ F[x].hal.radio[s] = x.hal.radio[s]
    <3>1. x.prog.range \in [Radios -> Nat] /\ x.hal.radio \in [Radios -> Rf]
      BY DEF Ready, St, Prog, Hal
    <3>2. F[x].prog.range = [x.prog.range EXCEPT ![r] = IF sends THEN radio.range ELSE @]
      <4>1. F[x].prog = new(x).prog
        BY <2>6
      <4>2. new(x).prog.range = [x.prog.range EXCEPT ![r] = IF sends THEN radio.range ELSE @]
        BY <2>4
      <4> QED BY <4>1, <4>2
    <3>3. F[x].hal.radio = [x.hal.radio EXCEPT ![r] = IF radio.ok THEN rf ELSE @]
      BY <2>6
    <3> HIDE DEF sends, radio
    <3> QED BY <3>1, <3>2, <3>3
  <2>9. ASSUME NEW l \in Loc
        PROVE  \/ \E v : \A x \in Ready : Value(F[x], l) = v
               \/ \A x \in Ready : Value(F[x], l) = Value(x, l)
    <3>1. CASE l[1] = "range" /\ l[2] = r /\ sends
      <4>1. \A x \in Ready : Value(F[x], l) = radio.range
        BY <2>8, <3>1 DEF Value
      <4> QED BY <4>1
    <3>2. CASE l[1] = "radio" /\ l[2] = r /\ radio.ok
      <4>1. \A x \in Ready : Value(F[x], l) = rf
        BY <2>8, <3>2 DEF Value
      <4> QED BY <4>1
    <3>3. CASE ~(l[1] = "range" /\ l[2] = r /\ sends) /\ ~(l[1] = "radio" /\ l[2] = r /\ radio.ok)
      <4>1. l[1] \in {"range", "radio"} => l[2] \in Radios
        BY DEF Loc
      <4>2. ASSUME NEW x \in Ready PROVE Value(F[x], l) = Value(x, l)
        <5>1. CASE l[1] = "range"
          <6>1. F[x].prog.range[l[2]] = x.prog.range[l[2]]
            BY <2>8, <3>3, <4>1, <5>1
          <6> QED BY <5>1, <6>1 DEF Value
        <5>2. CASE l[1] = "radio"
          <6>1. F[x].hal.radio[l[2]] = x.hal.radio[l[2]]
            BY <2>8, <3>3, <4>1, <5>2
          <6> QED BY <5>2, <6>1 DEF Value
        <5>3. CASE l[1] \notin {"range", "radio"}
          <6>1. /\ F[x].prog = new(x).prog /\ F[x].hal.txlut = x.hal.txlut
                /\ F[x].hal.board = x.hal.board /\ F[x].hal.lbt = x.hal.lbt
                /\ F[x].hal.chan = x.hal.chan
            BY <2>6
          <6>2. /\ new(x).prog.txlut = x.prog.txlut /\ new(x).prog.gw = x.prog.gw
                /\ new(x).prog.antenna_gain = x.prog.antenna_gain
            BY <2>4
          <6> QED BY <5>3, <6>1, <6>2, Kinds DEF Value
        <5> QED BY <5>1, <5>2, <5>3
      <4> QED BY <4>2
    <3> QED BY <3>1, <3>2, <3>3
  <2>10. Overwrites(F)
    BY <2>2, <2>7, <2>9 DEF Overwrites
  <2>11. ASSUME NEW x \in Ready, Agrees(x) PROVE Agrees(F[x])
    <3>1. "txlut" \in F[x].refused <=> "txlut" \in x.refused
      BY <2>6, NotARadio
    <3>2. F[x].prog.txlut = x.prog.txlut /\ F[x].hal.txlut = x.hal.txlut
      BY <2>4, <2>6
    <3>3. ASSUME NEW s \in Radios
          PROVE  \/ s \in F[x].refused \/ ~F[x].hal.radio[s].tx_enable
                 \/ F[x].prog.range[s] = F[x].hal.radio[s].range
      <4>1. CASE s # r
        <5>1. s \in F[x].refused <=> s \in x.refused
          BY <2>6, <4>1
        <5> QED BY <2>8, <2>11, <4>1, <5>1 DEF Agrees
      <4>2. CASE s = r /\ radio.ok
        BY <2>3, <2>8, <4>2
      <4>3. CASE s = r /\ ~radio.ok
        BY <2>6, <4>3
      <4> QED BY <4>1, <4>2, <4>3
    <3> QED BY <2>11, <3>1, <3>2, <3>3 DEF Agrees
  <2>12. \A x \in Ready : F[x].prog.gw = x.prog.gw
    BY <2>4, <2>6
  <2> QED BY <2>10, <2>11, <2>12 DEF Sound, F
<1> QED BY <1>1, <1>2

\* A channel.
LEMMA ChannelSound ==
  ASSUME NEW file, IsFile(file), NEW c \in Channels
  PROVE  Sound([x \in Ready |-> SetChannel(x, file, c)])
<1> DEFINE F == [x \in Ready |-> SetChannel(x, file, c)]
           on == file.chan[c] = "enabled"
<1>1. \A x \in Ready : x.ok
  BY DEF Ready
<1>2. CASE c \notin DOMAIN file.chan
  <2>1. F = [x \in Ready |-> x]
    BY <1>2 DEF SetChannel
  <2> QED BY <2>1, NothingSound
<1>3. CASE c \in DOMAIN file.chan /\ file.chan[c] = "refused"
  <2>1. ASSUME NEW x \in Ready PROVE SetChannel(x, file, c) = Fails(x)
    BY <1>1, <1>3 DEF SetChannel
  <2>2. F = [x \in Ready |-> Fails(x)]
    BY <2>1, Zenon
  <2> QED BY <2>2, FailsSound
<1>4. CASE c \in DOMAIN file.chan /\ file.chan[c] # "refused"
  <2>1. ASSUME NEW x \in Ready PROVE F[x] = [x EXCEPT !.hal.chan[c] = on]
    BY <1>1, <1>4 DEF SetChannel
  <2> HIDE DEF F
  <2>2. ASSUME NEW x \in Ready
        PROVE  /\ F[x] \in St /\ F[x].ok = TRUE /\ F[x].prog = x.prog /\ F[x].refused = x.refused
               /\ F[x].hal.board = x.hal.board /\ F[x].hal.lbt = x.hal.lbt
               /\ F[x].hal.txlut = x.hal.txlut /\ F[x].hal.radio = x.hal.radio
               /\ F[x].hal.chan = [x.hal.chan EXCEPT ![c] = on]
    <3> DEFINE g == [x.hal.chan EXCEPT ![c] = on]
               h == [x.hal EXCEPT !.chan = g]
    <3>1. x.hal \in Hal /\ x.hal.chan \in [Channels -> BOOLEAN]
      BY DEF Ready, St, Hal
    <3>2. g \in [Channels -> BOOLEAN]
      BY <3>1
    <3>3. F[x] = [x EXCEPT !.hal = h]
      BY <2>1
    <3> HIDE DEF g
    <3>4. /\ h \in Hal /\ h.board = x.hal.board /\ h.lbt = x.hal.lbt /\ h.txlut = x.hal.txlut
          /\ h.radio = x.hal.radio /\ h.chan = g
      BY <3>1, <3>2 DEF Hal
    <3> HIDE DEF h
    <3>5. F[x] \in St /\ F[x].ok = TRUE /\ F[x].prog = x.prog /\ F[x].hal = h
          /\ F[x].refused = x.refused
      BY <3>3, <3>4 DEF Ready, St
    <3> QED BY <3>4, <3>5 DEF g
  <2>3. F \in [Ready -> St]
    <3>1. F = [x \in Ready |-> F[x]]
      BY DEF F
    <3> QED BY <2>2, <3>1
  <2>4. ASSUME NEW x \in Ready
        PROVE  /\ F[x].hal.chan[c] = on
               /\ \A d \in Channels \ {c} : F[x].hal.chan[d] = x.hal.chan[d]
    <3>1. x.hal.chan \in [Channels -> BOOLEAN]
      BY DEF Ready, St, Hal
    <3>2. F[x].hal.chan = [x.hal.chan EXCEPT ![c] = on]
      BY <2>2
    <3> HIDE DEF on
    <3> QED BY <3>1, <3>2, Zenon
  <2>5. ASSUME NEW l \in Loc
        PROVE  \/ \E v : \A x \in Ready : Value(F[x], l) = v
               \/ \A x \in Ready : Value(F[x], l) = Value(x, l)
    <3>1. CASE l[1] = "chan" /\ l[2] = c
      <4>1. \A x \in Ready : Value(F[x], l) = on
        <5>1. \A x \in Ready : Value(F[x], l) = F[x].hal.chan[c]
          BY <3>1 DEF Value
        <5> HIDE DEF on
        <5> QED BY <2>4, <5>1, Zenon
      <4> QED BY <4>1
    <3>2. CASE l[1] = "chan" /\ l[2] # c
      <4>1. l[2] \in Channels \ {c}
        BY <3>2 DEF Loc
      <4>2. \A x \in Ready : Value(F[x], l) = F[x].hal.chan[l[2]] /\ Value(x, l) = x.hal.chan[l[2]]
        BY <3>2 DEF Value
      <4> QED BY <2>4, <4>1, <4>2
    <3>3. CASE l[1] # "chan"
      BY <2>2, <3>3, Kinds DEF Value
    <3> QED BY <3>1, <3>2, <3>3
  <2>6. Overwrites(F)
    BY <2>2, <2>3, <2>5 DEF Overwrites
  <2>7. \A x \in Ready : Agrees(x) => Agrees(F[x])
    BY <2>2 DEF Agrees
  <2> QED BY <2>2, <2>6, <2>7 DEF Sound, F
<1> QED BY <1>2, <1>3, <1>4

-----------------------------------------------------------------------------
(* One such function after the other, as many as there are.                  *)

\* What a function makes of settings that may have failed.
Applied(F, x) == IF x.ok THEN F[x] ELSE x

\* g gives the settings after each of n functions.
Chain(g, n, G, x) ==
  /\ g \in [0 .. n -> St]
  /\ g[0] = x
  /\ \A k \in 1 .. n : g[k] = Applied(G[k], g[k - 1])

\* There is such a g: were there a number of functions without, the smallest would
\* have one but for its last step.
LEMMA ChainExists ==
  ASSUME NEW n \in Nat, NEW G, \A k \in 1 .. n : Sound(G[k]), NEW x \in St
  PROVE  \E g : Chain(g, n, G, x)
<1> DEFINE Bad == {m \in 0 .. n : ~ \E g : Chain(g, m, G, x)}
<1>1. Bad = {}
  <2> SUFFICES ASSUME Bad # {} PROVE FALSE
    OBVIOUS
  <2>1. Bad \subseteq Nat
    OBVIOUS
  <2>2. PICK m \in Bad : \A k \in Bad : m <= k
    <3> HIDE DEF Bad
    <3> QED BY <2>1, SmallestExists
  <2>3. m \in 0 .. n /\ ~ \E g : Chain(g, m, G, x)
    BY <2>2
  <2>4. m # 0
    <3>1. Chain([k \in 0 .. 0 |-> x], 0, G, x)
      BY DEF Chain
    <3> QED BY <2>3, <3>1
  <2>5. m - 1 \in 0 .. n /\ m - 1 \notin Bad /\ m \in 1 .. n
    <3> HIDE DEF Bad
    <3> QED BY <2>1, <2>2, <2>3, <2>4
  <2>6. PICK g : Chain(g, m - 1, G, x)
    BY <2>5
  <2> DEFINE h == [k \in 0 .. m |-> IF k = m THEN Applied(G[m], g[m - 1]) ELSE g[k]]
  <2>7. g[m - 1] \in St
    BY <2>5, <2>6 DEF Chain
  <2>8. Applied(G[m], g[m - 1]) \in St
    <3>1. G[m] \in [Ready -> St]
      BY <2>5 DEF Sound, Overwrites
    <3> QED BY <2>7, <3>1 DEF Applied, Ready
  <2>9. Chain(h, m, G, x)
    <3>1. h \in [0 .. m -> St]
      BY <2>5, <2>6, <2>8 DEF Chain
    <3>2. h[0] = x
      BY <2>5, <2>6 DEF Chain
    <3>3. ASSUME NEW k \in 1 .. m PROVE h[k] = Applied(G[k], h[k - 1])
      <4>1. CASE k = m
        <5>1. h[m - 1] = g[m - 1] /\ h[m] = Applied(G[m], g[m - 1])
          BY <2>5
        <5> HIDE DEF h
        <5> QED BY <4>1, <5>1
      <4>2. CASE k # m
        <5>1. k \in 1 .. m - 1 /\ k - 1 \in 0 .. m /\ k - 1 # m /\ k \in 0 .. m
          BY <2>5, <4>2
        <5>2. h[k] = g[k] /\ h[k - 1] = g[k - 1]
          BY <4>2, <5>1
        <5> HIDE DEF h
        <5> QED BY <2>6, <5>1, <5>2 DEF Chain
      <4> QED BY <4>1, <4>2
    <3> HIDE DEF h
    <3> QED BY <3>1, <3>2, <3>3 DEF Chain
  <2> HIDE DEF h
  <2> QED BY <2>3, <2>9
<1>2. n \in 0 .. n
  OBVIOUS
<1> QED BY <1>1, <1>2

\* What a chain makes of settings is sound when each of its functions is.
LEMMA ChainSound ==
  ASSUME NEW n \in Nat, NEW G, \A k \in 1 .. n : Sound(G[k]),
         NEW C, \A x \in Ready : Chain(C[x], n, G, x)
  PROVE  Sound([x \in Ready |-> C[x][n]])
<1> DEFINE P(k) == [x \in Ready |-> C[x][k]]
           Bad == {k \in 0 .. n : ~Sound(P(k))}
<1>1. Bad = {}
  <2> SUFFICES ASSUME Bad # {} PROVE FALSE
    OBVIOUS
  <2>1. Bad \subseteq Nat
    OBVIOUS
  <2>2. PICK m \in Bad : \A k \in Bad : m <= k
    <3> HIDE DEF Bad
    <3> QED BY <2>1, SmallestExists
  <2>3. m \in 0 .. n /\ ~Sound(P(m))
    BY <2>2
  <2>4. P(0) = [x \in Ready |-> x]
    BY DEF Chain
  <2>5. m # 0
    BY <2>3, <2>4, NothingSound
  <2>6. m - 1 \in 0 .. n /\ m - 1 \notin Bad /\ m \in 1 .. n
    <3> HIDE DEF Bad
    <3> QED BY <2>1, <2>2, <2>3, <2>5
  <2>7. Sound(P(m - 1))
    BY <2>6
  <2>8. P(m) = Then(P(m - 1), G[m])
    <3>1. \A x \in Ready : C[x][m] = IF C[x][m - 1].ok THEN G[m][C[x][m - 1]] ELSE C[x][m - 1]
      BY <2>6 DEF Chain, Applied
    <3> QED BY <3>1 DEF Then
  <2> HIDE DEF P
  <2>9. Sound(Then(P(m - 1), G[m]))
    BY <2>6, <2>7, ThenSound
  <2> QED BY <2>3, <2>8, <2>9
<1>2. n \in 0 .. n
  OBVIOUS
<1> HIDE DEF P
<1>3. Sound(P(n))
  BY <1>1, <1>2
<1> QED BY <1>3 DEF P

\* Settings that have failed stay as they are to the end of the chain.
LEMMA ChainFailed ==
  ASSUME NEW n \in Nat, NEW G, NEW x \in St, ~x.ok, NEW g, Chain(g, n, G, x)
  PROVE  g[n] = x
<1> DEFINE Bad == {k \in 0 .. n : g[k] # x}
<1>1. Bad = {}
  <2> SUFFICES ASSUME Bad # {} PROVE FALSE
    OBVIOUS
  <2>1. Bad \subseteq Nat
    OBVIOUS
  <2>2. PICK m \in Bad : \A k \in Bad : m <= k
    <3> HIDE DEF Bad
    <3> QED BY <2>1, SmallestExists
  <2>3. m \in 1 .. n /\ g[m] # x
    BY <2>2 DEF Chain
  <2>4. m - 1 \in 0 .. n /\ m - 1 \notin Bad
    <3> HIDE DEF Bad
    <3> QED BY <2>1, <2>2, <2>3
  <2>5. g[m - 1] = x
    BY <2>4
  <2> QED BY <2>3, <2>5 DEF Chain, Applied
<1>2. n \in 0 .. n
  OBVIOUS
<1> QED BY <1>1, <1>2

\* Two sequences that begin with the same and go on alike are the same.
LEMMA AlikeToTheEnd ==
  ASSUME NEW n \in Nat, NEW f, NEW g, f[0] = g[0],
         \A k \in 1 .. n : f[k - 1] = g[k - 1] => f[k] = g[k]
  PROVE  f[n] = g[n]
<1> DEFINE Bad == {k \in 0 .. n : f[k] # g[k]}
<1>1. Bad = {}
  <2> SUFFICES ASSUME Bad # {} PROVE FALSE
    OBVIOUS
  <2>1. Bad \subseteq Nat
    OBVIOUS
  <2>2. PICK m \in Bad : \A k \in Bad : m <= k
    <3> HIDE DEF Bad
    <3> QED BY <2>1, SmallestExists
  <2>3. m \in 1 .. n /\ f[m] # g[m]
    BY <2>2
  <2>4. m - 1 \in 0 .. n /\ m - 1 \notin Bad
    <3> HIDE DEF Bad
    <3> QED BY <2>1, <2>2, <2>3
  <2> QED BY <2>3, <2>4
<1>2. n \in 0 .. n
  OBVIOUS
<1> QED BY <1>1, <1>2

\* All the radios of a file.
LEMMA RadiosSound ==
  ASSUME NEW file, IsFile(file)
  PROVE  /\ Sound([x \in Ready |-> WithRadios(x, file)])
         /\ \A x \in St : ~x.ok => WithRadios(x, file) = x
<1> DEFINE n == Len(RADIOS)
           G == [k \in 1 .. n |-> [x \in Ready |-> SetRadio(x, file, RADIOS[k])]]
<1>1. n \in Nat /\ \A k \in 1 .. n : RADIOS[k] \in Radios
  BY ConfConstants DEF Radios
<1>2. \A k \in 1 .. n : Sound(G[k])
  BY <1>1, RadioSound
<1>3. ASSUME NEW k \in 1 .. n, NEW x \in St
      PROVE  SetRadio(x, file, RADIOS[k]) = Applied(G[k], x)
  <2>1. CASE x.ok
    BY <2>1 DEF Applied, Ready
  <2>2. CASE ~x.ok
    <3>1. SetRadio(x, file, RADIOS[k]) = x
      BY <2>2 DEF SetRadio
    <3> QED BY <2>2, <3>1 DEF Applied
  <2> QED BY <2>1, <2>2
<1> HIDE DEF G
<1>4. ASSUME NEW x \in St
      PROVE  \E g : Chain(g, n, G, x) /\ WithRadios(x, file) = g[n]
  <2> DEFINE step(f) == [k \in 0 .. n |-> IF k = 0 THEN x ELSE SetRadio(f[k - 1], file, RADIOS[k])]
             after == CHOOSE f : f = step(f)
  <2>1. PICK g : Chain(g, n, G, x)
    BY <1>1, <1>2, ChainExists
  <2>2. \A k \in 0 .. n : g[k] = IF k = 0 THEN x ELSE SetRadio(g[k - 1], file, RADIOS[k])
    <3>1. ASSUME NEW k \in 0 .. n, k # 0 PROVE g[k] = SetRadio(g[k - 1], file, RADIOS[k])
      <4>1. k \in 1 .. n /\ k - 1 \in 0 .. n
        BY <1>1, <3>1
      <4>2. g[k - 1] \in St /\ g[k] = Applied(G[k], g[k - 1])
        BY <2>1, <4>1 DEF Chain
      <4> QED BY <1>3, <4>1, <4>2
    <3> QED BY <2>1, <3>1 DEF Chain
  <2>3. g = step(g)
    <3>1. g = [k \in 0 .. n |-> g[k]]
      BY <2>1 DEF Chain
    <3> QED BY <2>2, <3>1
  <2>4. after = step(after)
    BY <2>3
  <2>5. WithRadios(x, file) = after[n]
    BY DEF WithRadios
  <2> HIDE DEF after
  <2>6. after[0] = g[0]
    BY <1>1, <2>1, <2>4 DEF Chain
  <2>7. ASSUME NEW k \in 1 .. n, after[k - 1] = g[k - 1] PROVE after[k] = g[k]
    <3>1. k \in 0 .. n /\ k # 0
      BY <1>1
    <3>2. after[k] = SetRadio(after[k - 1], file, RADIOS[k])
      BY <2>4, <3>1
    <3>3. g[k] = SetRadio(g[k - 1], file, RADIOS[k])
      BY <2>2, <3>1
    <3> QED BY <2>7, <3>2, <3>3
  <2>8. after[n] = g[n]
    BY <1>1, <2>6, <2>7, AlikeToTheEnd
  <2> QED BY <2>1, <2>5, <2>8
<1> HIDE DEF n
<1>5. Sound([x \in Ready |-> WithRadios(x, file)])
  <2> DEFINE C == [x \in Ready |-> CHOOSE g : Chain(g, n, G, x) /\ WithRadios(x, file) = g[n]]
  <2>1. \A x \in Ready : Chain(C[x], n, G, x) /\ WithRadios(x, file) = C[x][n]
    BY <1>4 DEF Ready
  <2> HIDE DEF C
  <2>2. Sound([x \in Ready |-> C[x][n]])
    BY <1>1, <1>2, <2>1, ChainSound
  <2>3. [x \in Ready |-> C[x][n]] = [x \in Ready |-> WithRadios(x, file)]
    BY <2>1
  <2> QED BY <2>2, <2>3
<1>6. \A x \in St : ~x.ok => WithRadios(x, file) = x
  BY <1>1, <1>4, ChainFailed
<1> QED BY <1>5, <1>6

\* All the channels.
LEMMA ChannelsSound ==
  ASSUME NEW file, IsFile(file)
  PROVE  /\ Sound([x \in Ready |-> WithChannels(x, file)])
         /\ \A x \in St : ~x.ok => WithChannels(x, file) = x
<1> DEFINE n == Len(CHANNELS)
           G == [k \in 1 .. n |-> [x \in Ready |-> SetChannel(x, file, CHANNELS[k])]]
<1>1. n \in Nat /\ \A k \in 1 .. n : CHANNELS[k] \in Channels
  BY ConfConstants DEF Channels
<1>2. \A k \in 1 .. n : Sound(G[k])
  BY <1>1, ChannelSound
<1>3. ASSUME NEW k \in 1 .. n, NEW x \in St
      PROVE  SetChannel(x, file, CHANNELS[k]) = Applied(G[k], x)
  <2>1. CASE x.ok
    BY <2>1 DEF Applied, Ready
  <2>2. CASE ~x.ok
    <3>1. SetChannel(x, file, CHANNELS[k]) = x
      BY <2>2 DEF SetChannel
    <3> QED BY <2>2, <3>1 DEF Applied
  <2> QED BY <2>1, <2>2
<1> HIDE DEF G
<1>4. ASSUME NEW x \in St
      PROVE  \E g : Chain(g, n, G, x) /\ WithChannels(x, file) = g[n]
  <2> DEFINE step(f) == [k \in 0 .. n |-> IF k = 0 THEN x ELSE SetChannel(f[k - 1], file, CHANNELS[k])]
             after == CHOOSE f : f = step(f)
  <2>1. PICK g : Chain(g, n, G, x)
    BY <1>1, <1>2, ChainExists
  <2>2. \A k \in 0 .. n : g[k] = IF k = 0 THEN x ELSE SetChannel(g[k - 1], file, CHANNELS[k])
    <3>1. ASSUME NEW k \in 0 .. n, k # 0 PROVE g[k] = SetChannel(g[k - 1], file, CHANNELS[k])
      <4>1. k \in 1 .. n /\ k - 1 \in 0 .. n
        BY <1>1, <3>1
      <4>2. g[k - 1] \in St /\ g[k] = Applied(G[k], g[k - 1])
        BY <2>1, <4>1 DEF Chain
      <4> QED BY <1>3, <4>1, <4>2
    <3> QED BY <2>1, <3>1 DEF Chain
  <2>3. g = step(g)
    <3>1. g = [k \in 0 .. n |-> g[k]]
      BY <2>1 DEF Chain
    <3> QED BY <2>2, <3>1
  <2>4. after = step(after)
    BY <2>3
  <2>5. WithChannels(x, file) = after[n]
    BY DEF WithChannels
  <2> HIDE DEF after
  <2>6. after[0] = g[0]
    BY <1>1, <2>1, <2>4 DEF Chain
  <2>7. ASSUME NEW k \in 1 .. n, after[k - 1] = g[k - 1] PROVE after[k] = g[k]
    <3>1. k \in 0 .. n /\ k # 0
      BY <1>1
    <3>2. after[k] = SetChannel(after[k - 1], file, CHANNELS[k])
      BY <2>4, <3>1
    <3>3. g[k] = SetChannel(g[k - 1], file, CHANNELS[k])
      BY <2>2, <3>1
    <3> QED BY <2>7, <3>2, <3>3
  <2>8. after[n] = g[n]
    BY <1>1, <2>6, <2>7, AlikeToTheEnd
  <2> QED BY <2>1, <2>5, <2>8
<1> HIDE DEF n
<1>5. Sound([x \in Ready |-> WithChannels(x, file)])
  <2> DEFINE C == [x \in Ready |-> CHOOSE g : Chain(g, n, G, x) /\ WithChannels(x, file) = g[n]]
  <2>1. \A x \in Ready : Chain(C[x], n, G, x) /\ WithChannels(x, file) = C[x][n]
    BY <1>4 DEF Ready
  <2> HIDE DEF C
  <2>2. Sound([x \in Ready |-> C[x][n]])
    BY <1>1, <1>2, <2>1, ChainSound
  <2>3. [x \in Ready |-> C[x][n]] = [x \in Ready |-> WithChannels(x, file)]
    BY <2>1
  <2> QED BY <2>2, <2>3
<1>6. \A x \in St : ~x.ok => WithChannels(x, file) = x
  BY <1>1, <1>4, ChainFailed
<1> QED BY <1>5, <1>6

\* The tables, until one fails.
LEMMA TablesSound ==
  ASSUME NEW file, IsFile(file)
  PROVE  Sound([x \in Ready |-> WithTables(x, file)])
<1> DEFINE B == [x \in Ready |-> SetBoard(x, file)]
           L == [x \in Ready |-> SetLbt(x, file)]
           A == [x \in Ready |-> SetGain(x, file)]
           T == [x \in Ready |-> SetTxlut(x, file)]
<1>1. Sound(B) /\ Sound(L) /\ Sound(A) /\ Sound(T)
  BY BoardSound, LbtSound, GainSound, TxlutSound
<1>2. B \in [Ready -> St] /\ L \in [Ready -> St] /\ A \in [Ready -> St] /\ T \in [Ready -> St]
  BY <1>1 DEF Sound, Overwrites
<1>3. \A x \in Ready : A[x].ok
  <2>1. ASSUME NEW x \in Ready PROVE SetGain(x, file).ok
    <3>1. x.ok /\ x \in St
      BY DEF Ready
    <3>2. CASE file.gain = <<>>
      BY <3>1, <3>2 DEF SetGain
    <3>3. CASE file.gain # <<>>
      <4> DEFINE p == [x.prog EXCEPT !.antenna_gain = file.gain[1]]
      <4>1. SetGain(x, file) = [x EXCEPT !.prog = p]
        BY <3>3 DEF SetGain
      <4> HIDE DEF p
      <4> QED BY <3>1, <4>1 DEF St
    <3> QED BY <3>2, <3>3
  <2> QED BY <2>1
<1>4. ASSUME NEW x \in Ready
      PROVE  WithTables(x, file) = Then(Then(B, L), Then(A, T))[x]
  <2> DEFINE b == SetBoard(x, file)
             l == IF b.ok THEN SetLbt(b, file) ELSE b
  <2>1. WithTables(x, file) = IF l.ok THEN SetTxlut(SetGain(l, file), file) ELSE l
    BY DEF WithTables
  <2>2. b = B[x] /\ b \in St /\ (b.ok => b \in Ready)
    BY <1>2 DEF Ready
  <2>3. Then(B, L)[x] = l
    BY <2>2 DEF Then
  <2>4. l \in St /\ (l.ok => l \in Ready)
    <3> HIDE DEF b
    <3>1. b.ok => SetLbt(b, file) = L[b] /\ L[b] \in St
      BY <1>2, <2>2
    <3> QED BY <2>2, <3>1 DEF Ready
  <2> HIDE DEF l, b
  <2>5. CASE l.ok
    <3>1. A[l] = SetGain(l, file) /\ A[l] \in Ready
      BY <1>2, <1>3, <2>4, <2>5 DEF Ready
    <3>2. Then(A, T)[l] = T[A[l]]
      BY <1>3, <2>4, <2>5 DEF Then
    <3>3. T[A[l]] = SetTxlut(SetGain(l, file), file)
      BY <3>1
    <3> HIDE DEF A, T, B, L
    <3>4. Then(Then(B, L), Then(A, T))[x] = Then(A, T)[l]
      BY <2>3, <2>5 DEF Then
    <3> QED BY <2>1, <2>5, <3>2, <3>3, <3>4
  <2>6. CASE ~l.ok
    <3> HIDE DEF A, T, B, L
    <3>1. Then(Then(B, L), Then(A, T))[x] = l
      BY <2>3, <2>6 DEF Then
    <3> QED BY <2>1, <2>6, <3>1
  <2> QED BY <2>5, <2>6
<1> HIDE DEF B, L, A, T
<1>5. Sound(Then(Then(B, L), Then(A, T)))
  <2>1. Sound(Then(B, L)) /\ Sound(Then(A, T))
    BY <1>1, ThenSound
  <2> QED BY <2>1, ThenSound
<1>6. [x \in Ready |-> WithTables(x, file)] = Then(Then(B, L), Then(A, T))
  BY <1>4 DEF Then
<1> QED BY <1>5, <1>6

\* parse_SX1301_configuration.
LEMMA ParseSound ==
  ASSUME NEW file, IsFile(file)
  PROVE  Sound([x \in Ready |-> parse_SX1301_configuration(x, file)])
<1> DEFINE F == [x \in Ready |-> parse_SX1301_configuration(x, file)]
           T == [x \in Ready |-> WithTables(x, file)]
           R == [x \in Ready |-> WithRadios(x, file)]
           C == [x \in Ready |-> WithChannels(x, file)]
<1>1. CASE "SX1301_conf" \notin file.has
  <2>1. F = [x \in Ready |-> Fails(x)]
    BY <1>1 DEF parse_SX1301_configuration
  <2> QED BY <2>1, FailsSound
<1>2. CASE "SX1301_conf" \in file.has
  <2>1. Sound(T) /\ Sound(R) /\ Sound(C)
    BY TablesSound, RadiosSound, ChannelsSound
  <2>2. T \in [Ready -> St] /\ R \in [Ready -> St] /\ C \in [Ready -> St]
    BY <2>1 DEF Sound, Overwrites
  <2>3. /\ \A x \in St : ~x.ok => WithRadios(x, file) = x
        /\ \A x \in St : ~x.ok => WithChannels(x, file) = x
    BY RadiosSound, ChannelsSound
  <2>4. ASSUME NEW x \in Ready
        PROVE  parse_SX1301_configuration(x, file) = Then(T, Then(R, C))[x]
    <3> DEFINE t == WithTables(x, file)
               r == WithRadios(t, file)
    <3>1. parse_SX1301_configuration(x, file) = WithChannels(r, file)
      BY <1>2 DEF parse_SX1301_configuration
    <3>2. t = T[x] /\ t \in St
      BY <2>2
    <3> HIDE DEF t
    <3>3. CASE t.ok
      <4>1. t \in Ready /\ r = R[t] /\ r \in St
        BY <2>2, <3>2, <3>3 DEF Ready
      <4> HIDE DEF r
      <4>2. WithChannels(r, file) = IF r.ok THEN C[r] ELSE r
        BY <2>3, <4>1 DEF Ready
      <4> HIDE DEF T, R, C
      <4>3. Then(R, C)[t] = IF r.ok THEN C[r] ELSE r
        BY <4>1 DEF Then
      <4>4. Then(T, Then(R, C))[x] = Then(R, C)[t]
        BY <3>2, <3>3 DEF Then
      <4> QED BY <3>1, <4>2, <4>3, <4>4
    <3>4. CASE ~t.ok
      <4>1. r = t
        BY <2>3, <3>2, <3>4
      <4>2. WithChannels(t, file) = t
        BY <2>3, <3>2, <3>4
      <4> HIDE DEF T, R, C, r
      <4>3. Then(T, Then(R, C))[x] = t
        BY <3>2, <3>4 DEF Then
      <4> QED BY <3>1, <4>1, <4>2, <4>3
    <3> QED BY <3>3, <3>4
  <2> HIDE DEF T, R, C
  <2>5. Sound(Then(T, Then(R, C)))
    <3>1. Sound(Then(R, C))
      BY <2>1, ThenSound
    <3> QED BY <2>1, <3>1, ThenSound
  <2>6. F = Then(T, Then(R, C))
    BY <2>4 DEF Then
  <2> QED BY <2>5, <2>6
<1> QED BY <1>1, <1>2

\* parse_gateway_configuration overwrites settings, of gateway_conf alone.
LEMMA GatewayOverwrites ==
  ASSUME NEW file, IsFile(file)
  PROVE  /\ Overwrites([x \in Ready |-> parse_gateway_configuration(x, file)])
         /\ \A x \in Ready : Agrees(x) => Agrees(parse_gateway_configuration(x, file))
<1> DEFINE F == [x \in Ready |-> parse_gateway_configuration(x, file)]
           fits == ~PeriodInvalid(file.gw)
           mine(p) == p \in DOMAIN file.gw /\ (p \in Late => fits)
           g(x) == Parsed(x.prog.gw, file.gw)
<1>1. CASE "gateway_conf" \notin file.has
  <2>1. F = [x \in Ready |-> Fails(x)]
    BY <1>1 DEF parse_gateway_configuration
  <2>2. Sound(F)
    BY <2>1, FailsSound
  <2>3. \A x \in Ready : F[x] = parse_gateway_configuration(x, file)
    OBVIOUS
  <2> HIDE DEF F
  <2> QED BY <2>2, <2>3 DEF Sound, F
<1>2. CASE "gateway_conf" \in file.has
  <2>1. \A x \in Ready : F[x] = [x EXCEPT !.prog.gw = g(x), !.ok = fits]
    BY <1>2 DEF parse_gateway_configuration
  <2>2. ASSUME NEW x \in Ready
        PROVE  /\ g(x) \in [Params -> Int]
               /\ \A p \in Params : g(x)[p] = IF mine(p) THEN file.gw[p] ELSE x.prog.gw[p]
    <3>1. x.prog.gw \in [Params -> Int]
      BY DEF Ready, St, Prog
    <3>2. \A p \in DOMAIN file.gw : file.gw[p] \in Int
      BY DEF IsFile
    <3>3. g(x) = [p \in Params |-> IF mine(p) THEN file.gw[p] ELSE x.prog.gw[p]]
      BY DEF Parsed
    <3> HIDE DEF g, fits
    <3> QED BY <3>1, <3>2, <3>3
  <2>3. fits \in BOOLEAN
    BY DEF PeriodInvalid
  <2>4. \A x \in Ready : F[x] = parse_gateway_configuration(x, file)
    OBVIOUS
  <2> HIDE DEF F, g, fits
  <2>5. ASSUME NEW x \in Ready
        PROVE  /\ F[x] \in St /\ F[x].ok = fits /\ F[x].hal = x.hal /\ F[x].refused = x.refused
               /\ F[x].prog.antenna_gain = x.prog.antenna_gain
               /\ F[x].prog.txlut = x.prog.txlut /\ F[x].prog.range = x.prog.range
               /\ F[x].prog.gw = g(x)
    <3> DEFINE p == [x.prog EXCEPT !.gw = g(x)]
    <3>1. x.prog \in Prog
      BY DEF Ready, St
    <3>2. /\ p \in Prog /\ p.gw = g(x) /\ p.txlut = x.prog.txlut
          /\ p.range = x.prog.range /\ p.antenna_gain = x.prog.antenna_gain
      BY <2>2, <3>1 DEF Prog
    <3>3. F[x] = [x EXCEPT !.prog = p, !.ok = fits]
      BY <2>1
    <3> HIDE DEF p
    <3> QED BY <2>3, <3>2, <3>3 DEF Ready, St
  <2>6. F \in [Ready -> St]
    <3>1. F = [x \in Ready |-> F[x]]
      BY DEF F
    <3> QED BY <2>5, <3>1
  <2>7. ASSUME NEW l \in Loc
        PROVE  \/ \E v : \A x \in Ready : Value(F[x], l) = v
               \/ \A x \in Ready : Value(F[x], l) = Value(x, l)
    <3>1. CASE l[1] = "gw"
      <4>1. l[2] \in Params
        BY <3>1 DEF Loc
      <4>2. \A x \in Ready : Value(F[x], l) = IF mine(l[2]) THEN file.gw[l[2]] ELSE x.prog.gw[l[2]]
        <5>1. \A x \in Ready : Value(F[x], l) = F[x].prog.gw[l[2]]
          BY <3>1 DEF Value
        <5> QED BY <2>2, <2>5, <4>1, <5>1
      <4>3. \A x \in Ready : Value(x, l) = x.prog.gw[l[2]]
        BY <3>1 DEF Value
      <4> HIDE DEF mine
      <4>4. CASE mine(l[2])
        BY <4>2, <4>4
      <4>5. CASE ~mine(l[2])
        BY <4>2, <4>3, <4>5
      <4> QED BY <4>4, <4>5
    <3>2. CASE l[1] # "gw"
      BY <2>5, <3>2, Kinds DEF Value
    <3> QED BY <3>1, <3>2
  <2>8. Overwrites(F)
    BY <2>3, <2>5, <2>6, <2>7 DEF Overwrites
  <2>9. \A x \in Ready : Agrees(x) => Agrees(F[x])
    BY <2>5 DEF Agrees
  <2> QED BY <2>4, <2>8, <2>9 DEF F
<1> QED BY <1>1, <1>2

-----------------------------------------------------------------------------
(* The calls that main makes of the parse functions.                         *)

Object == {"SX1301_conf", "gateway_conf"}
CallsOf(d) == [file : DOMAIN d, object : Object, fatal : BOOLEAN]

\* A directory, or none.
Dirs == DIRECTORIES \cup {<< >>}

\* What is in a directory.
LEMMA DirsAre ==
  ASSUME NEW d \in Dirs
  PROVE  /\ DOMAIN d \subseteq {"debug", "global", "local"}
         /\ \A name \in DOMAIN d : IsFile(d[name])
<1>1. CASE d \in DIRECTORIES
  BY <1>1, ConfConstants
<1>2. CASE d = << >>
  <2>1. DOMAIN d = {}
    BY <1>2
  <2> QED BY <2>1
<1> QED BY <1>1, <1>2 DEF Dirs

\* The calls that main makes are of files that are there, and at most four.
LEMMA PlanType ==
  ASSUME NEW d \in Dirs
  PROVE  Plan(d) \in Seq(CallsOf(d)) /\ Len(Plan(d)) <= 4
<1> DEFINE dbg == Calls("debug", TRUE)
           glb == Calls("global", TRUE)
           loc == Calls("local", FALSE)
           own == Calls("local", TRUE)
           more == IF "local" \in DOMAIN d THEN loc ELSE <<>>
<1>1. /\ "debug" \in DOMAIN d => dbg \in Seq(CallsOf(d)) /\ Len(dbg) = 2
      /\ "global" \in DOMAIN d => glb \in Seq(CallsOf(d)) /\ Len(glb) = 2
      /\ "local" \in DOMAIN d => loc \in Seq(CallsOf(d)) /\ Len(loc) = 2
      /\ "local" \in DOMAIN d => own \in Seq(CallsOf(d)) /\ Len(own) = 2
  BY DEF Calls, CallsOf, Object
<1>2. CASE "debug" \in DOMAIN d
  <2>1. Plan(d) = dbg
    BY <1>2, Zenon DEF Plan
  <2> HIDE DEF dbg
  <2> QED BY <1>1, <1>2, <2>1
<1>3. CASE "debug" \notin DOMAIN d /\ "global" \in DOMAIN d
  <2>1. DOMAIN d # {"local"}
    BY <1>3
  <2>2. Plan(d) = glb \o more
    BY <1>3, <2>1, Zenon DEF Plan
  <2> HIDE DEF dbg, glb, loc, own
  <2>3. more \in Seq(CallsOf(d)) /\ Len(more) \in {0, 2}
    <3>1. CASE "local" \in DOMAIN d
      <4>1. more = loc
        BY <3>1
      <4> HIDE DEF more
      <4> QED BY <1>1, <3>1, <4>1
    <3>2. CASE "local" \notin DOMAIN d
      <4>1. more = <<>>
        BY <3>2
      <4> HIDE DEF more
      <4> QED BY <4>1
    <3> QED BY <3>1, <3>2
  <2> HIDE DEF more
  <2>4. glb \in Seq(CallsOf(d)) /\ Len(glb) = 2
    BY <1>1, <1>3
  <2>5. glb \o more \in Seq(CallsOf(d)) /\ Len(glb \o more) = Len(glb) + Len(more)
    BY <2>3, <2>4, ConcatProperties
  <2> QED BY <2>2, <2>3, <2>4, <2>5
<1>4. CASE "debug" \notin DOMAIN d /\ "global" \notin DOMAIN d /\ "local" \in DOMAIN d
  <2>1. DOMAIN d = {"local"}
    BY <1>4, DirsAre
  <2>2. Plan(d) = own
    BY <1>4, <2>1, Zenon DEF Plan
  <2> HIDE DEF own, dbg, glb, loc
  <2>3. own \in Seq(CallsOf(d)) /\ Len(own) = 2
    BY <1>1, <1>4
  <2> QED BY <2>2, <2>3
<1>5. CASE DOMAIN d = {}
  <2>1. Plan(d) = <<>>
    BY <1>5 DEF Plan
  <2> QED BY <2>1
<1> QED BY <1>2, <1>3, <1>4, <1>5, DirsAre

\* What a parse function makes of the settings.
Parse(x, object, file) ==
  IF object = "SX1301_conf" THEN parse_SX1301_configuration(x, file)
                            ELSE parse_gateway_configuration(x, file)

\* What a call makes of the settings; where main takes no notice of what the function
\* returns, it goes on.
Made(c, d) ==
  [x \in Ready |->
     IF d[c.file].json
       THEN [Parse(x, c.object, d[c.file]) EXCEPT !.ok = @ \/ ~c.fatal]
       ELSE Fails(x)]

\* Whether a function counts as failed makes no difference to what it overwrites.
LEMMA OverlookOverwrites ==
  ASSUME NEW F, Overwrites(F), NEW b \in BOOLEAN
  PROVE  Overwrites([x \in Ready |-> [F[x] EXCEPT !.ok = @ \/ b]])
<1> DEFINE H == [x \in Ready |-> [F[x] EXCEPT !.ok = @ \/ b]]
<1>1. PICK ok \in BOOLEAN : \A x \in Ready : F[x].ok = ok
  BY DEF Overwrites
<1>2. ASSUME NEW x \in Ready
      PROVE  /\ H[x] \in St /\ H[x].ok = (ok \/ b)
             /\ H[x].prog = F[x].prog /\ H[x].hal = F[x].hal
  <2>1. F[x] \in St /\ F[x].ok = ok
    BY <1>1 DEF Overwrites
  <2>2. H[x] = [F[x] EXCEPT !.ok = (ok \/ b)]
    BY <2>1
  <2>3. (ok \/ b) \in BOOLEAN
    OBVIOUS
  <2> HIDE DEF H
  <2> QED BY <2>1, <2>2, <2>3 DEF St
<1>3. H \in [Ready -> St]
  BY <1>2
<1> HIDE DEF H
<1>4. \A l \in Loc : \A x \in Ready : Value(H[x], l) = Value(F[x], l)
  BY <1>2 DEF Value
<1>5. ASSUME NEW l \in Loc
      PROVE  \/ \E v : \A x \in Ready : Value(H[x], l) = v
             \/ \A x \in Ready : Value(H[x], l) = Value(x, l)
  <2>1. \/ \E v : \A x \in Ready : Value(F[x], l) = v
        \/ \A x \in Ready : Value(F[x], l) = Value(x, l)
    BY DEF Overwrites
  <2>2. \A x \in Ready : Value(H[x], l) = Value(F[x], l)
    BY <1>4
  <2> QED BY <2>1, <2>2
<1>6. (ok \/ b) \in BOOLEAN
  OBVIOUS
<1> QED BY <1>2, <1>3, <1>5, <1>6 DEF Overwrites, H

\* A call overwrites settings, and leaves the program and the HAL in agreement.
LEMMA MadeOverwrites ==
  ASSUME NEW d \in Dirs, NEW c \in CallsOf(d)
  PROVE  /\ Overwrites(Made(c, d))
         /\ \A x \in Ready : Agrees(x) => Agrees(Made(c, d)[x])
<1> DEFINE file == d[c.file]
           M == Made(c, d)
<1>1. IsFile(file) /\ c.fatal \in BOOLEAN /\ c.object \in Object
  BY DirsAre DEF CallsOf
<1>2. CASE ~file.json
  <2>1. M = [x \in Ready |-> Fails(x)]
    BY <1>2 DEF Made
  <2>2. Sound(M)
    BY <2>1, FailsSound
  <2> HIDE DEF M
  <2> QED BY <2>2 DEF Sound, M
<1>3. CASE file.json
  <2> DEFINE F == [x \in Ready |-> Parse(x, c.object, file)]
  <2>1. Overwrites(F) /\ \A x \in Ready : Agrees(x) => Agrees(F[x])
    <3>1. CASE c.object = "SX1301_conf"
      <4>1. F = [x \in Ready |-> parse_SX1301_configuration(x, file)]
        BY <3>1 DEF Parse
      <4>2. Sound(F)
        BY <1>1, <4>1, ParseSound
      <4> HIDE DEF F
      <4> QED BY <4>2 DEF Sound
    <3>2. CASE c.object # "SX1301_conf"
      <4>1. F = [x \in Ready |-> parse_gateway_configuration(x, file)]
        BY <3>2 DEF Parse
      <4>2. \A x \in Ready : F[x] = parse_gateway_configuration(x, file)
        BY <4>1
      <4> HIDE DEF F
      <4> QED BY <1>1, <4>1, <4>2, GatewayOverwrites
    <3> QED BY <3>1, <3>2
  <2> DEFINE b == ~c.fatal
  <2>2. M = [x \in Ready |-> [F[x] EXCEPT !.ok = @ \/ b]]
    <3>1. \A x \in Ready : [Parse(x, c.object, file) EXCEPT !.ok = @ \/ b] = [F[x] EXCEPT !.ok = @ \/ b]
      OBVIOUS
    <3>2. M = [x \in Ready |-> [Parse(x, c.object, file) EXCEPT !.ok = @ \/ b]]
      BY <1>3 DEF Made
    <3> QED BY <3>1, <3>2
  <2>3. b \in BOOLEAN
    OBVIOUS
  <2> HIDE DEF F, b
  <2>4. Overwrites([x \in Ready |-> [F[x] EXCEPT !.ok = @ \/ b]])
    BY <2>1, <2>3, OverlookOverwrites
  <2>5. ASSUME NEW x \in Ready
        PROVE  M[x].prog = F[x].prog /\ M[x].hal = F[x].hal /\ M[x].refused = F[x].refused
    <3>1. F[x] \in St
      BY <2>1 DEF Overwrites
    <3>2. M[x] = [F[x] EXCEPT !.ok = @ \/ b]
      BY <2>2
    <3> HIDE DEF M
    <3> QED BY <3>1, <3>2 DEF St
  <2>6. Overwrites(M)
    BY <2>2, <2>4
  <2>7. \A x \in Ready : Agrees(x) => Agrees(M[x])
    BY <2>1, <2>5 DEF Agrees
  <2> QED BY <2>6, <2>7
<1> QED BY <1>1, <1>2, <1>3 DEF IsFile

\* The calls that are left, of which there are at most four.
Nothing == [x \in Ready |-> x]
Rest(cs, d) ==
  LET call(k) == IF k <= Len(cs) THEN Made(cs[k], d) ELSE Nothing
  IN  Then(call(1), Then(call(2), Then(call(3), call(4))))

\* Together they overwrite settings.
LEMMA RestOverwrites ==
  ASSUME NEW d \in Dirs, NEW cs \in Seq(CallsOf(d))
  PROVE  Overwrites(Rest(cs, d))
<1> DEFINE call(k) == IF k <= Len(cs) THEN Made(cs[k], d) ELSE Nothing
<1>1. ASSUME NEW k \in 1 .. 4 PROVE Overwrites(call(k))
  <2>1. CASE k <= Len(cs)
    <3>1. cs[k] \in CallsOf(d)
      BY <2>1
    <3> QED BY <2>1, <3>1, MadeOverwrites
  <2>2. CASE ~(k <= Len(cs))
    <3>1. Overwrites(Nothing)
      BY NothingSound DEF Sound, Nothing
    <3> QED BY <2>2, <3>1
  <2> QED BY <2>1, <2>2
<1>2. Overwrites(call(1)) /\ Overwrites(call(2)) /\ Overwrites(call(3)) /\ Overwrites(call(4))
  BY <1>1
<1>3. Rest(cs, d) = Then(call(1), Then(call(2), Then(call(3), call(4))))
  BY DEF Rest
<1> HIDE DEF call
<1>4. Overwrites(Then(call(3), call(4)))
  BY <1>2, ThenOverwrites
<1>5. Overwrites(Then(call(2), Then(call(3), call(4))))
  BY <1>2, <1>4, ThenOverwrites
<1>6. Overwrites(Then(call(1), Then(call(2), Then(call(3), call(4)))))
  BY <1>2, <1>5, ThenOverwrites
<1> QED BY <1>3, <1>6

\* When none is left, nothing changes.
LEMMA RestNone ==
  ASSUME NEW d, NEW x \in Ready
  PROVE  Rest(<<>>, d)[x] = x
<1>1. Rest(<<>>, d) = Then(Nothing, Then(Nothing, Then(Nothing, Nothing)))
  BY DEF Rest
<1>2. Then(Nothing, Nothing) = Nothing
  BY DEF Then, Nothing, Ready
<1> QED BY <1>1, <1>2 DEF Nothing

\* The calls that are left are the first of them, and if that did not fail the others.
LEMMA RestFirst ==
  ASSUME NEW d \in Dirs, NEW cs \in Seq(CallsOf(d)), cs # <<>>, Len(cs) <= 4
  PROVE  Rest(cs, d) = Then(Made(Head(cs), d), Rest(Tail(cs), d))
<1> DEFINE call(k) == IF k <= Len(cs) THEN Made(cs[k], d) ELSE Nothing
           tail(k) == IF k <= Len(Tail(cs)) THEN Made(Tail(cs)[k], d) ELSE Nothing
<1>1. call(1) = Made(Head(cs), d)
  OBVIOUS
<1>2. tail(1) = call(2) /\ tail(2) = call(3) /\ tail(3) = call(4) /\ tail(4) = Nothing
  <2>1. Len(cs) \in Nat /\ Len(Tail(cs)) = Len(cs) - 1
        /\ \A k \in 1 .. Len(cs) - 1 : Tail(cs)[k] = cs[k + 1]
    OBVIOUS
  <2>2. ASSUME NEW k \in 1 .. 3 PROVE tail(k) = call(k + 1)
    <3>1. CASE k <= Len(cs) - 1
      BY <2>1, <3>1
    <3>2. CASE ~(k <= Len(cs) - 1)
      BY <2>1, <3>2
    <3> QED BY <3>1, <3>2
  <2>3. tail(1) = call(1 + 1) /\ tail(2) = call(2 + 1) /\ tail(3) = call(3 + 1)
    <3> HIDE DEF tail, call
    <3> QED BY <2>2
  <2>4. tail(4) = Nothing
    BY <2>1
  <2> QED BY <2>3, <2>4
<1>3. call(4) \in [Ready -> St]
  <2>1. CASE 4 <= Len(cs)
    <3>1. cs[4] \in CallsOf(d)
      BY <2>1
    <3>2. Overwrites(Made(cs[4], d))
      BY <3>1, MadeOverwrites
    <3> QED BY <2>1, <3>2 DEF Overwrites
  <2>2. CASE ~(4 <= Len(cs))
    BY <2>2 DEF Nothing, Ready
  <2> QED BY <2>1, <2>2
<1>4. Rest(cs, d) = Then(call(1), Then(call(2), Then(call(3), call(4))))
  BY DEF Rest
<1>5. Rest(Tail(cs), d) = Then(tail(1), Then(tail(2), Then(tail(3), tail(4))))
  BY DEF Rest
<1> HIDE DEF call, tail
<1>6. Then(call(4), Nothing) = call(4)
  <2>1. \A x \in Ready : call(4)[x].ok => Nothing[call(4)[x]] = call(4)[x]
    BY <1>3 DEF Nothing, Ready
  <2> QED BY <1>3, <2>1 DEF Then
<1> QED BY <1>1, <1>2, <1>4, <1>5, <1>6

-----------------------------------------------------------------------------
(* Types, and the agreement of the program's settings with the HAL's.        *)

\* The settings now, and those after the last start but one.
Cur == [prog |-> prog, hal |-> hal, refused |-> refused, ok |-> TRUE]
LastSt == [prog |-> last.prog, hal |-> last.hal, refused |-> {}, ok |-> TRUE]

ConfTyped ==
  /\ mpc \in {"off", "read", "running", "failed"}
  /\ dir \in Dirs
  /\ last.dir \in Dirs
  /\ todo \in Seq(CallsOf(dir)) /\ Len(todo) <= 4
  /\ (mpc = "read") = (todo # <<>>)
  /\ starts \in 0 .. MAX_STARTS
  /\ Cur \in St
  /\ LastSt \in St
  /\ Agrees(Cur)

\* The settings the program is compiled with.
LEMMA ConfInitTyped == Init => ConfTyped
<1> SUFFICES ASSUME Init PROVE ConfTyped
  OBVIOUS
<1>1. NoTable \in Tables /\ NoTable.size = 0
  <2>1. 0 \in 0 .. TX_GAIN_LUT_SIZE_MAX
    BY ConfConstants
  <2> QED BY <2>1 DEF NoTable, Tables
<1>2. Default \in [Params -> Int]
  <2>1. \A p \in Params : (CASE p = "beacon_freq_hz" -> 869525000
                             [] p = "beacon_freq_nb" -> 1
                             [] p = "beacon_datarate" -> 9
                             [] p = "beacon_bw_hz" -> 125000
                             [] OTHER -> 0) \in Int
    OBVIOUS
  <2> QED BY <2>1 DEF Default
<1>3. Compiled \in Prog
  BY <1>1, <1>2 DEF Compiled, Prog
<1>4. HalCompiled \in Hal /\ HalCompiled.txlut = NoTable
      /\ \A r \in Radios : HalCompiled.radio[r].tx_enable = FALSE
  BY <1>1 DEF HalCompiled, Hal, Rf
<1>5. Compiled.txlut = NoTable
  BY DEF Compiled
<1>6. Cur = [prog |-> Compiled, hal |-> HalCompiled, refused |-> {}, ok |-> TRUE]
      /\ LastSt = [prog |-> Compiled, hal |-> HalCompiled, refused |-> {}, ok |-> TRUE]
  BY DEF Init, Cur, LastSt
<1> HIDE DEF Compiled, HalCompiled, NoTable
<1>7. Cur \in St /\ LastSt \in St
  BY <1>3, <1>4, <1>6 DEF St
<1>8. Agrees(Cur)
  BY <1>1, <1>4, <1>5, <1>6 DEF Agrees
<1>9. todo = <<>> /\ mpc = "off" /\ dir = << >> /\ last.dir = << >> /\ starts \in 0 .. MAX_STARTS
  BY ConfConstants DEF Init
<1>10. todo \in Seq(CallsOf(dir)) /\ Len(todo) <= 4
  BY <1>9
<1> QED BY <1>7, <1>8, <1>9, <1>10 DEF ConfTyped, Dirs

\* What a read does: the settings are what the call made of them, and the calls that
\* are left the others, or none if it failed.
ReadsTo(s) ==
  /\ s \in St
  /\ s.prog = prog' /\ s.hal = hal' /\ s.refused = refused'
  /\ todo' = IF s.ok THEN Tail(todo) ELSE <<>>
  /\ mpc' = IF ~s.ok THEN "failed" ELSE IF todo' = <<>> THEN "running" ELSE "read"
  /\ UNCHANGED <<dir, last, starts>>

\* The file of the next call is the object's.
LEMMA NextCall ==
  ASSUME ConfTyped, mpc = "read"
  PROVE  /\ todo # <<>> /\ Head(todo) \in CallsOf(dir) /\ Tail(todo) \in Seq(CallsOf(dir))
         /\ Len(Tail(todo)) = Len(todo) - 1
         /\ IsFile(dir[Head(todo).file]) /\ Head(todo).fatal \in BOOLEAN
         /\ Cur \in Ready
<1>1. todo # <<>> /\ todo \in Seq(CallsOf(dir)) /\ dir \in Dirs /\ Cur \in St
  BY DEF ConfTyped
<1>2. Head(todo) \in CallsOf(dir)
  BY <1>1
<1>3. Head(todo).file \in DOMAIN dir /\ Head(todo).fatal \in BOOLEAN
  BY <1>2 DEF CallsOf
<1>4. IsFile(dir[Head(todo).file])
  BY <1>1, <1>3, DirsAre
<1>5. Tail(todo) \in Seq(CallsOf(dir)) /\ Len(Tail(todo)) = Len(todo) - 1
  BY <1>1
<1>6. Cur \in Ready
  BY <1>1 DEF Ready, Cur
<1> QED BY <1>1, <1>2, <1>3, <1>4, <1>5, <1>6

\* parse_SX1301_configuration.
LEMMA ReadSX1301Is ==
  ASSUME ConfTyped, ReadSX1301
  PROVE  ReadsTo(Made(Head(todo), dir)[Cur])
<1> DEFINE c == Head(todo)
           st == parse_SX1301_configuration(Cur, dir[c.file])
           s == Made(c, dir)[Cur]
<1>1. mpc = "read" /\ c.object = "SX1301_conf" /\ dir[c.file].json
  BY DEF ReadSX1301
<1>2. Cur \in Ready /\ IsFile(dir[c.file]) /\ c.fatal \in BOOLEAN
  BY <1>1, NextCall
<1>3. st \in St
  <2>1. Overwrites([x \in Ready |-> parse_SX1301_configuration(x, dir[c.file])])
    BY <1>2, ParseSound DEF Sound
  <2> QED BY <1>2, <2>1 DEF Overwrites
<1>4. s = [st EXCEPT !.ok = @ \/ ~c.fatal]
  BY <1>1, <1>2 DEF Made, Parse
<1>5. prog' = st.prog /\ hal' = st.hal /\ refused' = st.refused /\ After(st.ok)
      /\ UNCHANGED <<dir, last, starts>>
  BY DEF ReadSX1301, Cur
<1> HIDE DEF st, s
<1>6. s \in St /\ s.prog = st.prog /\ s.hal = st.hal /\ s.refused = st.refused
      /\ s.ok = (st.ok \/ ~c.fatal)
  BY <1>2, <1>3, <1>4 DEF St
<1>7. /\ todo' = IF s.ok THEN Tail(todo) ELSE <<>>
      /\ mpc' = IF ~s.ok THEN "failed" ELSE IF todo' = <<>> THEN "running" ELSE "read"
  <2>1. (~st.ok /\ c.fatal) <=> ~s.ok
    BY <1>6
  <2> QED BY <1>5, <2>1 DEF After
<1> QED BY <1>5, <1>6, <1>7 DEF ReadsTo, s

\* parse_gateway_configuration, which changes no setting of the HAL.
LEMMA ReadGatewayIs ==
  ASSUME ConfTyped, ReadGateway
  PROVE  ReadsTo(Made(Head(todo), dir)[Cur])
<1> DEFINE c == Head(todo)
           file == dir[c.file]
           st == parse_gateway_configuration(Cur, file)
           sp == parse_gateway_configuration([prog |-> prog, ok |-> TRUE], file)
           s == Made(c, dir)[Cur]
<1>1. mpc = "read" /\ c.object = "gateway_conf" /\ dir[c.file].json
  BY DEF ReadGateway
<1>2. Cur \in Ready /\ IsFile(file) /\ c.fatal \in BOOLEAN
  BY <1>1, NextCall
<1>3. st \in St
  <2>1. Overwrites([x \in Ready |-> parse_gateway_configuration(x, file)])
    BY <1>2, GatewayOverwrites
  <2> QED BY <1>2, <2>1 DEF Overwrites
<1>4. s = [st EXCEPT !.ok = @ \/ ~c.fatal]
  BY <1>1, <1>2 DEF Made, Parse
<1>5. st.hal = hal /\ st.refused = refused /\ sp.prog = st.prog /\ sp.ok = st.ok
  <2>1. CASE "gateway_conf" \in file.has
    <3> DEFINE p == [prog EXCEPT !.gw = Parsed(@, file.gw)]
               fits == ~PeriodInvalid(file.gw)
    <3>1. st = [Cur EXCEPT !.prog = p, !.ok = fits]
      BY <2>1 DEF parse_gateway_configuration, Cur
    <3>2. sp = [[prog |-> prog, ok |-> TRUE] EXCEPT !.prog = p, !.ok = fits]
      BY <2>1 DEF parse_gateway_configuration
    <3> HIDE DEF p, fits, st, sp
    <3> QED BY <3>1, <3>2 DEF Cur
  <2>2. CASE "gateway_conf" \notin file.has
    BY <2>2 DEF parse_gateway_configuration, Fails, Cur
  <2> QED BY <2>1, <2>2
<1>6. prog' = sp.prog /\ After(sp.ok) /\ UNCHANGED <<dir, hal, refused, last, starts>>
  BY DEF ReadGateway
<1> HIDE DEF st, s, sp
<1>7. s \in St /\ s.prog = st.prog /\ s.hal = st.hal /\ s.refused = st.refused
      /\ s.ok = (st.ok \/ ~c.fatal)
  BY <1>2, <1>3, <1>4 DEF St
<1>8. /\ todo' = IF s.ok THEN Tail(todo) ELSE <<>>
      /\ mpc' = IF ~s.ok THEN "failed" ELSE IF todo' = <<>> THEN "running" ELSE "read"
  <2>1. (~sp.ok /\ c.fatal) <=> ~s.ok
    BY <1>5, <1>7
  <2> QED BY <1>6, <2>1 DEF After
<1> QED BY <1>5, <1>6, <1>7, <1>8 DEF ReadsTo, s

\* A read, or a file that is no JSON.
LEMMA ReadTyped ==
  ASSUME ConfTyped, mpc = "read", ReadsTo(Made(Head(todo), dir)[Cur])
  PROVE  ConfTyped'
<1> DEFINE s == Made(Head(todo), dir)[Cur]
<1>1. /\ todo # <<>> /\ Head(todo) \in CallsOf(dir) /\ Tail(todo) \in Seq(CallsOf(dir))
      /\ Len(Tail(todo)) = Len(todo) - 1 /\ Cur \in Ready
  BY NextCall
<1>2. dir \in Dirs /\ Agrees(Cur) /\ todo \in Seq(CallsOf(dir)) /\ Len(todo) <= 4
  BY DEF ConfTyped
<1>3. Agrees(s)
  BY <1>1, <1>2, MadeOverwrites
<1> HIDE DEF s
<1>4. /\ s \in St /\ s.prog = prog' /\ s.hal = hal' /\ s.refused = refused'
      /\ todo' = IF s.ok THEN Tail(todo) ELSE <<>>
      /\ mpc' = IF ~s.ok THEN "failed" ELSE IF todo' = <<>> THEN "running" ELSE "read"
      /\ UNCHANGED <<dir, last, starts>>
  BY DEF ReadsTo, s
<1>5. Cur' = [prog |-> s.prog, hal |-> s.hal, refused |-> s.refused, ok |-> TRUE]
  BY <1>4 DEF Cur
<1>6. Cur' \in St
  BY <1>4, <1>5 DEF St
<1>7. Agrees(Cur)'
  <2>1. Agrees(Cur') <=> Agrees(Cur)'
    BY DEF Agrees
  <2>2. Agrees(Cur')
    BY <1>3, <1>5 DEF Agrees
  <2> QED BY <2>1, <2>2
<1>8. todo' \in Seq(CallsOf(dir')) /\ Len(todo') <= 4
  <2>1. CASE s.ok
    BY <1>1, <1>2, <1>4, <2>1
  <2>2. CASE ~s.ok
    BY <1>2, <1>4, <2>2
  <2> QED BY <2>1, <2>2
<1>9. mpc' \in {"off", "read", "running", "failed"} /\ (mpc' = "read") = (todo' # <<>>)
  BY <1>4
<1>10. LastSt' = LastSt /\ last.dir' = last.dir
  BY <1>4 DEF LastSt
<1> QED BY <1>4, <1>6, <1>7, <1>8, <1>9, <1>10 DEF ConfTyped

\* A file that is no JSON is a call that fails.
LEMMA NotJsonIs ==
  ASSUME ConfTyped, NotJson
  PROVE  ReadsTo(Made(Head(todo), dir)[Cur])
<1> DEFINE s == Made(Head(todo), dir)[Cur]
<1>1. mpc = "read" /\ ~dir[Head(todo).file].json /\ mpc' = "failed" /\ todo' = <<>>
      /\ UNCHANGED <<dir, prog, hal, refused, last, starts>>
  BY DEF NotJson
<1>2. Cur \in Ready
  BY <1>1, NextCall
<1>3. s = Fails(Cur)
  BY <1>1, <1>2 DEF Made
<1> HIDE DEF s
<1>4. s \in St /\ s.ok = FALSE /\ s.prog = prog /\ s.hal = hal /\ s.refused = refused
  BY <1>2, <1>3 DEF Fails, Ready, St, Cur
<1> QED BY <1>1, <1>4 DEF ReadsTo, s

\* Every step.
LEMMA ConfStepTyped == ConfTyped /\ [Next]_vars => ConfTyped'
<1> SUFFICES ASSUME ConfTyped, [Next]_vars PROVE ConfTyped'
  OBVIOUS
<1>1. CASE Start
  <2>1. PICK d \in DIRECTORIES : dir' = d /\ todo' = Plan(d)
                                 /\ mpc' = IF Plan(d) = <<>> THEN "failed" ELSE "read"
    BY <1>1 DEF Start
  <2>2. d \in Dirs /\ Plan(d) \in Seq(CallsOf(d)) /\ Len(Plan(d)) <= 4
    BY PlanType DEF Dirs
  <2>3. Cur' = Cur /\ LastSt' = LastSt /\ last' = last /\ refused' = refused
    BY <1>1 DEF Start, Cur, LastSt
  <2>4. Agrees(Cur)'
    BY <2>3 DEF ConfTyped, Agrees
  <2>5. starts' \in 0 .. MAX_STARTS
    BY <1>1, ConfConstants DEF Start, ConfTyped
  <2>6. (mpc' = "read") = (todo' # <<>>) /\ mpc' \in {"off", "read", "running", "failed"}
    BY <2>1
  <2> QED BY <2>1, <2>2, <2>3, <2>4, <2>5, <2>6 DEF ConfTyped
<1>2. CASE NotJson
  BY <1>2, NotJsonIs, ReadTyped DEF NotJson
<1>3. CASE ReadSX1301
  BY <1>3, ReadSX1301Is, ReadTyped DEF ReadSX1301
<1>4. CASE ReadGateway
  BY <1>4, ReadGatewayIs, ReadTyped DEF ReadGateway
<1>5. CASE Return
  <2>1. /\ mpc' = "off" /\ mpc # "read" /\ UNCHANGED <<dir, todo, prog, hal, refused, starts>>
        /\ last' = [dir |-> dir, prog |-> prog, hal |-> hal]
    BY <1>5 DEF Return
  <2>2. Cur' = Cur
    BY <2>1 DEF Cur
  <2>3. LastSt' = [prog |-> Cur.prog, hal |-> Cur.hal, refused |-> {}, ok |-> TRUE]
        /\ last.dir' = dir
    BY <2>1 DEF LastSt, Cur
  <2>4. Cur \in St
    BY DEF ConfTyped
  <2>5. LastSt' \in St
    BY <2>3, <2>4 DEF St
  <2>6. Agrees(Cur)'
    BY <2>2 DEF ConfTyped, Agrees
  <2>7. (mpc' = "read") = (todo' # <<>>)
    BY <2>1 DEF ConfTyped
  <2> QED BY <2>1, <2>2, <2>3, <2>5, <2>6, <2>7 DEF ConfTyped
<1>6. CASE UNCHANGED vars
  <2>1. Cur' = Cur /\ LastSt' = LastSt
    BY <1>6 DEF vars, Cur, LastSt
  <2>2. Agrees(Cur)'
    BY <2>1 DEF ConfTyped, Agrees
  <2> QED BY <1>6, <2>1, <2>2 DEF vars, ConfTyped
<1> QED BY <1>1, <1>2, <1>3, <1>4, <1>5, <1>6 DEF Next

-----------------------------------------------------------------------------
(* Where the settings come from.                                            *)

\* What a start makes of the settings.
Whole(d) == Rest(Plan(d), d)

\* The settings after a start are what its calls made of those after the one before; on
\* the way there, the calls that are left will make that of them.
Produced ==
  /\ \E y \in Ready : Same(LastSt, Whole(last.dir)[y])
  /\ mpc = "off" => Same(Cur, LastSt)
  /\ mpc = "read" =>
       \E z \in Ready : Same(z, LastSt) /\ Rest(todo, dir)[Cur] = Whole(dir)[z]
  /\ mpc \in {"running", "failed"} =>
       \E z \in Ready : Same(z, LastSt) /\ Same(Cur, Whole(dir)[z])

\* The first start finds the settings the program is compiled with.
LEMMA ProducedInit == Init => Produced
<1> SUFFICES ASSUME Init PROVE Produced
  OBVIOUS
<1>1. LastSt \in Ready /\ last.dir = << >> /\ mpc = "off"
  BY ConfInitTyped DEF ConfTyped, LastSt, Init, Ready
<1>2. Plan(<< >>) = <<>>
  <2>1. DOMAIN << >> = {}
    OBVIOUS
  <2> QED BY <2>1 DEF Plan
<1>3. Whole(last.dir)[LastSt] = LastSt
  BY <1>1, <1>2, RestNone DEF Whole
<1>4. Same(Cur, LastSt)
  BY DEF Init, Cur, LastSt, Same
<1> QED BY <1>1, <1>3, <1>4 DEF Produced, Same

\* A call done leaves the others to do.
LEMMA ReadProduced ==
  ASSUME ConfTyped, Produced, mpc = "read", ReadsTo(Made(Head(todo), dir)[Cur])
  PROVE  Produced'
<1> DEFINE s == Made(Head(todo), dir)[Cur]
<1>1. /\ todo # <<>> /\ Head(todo) \in CallsOf(dir) /\ Tail(todo) \in Seq(CallsOf(dir))
      /\ Cur \in Ready
  BY NextCall
<1>2. dir \in Dirs /\ todo \in Seq(CallsOf(dir)) /\ Len(todo) <= 4
  BY DEF ConfTyped
<1>3. PICK z \in Ready : Same(z, LastSt) /\ Rest(todo, dir)[Cur] = Whole(dir)[z]
  BY DEF Produced
<1>4. Rest(todo, dir)[Cur] = IF s.ok THEN Rest(Tail(todo), dir)[s] ELSE s
  <2>1. Rest(todo, dir) = Then(Made(Head(todo), dir), Rest(Tail(todo), dir))
    BY <1>1, <1>2, RestFirst
  <2> QED BY <1>1, <2>1 DEF Then
<1> HIDE DEF s
<1>5. /\ s \in St /\ s.prog = prog' /\ s.hal = hal' /\ s.refused = refused'
      /\ todo' = IF s.ok THEN Tail(todo) ELSE <<>>
      /\ mpc' = IF ~s.ok THEN "failed" ELSE IF todo' = <<>> THEN "running" ELSE "read"
      /\ UNCHANGED <<dir, last, starts>>
  BY DEF ReadsTo, s
<1>6. Cur' = [prog |-> s.prog, hal |-> s.hal, refused |-> s.refused, ok |-> TRUE]
  BY <1>5 DEF Cur
<1>7. LastSt' = LastSt /\ last' = last /\ dir' = dir
  BY <1>5 DEF LastSt
<1>8. CASE ~s.ok
  <2>1. Same(Cur', Whole(dir)[z])
    BY <1>3, <1>4, <1>6, <1>8 DEF Same
  <2>2. mpc' = "failed"
    BY <1>5, <1>8
  <2> QED BY <1>3, <1>7, <2>1, <2>2 DEF Produced
<1>9. CASE s.ok
  <2>1. Cur' = s
    BY <1>5, <1>6, <1>9 DEF St
  <2>2. todo' = Tail(todo) /\ Rest(todo', dir)[Cur'] = Whole(dir)[z]
    BY <1>3, <1>4, <1>5, <1>9, <2>1
  <2>3. CASE Tail(todo) = <<>>
    <3>1. s \in Ready
      BY <1>5, <1>9 DEF Ready
    <3>2. Same(Cur', Whole(dir)[z])
      BY <2>1, <2>2, <2>3, <3>1, RestNone DEF Same
    <3>3. mpc' = "running"
      BY <1>5, <1>9, <2>3
    <3> QED BY <1>3, <1>7, <3>2, <3>3 DEF Produced
  <2>4. CASE Tail(todo) # <<>>
    <3>1. mpc' = "read"
      BY <1>5, <1>9, <2>4
    <3> QED BY <1>3, <1>7, <2>2, <3>1 DEF Produced
  <2> QED BY <2>3, <2>4
<1>10. s.ok \in BOOLEAN
  BY <1>5 DEF St
<1> QED BY <1>8, <1>9, <1>10

\* Every step.
LEMMA ProducedStep == ConfTyped /\ Produced /\ [Next]_vars => Produced'
<1> SUFFICES ASSUME ConfTyped, Produced, [Next]_vars PROVE Produced'
  OBVIOUS
<1>1. CASE Start
  <2>1. PICK d \in DIRECTORIES : dir' = d /\ todo' = Plan(d)
                                 /\ mpc' = IF Plan(d) = <<>> THEN "failed" ELSE "read"
    BY <1>1 DEF Start
  <2>2. Cur' = Cur /\ LastSt' = LastSt /\ last' = last
    BY <1>1 DEF Start, Cur, LastSt
  <2>3. Cur \in Ready /\ Same(Cur, LastSt)
    BY <1>1 DEF Start, ConfTyped, Produced, Ready, Cur
  <2>4. CASE Plan(d) = <<>>
    <3>1. Whole(d)[Cur] = Cur
      BY <2>3, <2>4, RestNone DEF Whole
    <3>2. mpc' = "failed" /\ Same(Cur', Whole(dir')[Cur]) /\ Same(Cur, LastSt')
      BY <2>1, <2>2, <2>3, <2>4, <3>1 DEF Same
    <3> QED BY <2>2, <2>3, <3>2 DEF Produced
  <2>5. CASE Plan(d) # <<>>
    <3>1. mpc' = "read" /\ Rest(todo', dir')[Cur'] = Whole(dir')[Cur] /\ Same(Cur, LastSt')
      BY <2>1, <2>2, <2>3, <2>5 DEF Whole
    <3> QED BY <2>2, <2>3, <3>1 DEF Produced
  <2> QED BY <2>4, <2>5
<1>2. CASE NotJson
  BY <1>2, NotJsonIs, ReadProduced DEF NotJson
<1>3. CASE ReadSX1301
  BY <1>3, ReadSX1301Is, ReadProduced DEF ReadSX1301
<1>4. CASE ReadGateway
  BY <1>4, ReadGatewayIs, ReadProduced DEF ReadGateway
<1>5. CASE Return
  <2>1. /\ mpc' = "off" /\ mpc \in {"running", "failed"} /\ UNCHANGED <<prog, hal, refused>>
        /\ last' = [dir |-> dir, prog |-> prog, hal |-> hal]
    BY <1>5 DEF Return
  <2>2. PICK z \in Ready : Same(z, LastSt) /\ Same(Cur, Whole(dir)[z])
    BY <2>1 DEF Produced
  <2>3. Same(LastSt', Cur) /\ last.dir' = dir /\ Same(Cur', LastSt')
    BY <2>1 DEF LastSt, Cur, Same
  <2>4. Same(LastSt', Whole(last.dir')[z])
    BY <2>2, <2>3 DEF Same
  <2> QED BY <2>1, <2>3, <2>4 DEF Produced
<1>6. CASE UNCHANGED vars
  <2>1. Cur' = Cur /\ LastSt' = LastSt
    BY <1>6 DEF vars, Cur, LastSt
  <2> QED BY <1>6, <2>1 DEF vars, Produced
<1> QED BY <1>1, <1>2, <1>3, <1>4, <1>5, <1>6 DEF Next

\* The same directory twice: what the second start makes of the settings is what the
\* first has made of them, as every setting is kept or comes from the files.
LEMMA ProducedRepeats == ConfTyped /\ Produced => Repeatable
<1> SUFFICES ASSUME ConfTyped, Produced, mpc \in {"running", "failed"}, dir = last.dir
             PROVE  prog = last.prog /\ hal = last.hal
  BY DEF Repeatable
<1> DEFINE F == Whole(dir)
<1>1. dir \in Dirs /\ LastSt \in Ready
  BY DEF ConfTyped, Ready, LastSt
<1>2. Overwrites(F)
  BY <1>1, PlanType, RestOverwrites DEF Whole
<1>3. PICK y \in Ready : Same(LastSt, F[y])
  BY DEF Produced
<1>4. PICK z \in Ready : Same(z, LastSt) /\ Same(Cur, F[z])
  BY DEF Produced
<1> HIDE DEF F
<1>5. Same(F[z], LastSt)
  BY <1>1, <1>2, <1>3, <1>4, OverwritesTwice
<1> QED BY <1>4, <1>5 DEF Same, Cur, LastSt

-----------------------------------------------------------------------------
(* Which file a setting of gateway_conf is from.                             *)

\* The settings with what a file says of them.
Over(d, old, name) ==
  [p \in Params |-> IF Says(d, name, p) THEN d[name].gw[p] ELSE old[p]]

\* The calls of a start: two with the file that has to be right, and two with the local
\* one beside a global one.
LEMMA PlanIs ==
  ASSUME NEW d \in Dirs
  PROVE  /\ Len(Plan(d)) \in {0, 2, 4}
         /\ Len(Plan(d)) > 0 =>
              /\ Plan(d)[1].object = "SX1301_conf"
              /\ Plan(d)[2].object = "gateway_conf" /\ Plan(d)[2].file = Base(d)
         /\ Len(Plan(d)) = 2 =>
              Base(d) = "debug" \/ Base(d) = "local" \/ "local" \notin DOMAIN d
         /\ Len(Plan(d)) = 4 =>
              /\ Base(d) = "global"
              /\ Plan(d)[3].object = "SX1301_conf" /\ Plan(d)[3].fatal = FALSE
              /\ Plan(d)[4].object = "gateway_conf" /\ Plan(d)[4].fatal = FALSE
              /\ Plan(d)[4].file = "local"
<1> DEFINE glb == Calls("global", TRUE)
           loc == Calls("local", FALSE)
<1>1. CASE "debug" \in DOMAIN d
  <2>1. Plan(d) = Calls("debug", TRUE) /\ Base(d) = "debug"
    BY <1>1, Zenon DEF Plan, Base
  <2> QED BY <2>1 DEF Calls
<1>2. CASE "debug" \notin DOMAIN d /\ "global" \in DOMAIN d
  <2>1. DOMAIN d # {"local"}
    BY <1>2
  <2>2. Base(d) = "global"
    BY <1>2, Zenon DEF Base
  <2>3. Plan(d) = glb \o (IF "local" \in DOMAIN d THEN loc ELSE <<>>)
    BY <1>2, <2>1, Zenon DEF Plan
  <2>4. CASE "local" \in DOMAIN d
    <3>1. Plan(d) = glb \o loc
      BY <2>3, <2>4
    <3> QED BY <2>2, <3>1 DEF Calls
  <2>5. CASE "local" \notin DOMAIN d
    <3>1. Plan(d) = glb \o <<>>
      BY <2>3, <2>5
    <3> QED BY <2>2, <2>5, <3>1 DEF Calls
  <2> QED BY <2>4, <2>5
<1>3. CASE "debug" \notin DOMAIN d /\ "global" \notin DOMAIN d
  <2>1. Base(d) = "local"
    BY <1>3, Zenon DEF Base
  <2>2. CASE DOMAIN d = {"local"}
    <3>1. Plan(d) = Calls("local", TRUE)
      BY <1>3, <2>2, Zenon DEF Plan
    <3> QED BY <2>1, <3>1 DEF Calls
  <2>3. CASE DOMAIN d # {"local"}
    <3>1. Plan(d) = <<>>
      BY <1>3, <2>3, Zenon DEF Plan
    <3> QED BY <3>1
  <2> QED BY <2>2, <2>3
<1> QED BY <1>1, <1>2, <1>3

\* How far main is with its calls: before the first file's gateway_conf has been read the
\* settings are those the start found, and behind it those with what that file says.
WinsInv ==
  /\ mpc = "off" => prog.gw = last.prog.gw
  /\ mpc = "read" =>
       \E k \in 0 .. 3 :
         /\ Len(todo) = Len(Plan(dir)) - k
         /\ \A i \in 1 .. Len(todo) : todo[i] = Plan(dir)[k + i]
         /\ prog.gw = IF k <= 1 THEN last.prog.gw ELSE Over(dir, last.prog.gw, Base(dir))
  /\ LocalWins

\* A call of parse_gateway_configuration stores what its file says, and nothing else.
LEMMA GatewayOver ==
  ASSUME ConfTyped, ReadGateway
  PROVE  prog.gw' = Over(dir, prog.gw, Head(todo).file)
<1> DEFINE file == dir[Head(todo).file]
           st == parse_gateway_configuration([prog |-> prog, ok |-> TRUE], file)
<1>1. mpc = "read" /\ prog' = st.prog
  BY DEF ReadGateway
<1>2. prog \in Prog /\ Head(todo).file \in DOMAIN dir
  BY <1>1, NextCall DEF ConfTyped, St, Cur, CallsOf
<1>3. prog.gw \in [Params -> Int]
  BY <1>2 DEF Prog
<1>4. CASE "gateway_conf" \in file.has
  <2> DEFINE g == Parsed(prog.gw, file.gw)
             fits == ~PeriodInvalid(file.gw)
  <2>1. st = [[prog |-> prog, ok |-> TRUE] EXCEPT !.prog = [prog EXCEPT !.gw = g], !.ok = fits]
    BY <1>4 DEF parse_gateway_configuration
  <2>2. g = Over(dir, prog.gw, Head(todo).file)
    BY <1>2, <1>4 DEF Parsed, Over, Says
  <2> HIDE DEF g, fits
  <2>3. st.prog = [prog EXCEPT !.gw = g]
    BY <2>1
  <2>4. st.prog.gw = g
    BY <1>2, <2>3 DEF Prog
  <2> HIDE DEF st
  <2> QED BY <1>1, <2>2, <2>4
<1>5. CASE "gateway_conf" \notin file.has
  <2>1. prog' = prog
    BY <1>1, <1>5 DEF parse_gateway_configuration, Fails
  <2>2. prog.gw = [p \in Params |-> prog.gw[p]]
    BY <1>3
  <2>3. Over(dir, prog.gw, Head(todo).file) = [p \in Params |-> prog.gw[p]]
    BY <1>5 DEF Over, Says
  <2> QED BY <2>1, <2>2, <2>3
<1> QED BY <1>4, <1>5

\* A call of parse_SX1301_configuration leaves them alone.
LEMMA SX1301Keeps ==
  ASSUME ConfTyped, ReadSX1301
  PROVE  prog.gw' = prog.gw
<1> DEFINE st == parse_SX1301_configuration(Cur, dir[Head(todo).file])
<1>1. mpc = "read" /\ prog' = st.prog
  BY DEF ReadSX1301, Cur
<1>2. st.prog.gw = Cur.prog.gw
  BY <1>1, NextCall, ParseSound DEF Sound
<1> QED BY <1>1, <1>2 DEF Cur

\* A call that has been made: the next one is its successor.
LEMMA NextPlace ==
  ASSUME ConfTyped, NEW k \in 0 .. 3, mpc = "read",
         Len(todo) = Len(Plan(dir)) - k,
         \A i \in 1 .. Len(todo) : todo[i] = Plan(dir)[k + i]
  PROVE  /\ Head(todo) = Plan(dir)[k + 1] /\ k < Len(Plan(dir))
         /\ Len(Tail(todo)) = Len(Plan(dir)) - (k + 1)
         /\ \A i \in 1 .. Len(Tail(todo)) : Tail(todo)[i] = Plan(dir)[k + 1 + i]
         /\ (Tail(todo) = <<>>) <=> (k + 1 = Len(Plan(dir)))
<1>1. todo # <<>> /\ todo \in Seq(CallsOf(dir)) /\ dir \in Dirs
  BY DEF ConfTyped
<1>2. Len(Plan(dir)) \in Nat /\ Len(todo) \in Nat /\ Len(todo) > 0
  <2>1. Len(todo) \in Nat /\ Len(todo) > 0
    BY <1>1
  <2> QED BY <1>1, <2>1, PlanIs
<1>3. Head(todo) = todo[1] /\ Len(Tail(todo)) = Len(todo) - 1
      /\ \A i \in 1 .. Len(todo) - 1 : Tail(todo)[i] = todo[i + 1]
  BY <1>1
<1>4. (Tail(todo) = <<>>) <=> (Len(Tail(todo)) = 0)
  <2>1. Tail(todo) \in Seq(CallsOf(dir))
    BY <1>1
  <2> QED BY <2>1, EmptySeq
<1>5. Len(Tail(todo)) = Len(Plan(dir)) - (k + 1)
  BY <1>2, <1>3
<1>6. ASSUME NEW i \in 1 .. Len(Tail(todo))
      PROVE  Tail(todo)[i] = Plan(dir)[k + 1 + i]
  <2>1. i + 1 \in 1 .. Len(todo) /\ i \in 1 .. Len(todo) - 1 /\ k + (i + 1) = k + 1 + i
    BY <1>2, <1>3
  <2> QED BY <1>3, <2>1
<1> QED BY <1>2, <1>3, <1>4, <1>5, <1>6

\* Every step.
LEMMA WinsStep == ConfTyped /\ WinsInv /\ [Next]_vars => WinsInv'
<1> SUFFICES ASSUME ConfTyped, WinsInv, [Next]_vars PROVE WinsInv'
  OBVIOUS
<1> DEFINE n == Len(Plan(dir))
           Old == last.prog.gw
           With == Over(dir, Old, Base(dir))
           Reached(k) ==
             /\ Len(todo) = n - k
             /\ \A i \in 1 .. Len(todo) : todo[i] = Plan(dir)[k + i]
             /\ prog.gw = IF k <= 1 THEN Old ELSE With
           Right(gw) == \A p \in Params :
             gw[p] = IF Base(dir) # "debug" /\ Says(dir, "local", p)
                       THEN dir["local"].gw[p]
                       ELSE IF Says(dir, Base(dir), p) THEN dir[Base(dir)].gw[p] ELSE Old[p]
           Partly(gw) == \A p \in Params :
             \/ gw[p] = Old[p]
             \/ Says(dir, Base(dir), p) /\ gw[p] = dir[Base(dir)].gw[p]
<1>1. dir \in Dirs /\ (mpc = "read" => \E k \in 0 .. 3 : Reached(k))
  BY DEF ConfTyped, WinsInv
<1> DEFINE P == Plan(dir)
<1>10. n \in {0, 2, 4}
  BY <1>1, PlanIs
<1>11. n > 0 => /\ P[1].object = "SX1301_conf"
               /\ P[2].object = "gateway_conf" /\ P[2].file = Base(dir)
  BY <1>1, PlanIs
<1>12. n = 4 => /\ Base(dir) = "global"
               /\ P[3].object = "SX1301_conf" /\ P[3].fatal = FALSE
               /\ P[4].object = "gateway_conf" /\ P[4].fatal = FALSE
               /\ P[4].file = "local"
  BY <1>1, PlanIs
<1>2. Partly(Old) /\ Partly(With)
  BY DEF Over
<1>3. ASSUME dir' = dir, last' = last
      PROVE  LocalWins' <=> /\ mpc' = "running" => Right(prog.gw')
                            /\ mpc' = "failed" => Partly(prog.gw')
  BY <1>3 DEF LocalWins
<1>4. CASE Start
  <2>1. PICK d \in DIRECTORIES : dir' = d /\ todo' = Plan(d)
                                 /\ mpc' = IF Plan(d) = <<>> THEN "failed" ELSE "read"
    BY <1>4 DEF Start
  <2>2. prog' = prog /\ last' = last /\ prog.gw = last.prog.gw
    BY <1>4 DEF Start, WinsInv
  <2>3. d \in Dirs
    BY DEF Dirs
  <2>4. Len(Plan(d)) \in Nat
    BY <2>3, PlanIs
  <2>5. /\ Len(todo') = Len(Plan(dir')) - 0
        /\ \A i \in 1 .. Len(todo') : todo'[i] = Plan(dir')[0 + i]
        /\ prog.gw' = IF 0 <= 1 THEN last.prog.gw' ELSE Over(dir', last.prog.gw', Base(dir'))
    BY <2>1, <2>2, <2>4
  <2>6. mpc' \in {"read", "failed"}
    BY <2>1
  <2>7. LocalWins'
    BY <2>2, <2>6 DEF LocalWins
  <2>8. mpc' # "off"
    BY <2>6
  <2> QED BY <2>5, <2>7, <2>8 DEF WinsInv
<1>5. CASE NotJson
  <2>1. mpc = "read" /\ mpc' = "failed" /\ UNCHANGED <<dir, prog, last>>
    BY <1>5 DEF NotJson
  <2>2. PICK k \in 0 .. 3 : Reached(k)
    BY <1>1, <2>1
  <2>3. Partly(prog.gw)
    BY <1>2, <2>2
  <2>4. LocalWins'
    BY <1>3, <2>1, <2>3
  <2> QED BY <2>1, <2>4 DEF WinsInv
<1>6. CASE ReadSX1301
  <2> DEFINE ok == parse_SX1301_configuration(
                     [prog |-> prog, hal |-> hal, refused |-> refused, ok |-> TRUE],
                     dir[Head(todo).file]).ok
  <2>1. /\ mpc = "read" /\ Head(todo).object = "SX1301_conf" /\ After(ok)
        /\ UNCHANGED <<dir, last>>
    BY <1>6 DEF ReadSX1301
  <2> HIDE DEF ok
  <2>2. PICK k \in 0 .. 3 : Reached(k)
    BY <1>1, <2>1
  <2>3. prog.gw' = prog.gw
    BY <1>6, SX1301Keeps
  <2>4. /\ Head(todo) = Plan(dir)[k + 1] /\ k < n
        /\ Len(Tail(todo)) = n - (k + 1)
        /\ \A i \in 1 .. Len(Tail(todo)) : Tail(todo)[i] = Plan(dir)[k + 1 + i]
        /\ (Tail(todo) = <<>>) <=> (k + 1 = n)
    BY <2>1, <2>2, NextPlace
  <2>5. k \in {0, 2} /\ k + 1 # n
    <3>1. n \in {0, 2, 4} /\ n > 0
      BY <1>10, <2>4
    <3>2. k # 1
      <4>1. Plan(dir)[2].object = "gateway_conf"
        BY <1>11, <1>12, <3>1
      <4>2. k = 1 => Head(todo) = Plan(dir)[2]
        BY <2>4
      <4> QED BY <2>1, <4>1, <4>2
    <3>3. k # 3
      <4>1. k = 3 => n = 4
        BY <2>4, <3>1
      <4>2. k = 3 => Plan(dir)[4].object = "gateway_conf"
        BY <1>11, <1>12, <4>1
      <4>3. k = 3 => Head(todo) = Plan(dir)[4]
        BY <2>4
      <4> QED BY <2>1, <4>2, <4>3
    <3>4. k \in {0, 2}
      BY <3>2, <3>3
    <3> HIDE DEF n
    <3> QED BY <3>1, <3>4
  <2>6. prog.gw = IF k + 1 <= 1 THEN Old ELSE With
    BY <2>2, <2>5
  <2>7. CASE ~ok /\ Head(todo).fatal
    <3>1. mpc' = "failed"
      BY <2>1, <2>7 DEF After
    <3>2. LocalWins'
      BY <1>2, <1>3, <2>1, <2>3, <2>6, <3>1
    <3> QED BY <3>1, <3>2 DEF WinsInv
  <2>8. CASE ~(~ok /\ Head(todo).fatal)
    <3>1. todo' = Tail(todo) /\ mpc' = "read"
      BY <2>1, <2>4, <2>5, <2>8 DEF After
    <3>2. LocalWins'
      BY <3>1 DEF LocalWins
    <3>3. /\ Len(todo') = Len(Plan(dir')) - (k + 1)
          /\ \A i \in 1 .. Len(todo') : todo'[i] = Plan(dir')[k + 1 + i]
          /\ prog.gw' = IF k + 1 <= 1 THEN last.prog.gw'
                                      ELSE Over(dir', last.prog.gw', Base(dir'))
      BY <2>1, <2>3, <2>4, <2>6, <3>1
    <3>4. k + 1 \in 0 .. 3
      BY <2>5
    <3> QED BY <3>1, <3>2, <3>3, <3>4 DEF WinsInv
  <2> QED BY <2>7, <2>8
<1>7. CASE ReadGateway
  <2> DEFINE ok == parse_gateway_configuration([prog |-> prog, ok |-> TRUE],
                                               dir[Head(todo).file]).ok
  <2>1. /\ mpc = "read" /\ Head(todo).object = "gateway_conf" /\ After(ok)
        /\ UNCHANGED <<dir, last>>
    BY <1>7 DEF ReadGateway
  <2> HIDE DEF ok
  <2>2. PICK k \in 0 .. 3 : Reached(k)
    BY <1>1, <2>1
  <2>3. prog.gw' = Over(dir, prog.gw, Head(todo).file)
    BY <1>7, GatewayOver
  <2>4. /\ Head(todo) = Plan(dir)[k + 1] /\ k < n
        /\ Len(Tail(todo)) = n - (k + 1)
        /\ \A i \in 1 .. Len(Tail(todo)) : Tail(todo)[i] = Plan(dir)[k + 1 + i]
        /\ (Tail(todo) = <<>>) <=> (k + 1 = n)
    BY <2>1, <2>2, NextPlace
  <2>5. CASE k = 1
    <3>1. n \in {2, 4} /\ Head(todo).file = Base(dir) /\ prog.gw = Old
      <4>1. n \in {0, 2, 4} /\ n > 0
        BY <1>10, <2>4
      <4>2. Plan(dir)[2].file = Base(dir)
        BY <1>11, <1>12, <4>1
      <4>3. Head(todo) = Plan(dir)[2] /\ prog.gw = Old
        BY <2>2, <2>4, <2>5
      <4> QED BY <4>1, <4>2, <4>3
    <3>2. prog.gw' = With
      BY <2>3, <3>1
    <3>3. CASE ~ok /\ Head(todo).fatal
      <4>1. mpc' = "failed"
        BY <2>1, <3>3 DEF After
      <4>2. LocalWins'
        BY <1>2, <1>3, <2>1, <3>2, <4>1
      <4> QED BY <4>1, <4>2 DEF WinsInv
    <3>4. CASE ~(~ok /\ Head(todo).fatal) /\ n = 2
      <4>1. mpc' = "running"
        BY <2>1, <2>4, <2>5, <3>4 DEF After
      <4>2. Base(dir) = "debug" \/ Base(dir) = "local" \/ "local" \notin DOMAIN dir
        BY <1>1, <3>4, PlanIs
      <4>3. \A p \in Params : Base(dir) # "debug" /\ Says(dir, "local", p) => Base(dir) = "local"
        BY <4>2 DEF Says
      <4>4. Right(With)
        BY <4>3 DEF Over
      <4>5. LocalWins'
        BY <1>3, <2>1, <3>2, <4>1, <4>4
      <4> QED BY <4>1, <4>5 DEF WinsInv
    <3>5. CASE ~(~ok /\ Head(todo).fatal) /\ n = 4
      <4>1. todo' = Tail(todo) /\ mpc' = "read"
        BY <2>1, <2>4, <2>5, <3>5 DEF After
      <4>2. LocalWins'
        BY <4>1 DEF LocalWins
      <4>3. /\ Len(todo') = Len(Plan(dir')) - 2
            /\ \A i \in 1 .. Len(todo') : todo'[i] = Plan(dir')[2 + i]
            /\ prog.gw' = IF 2 <= 1 THEN last.prog.gw'
                                    ELSE Over(dir', last.prog.gw', Base(dir'))
        BY <2>1, <2>4, <2>5, <3>2, <4>1
      <4> QED BY <4>1, <4>2, <4>3 DEF WinsInv
    <3> QED BY <3>1, <3>3, <3>4, <3>5
  <2>6. CASE k = 3
    <3>1. n = 4 /\ Head(todo).file = "local" /\ ~Head(todo).fatal /\ prog.gw = With
          /\ Base(dir) = "global"
      <4>1. n = 4
        BY <1>10, <2>4, <2>6
      <4>2. Plan(dir)[4].file = "local" /\ Plan(dir)[4].fatal = FALSE /\ Base(dir) = "global"
        BY <1>11, <1>12, <4>1
      <4>3. Head(todo) = Plan(dir)[4] /\ prog.gw = With
        BY <2>2, <2>4, <2>6
      <4> QED BY <4>1, <4>2, <4>3
    <3>2. mpc' = "running"
      BY <2>1, <2>4, <2>6, <3>1 DEF After
    <3>3. Right(Over(dir, With, "local"))
      BY <3>1 DEF Over
    <3>4. LocalWins'
      BY <1>3, <2>1, <2>3, <3>1, <3>2, <3>3
    <3> QED BY <3>2, <3>4 DEF WinsInv
  <2>7. k # 0
    <3>1. Plan(dir)[1].object = "SX1301_conf"
      BY <1>10, <1>11, <2>4
    <3>2. k = 0 => Head(todo) = Plan(dir)[1]
      BY <2>4
    <3> QED BY <2>1, <3>1, <3>2
  <2>8. k # 2
    <3>1. k = 2 => n = 4
      BY <1>10, <2>4
    <3>2. k = 2 => Plan(dir)[3].object = "SX1301_conf"
      BY <1>11, <1>12, <3>1
    <3>3. k = 2 => Head(todo) = Plan(dir)[3]
      BY <2>4
    <3> QED BY <2>1, <3>2, <3>3
  <2> QED BY <2>5, <2>6, <2>7, <2>8
<1>8. CASE Return
  <2>1. mpc' = "off" /\ prog' = prog /\ last' = [dir |-> dir, prog |-> prog, hal |-> hal]
    BY <1>8 DEF Return
  <2>2. LocalWins'
    BY <2>1 DEF LocalWins
  <2> QED BY <2>1, <2>2 DEF WinsInv
<1>9. CASE UNCHANGED vars
  BY <1>9 DEF vars, WinsInv, LocalWins
<1> QED BY <1>4, <1>5, <1>6, <1>7, <1>8, <1>9 DEF Next

\* The settings a beacon is made of fit into their fields: the period is stored as an
\* unsigned number, the descriptor as a byte.
FieldsFit ==
  /\ prog.gw["beacon_period"] \in Nat
  /\ prog.gw["beacon_infodesc"] \in 0 .. 255

\* What a file says fits.
LEMMA FieldsStep == ConfTyped /\ FieldsFit /\ [Next]_vars => FieldsFit'
<1> SUFFICES ASSUME ConfTyped, FieldsFit, [Next]_vars PROVE FieldsFit'
  OBVIOUS
<1>1. CASE ReadGateway
  <2> DEFINE file == dir[Head(todo).file]
  <2>1. mpc = "read"
    BY <1>1 DEF ReadGateway
  <2>2. IsFile(file)
    BY <2>1, NextCall
  <2>3. /\ "beacon_period" \in DOMAIN file.gw => file.gw["beacon_period"] \in Nat
        /\ "beacon_infodesc" \in DOMAIN file.gw => file.gw["beacon_infodesc"] \in 0 .. 255
    BY <2>2 DEF IsFile
  <2>4. \A p \in Params :
          \/ prog.gw[p]' = prog.gw[p]
          \/ p \in DOMAIN file.gw /\ prog.gw[p]' = file.gw[p]
    BY <1>1, GatewayOver DEF Over, Says
  <2>5. "beacon_period" \in Params /\ "beacon_infodesc" \in Params
    BY DEF Params, Late
  <2> HIDE DEF file
  <2> QED BY <2>3, <2>4, <2>5 DEF FieldsFit
<1>2. CASE ReadSX1301
  BY <1>2, SX1301Keeps DEF FieldsFit
<1>3. CASE Start \/ NotJson \/ Return \/ UNCHANGED vars
  <2>1. prog' = prog
    BY <1>3 DEF Start, NotJson, Return, vars
  <2> QED BY <2>1 DEF FieldsFit
<1> QED BY <1>1, <1>2, <1>3 DEF Next

-----------------------------------------------------------------------------
(* The CRC of a beacon: 16 bits, the first of them the highest.             *)

\* Sixteen bits, the octet behind the k-th of them, and the number they are.
Binary == {0, 1}
Words == [1 .. 16 -> Binary]
Octet(w, k) ==
  128 * w[k + 1] + 64 * w[k + 2] + 32 * w[k + 3] + 16 * w[k + 4] + 8 * w[k + 5] + 4 * w[k + 6]
  + 2 * w[k + 7] + w[k + 8]
Word(w) == 256 * Octet(w, 0) + Octet(w, 8)

\* A number of sixteen bits.
Sixteen(x) == x \in Int /\ 0 <= x /\ x <= 65535

\* A number is twice its half and a bit.
LEMMA Halves ==
  ASSUME NEW x \in Int
  PROVE  x = 2 * (x \div 2) + (x % 2) /\ x \div 2 \in Int /\ x % 2 \in Binary
<1>1. 2 \in Nat \ {0}
  OBVIOUS
<1>2. x \div 2 \in Int /\ x % 2 \in Int /\ x = 2 * (x \div 2) + (x % 2)
         /\ 0 <= x % 2 /\ x % 2 < 2
  BY <1>1, DivMod
<1>3. x % 2 \in Binary
  BY SMT, <1>2 DEF Binary
<1> QED BY Zenon, <1>2, <1>3

\* A byte is the sum of its bits, each at its place.
LEMMA ByteOfBits ==
  ASSUME NEW a \in 0 .. 255
  PROVE  /\ \A i \in 0 .. 7 : BitAt(a, i) \in Binary
         /\ a = 128 * BitAt(a, 7) + 64 * BitAt(a, 6) + 32 * BitAt(a, 5) + 16 * BitAt(a, 4)
                + 8 * BitAt(a, 3) + 4 * BitAt(a, 2) + 2 * BitAt(a, 1) + BitAt(a, 0)
<1> DEFINE q1 == a \div 2
           q2 == a \div 4
           q3 == a \div 8
           q4 == a \div 16
           q5 == a \div 32
           q6 == a \div 64
           q7 == a \div 128
<1>1. /\ q1 \in Int /\ q2 \in Int /\ q3 \in Int /\ q4 \in Int /\ q5 \in Int /\ q6 \in Int
      /\ q7 \in Int
  OBVIOUS
<1>2. q2 = q1 \div 2 /\ q3 = q2 \div 2 /\ q4 = q3 \div 2
  OBVIOUS
<1>3. q5 = q4 \div 2 /\ q6 = q5 \div 2 /\ q7 = q6 \div 2
  OBVIOUS
<1>4. q7 \div 2 = 0
  OBVIOUS
<1>5. BitAt(a, 0) = a % 2
  BY DEF BitAt, TwoTo
<1>6. /\ BitAt(a, 1) = q1 % 2 /\ BitAt(a, 2) = q2 % 2 /\ BitAt(a, 3) = q3 % 2
      /\ BitAt(a, 4) = q4 % 2 /\ BitAt(a, 5) = q5 % 2
      /\ BitAt(a, 6) = q6 % 2 /\ BitAt(a, 7) = q7 % 2
  BY DEF BitAt, TwoTo
<1>7. a \in Int
  OBVIOUS
<1> HIDE DEF q1, q2, q3, q4, q5, q6, q7
<1> DEFINE b0 == BitAt(a, 0)
           b1 == BitAt(a, 1)
           b2 == BitAt(a, 2)
           b3 == BitAt(a, 3)
           b4 == BitAt(a, 4)
           b5 == BitAt(a, 5)
           b6 == BitAt(a, 6)
           b7 == BitAt(a, 7)
<1>8. /\ a = 2 * q1 + b0 /\ q1 = 2 * q2 + b1 /\ q2 = 2 * q3 + b2 /\ q3 = 2 * q4 + b3
      /\ b0 \in Binary /\ b1 \in Binary /\ b2 \in Binary /\ b3 \in Binary
  BY <1>1, <1>2, <1>3, <1>5, <1>6, <1>7, Halves DEF q1
<1>9. /\ q4 = 2 * q5 + b4 /\ q5 = 2 * q6 + b5 /\ q6 = 2 * q7 + b6 /\ q7 = 2 * 0 + b7
      /\ b4 \in Binary /\ b5 \in Binary /\ b6 \in Binary /\ b7 \in Binary
  BY <1>1, <1>2, <1>3, <1>4, <1>6, Halves
<1>10. \A i \in 0 .. 7 : i = 0 \/ i = 1 \/ i = 2 \/ i = 3 \/ i = 4 \/ i = 5 \/ i = 6 \/ i = 7
  OBVIOUS
<1>11. \A i \in 0 .. 7 : BitAt(a, i) \in Binary
  BY <1>8, <1>9, <1>10
<1> HIDE DEF b0, b1, b2, b3, b4, b5, b6, b7
<1>12. a = 128 * b7 + 64 * b6 + 32 * b5 + 16 * b4 + 8 * b3 + 4 * b2 + 2 * b1 + b0
  BY <1>1, <1>8, <1>9 DEF Binary
<1> QED BY <1>11, <1>12 DEF b0, b1, b2, b3, b4, b5, b6, b7

\* The bits of an octet.
LEMMA OctetBits ==
  ASSUME NEW w \in Words, NEW k \in {0, 8}
  PROVE  /\ Octet(w, k) \in 0 .. 255
         /\ \A i \in 0 .. 7 : BitAt(Octet(w, k), i) = w[k + 8 - i]
<1> DEFINE a7 == w[k + 1]
           a6 == w[k + 2]
           a5 == w[k + 3]
           a4 == w[k + 4]
           a3 == w[k + 5]
           a2 == w[k + 6]
           a1 == w[k + 7]
           a0 == w[k + 8]
           a == Octet(w, k)
<1>1. a7 \in 0 .. 1 /\ a6 \in 0 .. 1 /\ a5 \in 0 .. 1 /\ a4 \in 0 .. 1 /\ a3 \in 0 .. 1
      /\ a2 \in 0 .. 1 /\ a1 \in 0 .. 1 /\ a0 \in 0 .. 1
  BY DEF Words, Binary
<1>2. a = 128 * a7 + 64 * a6 + 32 * a5 + 16 * a4 + 8 * a3 + 4 * a2 + 2 * a1 + a0
  BY DEF Octet
<1> HIDE DEF a7, a6, a5, a4, a3, a2, a1, a0, a
<1>3. a \in 0 .. 255
  BY <1>1, <1>2
<1>4. BitAt(a, 0) = a0
  <2>1. (a \div 1) % 2 = a0
    BY <1>1, <1>2
  <2> QED BY <2>1 DEF BitAt, TwoTo
<1>5. BitAt(a, 1) = a1
  <2>1. a \div 2 = 64 * a7 + 32 * a6 + 16 * a5 + 8 * a4 + 4 * a3 + 2 * a2 + a1
    BY <1>1, <1>2
  <2>2. (a \div 2) % 2 = a1
    BY <1>1, <2>1
  <2> QED BY <2>2 DEF BitAt, TwoTo
<1>6. BitAt(a, 2) = a2
  <2>1. a \div 4 = 32 * a7 + 16 * a6 + 8 * a5 + 4 * a4 + 2 * a3 + a2
    BY <1>1, <1>2
  <2>2. (a \div 4) % 2 = a2
    BY <1>1, <2>1
  <2> QED BY <2>2 DEF BitAt, TwoTo
<1>7. BitAt(a, 3) = a3
  <2>1. a \div 8 = 16 * a7 + 8 * a6 + 4 * a5 + 2 * a4 + a3
    BY <1>1, <1>2
  <2>2. (a \div 8) % 2 = a3
    BY <1>1, <2>1
  <2> QED BY <2>2 DEF BitAt, TwoTo
<1>8. BitAt(a, 4) = a4
  <2>1. a \div 16 = 8 * a7 + 4 * a6 + 2 * a5 + a4
    BY <1>1, <1>2
  <2>2. (a \div 16) % 2 = a4
    BY <1>1, <2>1
  <2> QED BY <2>2 DEF BitAt, TwoTo
<1>9. BitAt(a, 5) = a5
  <2>1. a \div 32 = 4 * a7 + 2 * a6 + a5
    BY <1>1, <1>2
  <2>2. (a \div 32) % 2 = a5
    BY <1>1, <2>1
  <2> QED BY <2>2 DEF BitAt, TwoTo
<1>10. BitAt(a, 6) = a6
  <2>1. a \div 64 = 2 * a7 + a6
    BY <1>1, <1>2
  <2>2. (a \div 64) % 2 = a6
    BY <1>1, <2>1
  <2> QED BY <2>2 DEF BitAt, TwoTo
<1>11. BitAt(a, 7) = a7
  <2>1. a \div 128 = a7
    BY <1>1, <1>2
  <2>2. (a \div 128) % 2 = a7
    BY <1>1, <2>1
  <2> QED BY <2>2 DEF BitAt, TwoTo
<1>12. ASSUME NEW i \in 0 .. 7 PROVE BitAt(a, i) = w[k + 8 - i]
  <2>1. /\ a7 = w[k + 8 - 7] /\ a6 = w[k + 8 - 6] /\ a5 = w[k + 8 - 5] /\ a4 = w[k + 8 - 4]
        /\ a3 = w[k + 8 - 3] /\ a2 = w[k + 8 - 2] /\ a1 = w[k + 8 - 1] /\ a0 = w[k + 8 - 0]
    BY DEF a7, a6, a5, a4, a3, a2, a1, a0
  <2>2. i = 0 \/ i = 1 \/ i = 2 \/ i = 3 \/ i = 4 \/ i = 5 \/ i = 6 \/ i = 7
    OBVIOUS
  <2> QED BY <1>4, <1>5, <1>6, <1>7, <1>8, <1>9, <1>10, <1>11, <2>1, <2>2
<1> QED BY <1>3, <1>12 DEF a

\* Bit by bit.
Both(v, w) == [t \in 1 .. 16 |-> (v[t] + w[t]) % 2]

\* The sum of two bits, without the carry, is whether they differ.
LEMMA BitSum ==
  ASSUME NEW a \in Binary, NEW b \in Binary
  PROVE  (a + b) % 2 \in Binary /\ (a + b) % 2 = IF a = b THEN 0 ELSE 1
  BY DEF Binary

\* Sixteen bits and sixteen bits are sixteen bits.
LEMMA BothType ==
  ASSUME NEW v \in Words, NEW w \in Words
  PROVE  Both(v, w) \in Words
  BY BitSum DEF Both, Words

\* Exclusive or of two bytes, bit by bit.
LEMMA OctetsXor ==
  ASSUME NEW v \in Words, NEW w \in Words, NEW k \in {0, 8}
  PROVE  ByteXor[Octet(v, k)][Octet(w, k)] = Octet(Both(v, w), k)
<1> DEFINE u == Both(v, w)
           a == Octet(v, k)
           b == Octet(w, k)
           bit(i) == TwoTo[i + 1] * ((BitAt(a, i) + BitAt(b, i)) % 2)
<1>1. a \in 0 .. 255 /\ \A i \in 0 .. 7 : BitAt(a, i) = v[k + 8 - i]
  BY OctetBits
<1>2. b \in 0 .. 255 /\ \A i \in 0 .. 7 : BitAt(b, i) = w[k + 8 - i]
  BY OctetBits
<1> HIDE DEF a, b
<1>3. ByteXor[a][b] = bit(0) + bit(1) + bit(2) + bit(3) + bit(4) + bit(5) + bit(6) + bit(7)
  BY <1>1, <1>2 DEF ByteXor
<1>4. ASSUME NEW i \in 0 .. 7 PROVE (BitAt(a, i) + BitAt(b, i)) % 2 = u[k + 8 - i]
  BY <1>1, <1>2 DEF Both
<1>5. /\ bit(0) = 1 * u[k + 8] /\ bit(1) = 2 * u[k + 7] /\ bit(2) = 4 * u[k + 6]
      /\ bit(3) = 8 * u[k + 5] /\ bit(4) = 16 * u[k + 4] /\ bit(5) = 32 * u[k + 3]
      /\ bit(6) = 64 * u[k + 2] /\ bit(7) = 128 * u[k + 1]
  <2>1. /\ bit(0) = 1 * u[k + 8 - 0] /\ bit(1) = 2 * u[k + 8 - 1] /\ bit(2) = 4 * u[k + 8 - 2]
        /\ bit(3) = 8 * u[k + 8 - 3]
    BY <1>4 DEF TwoTo
  <2>2. /\ bit(4) = 16 * u[k + 8 - 4] /\ bit(5) = 32 * u[k + 8 - 5]
        /\ bit(6) = 64 * u[k + 8 - 6] /\ bit(7) = 128 * u[k + 8 - 7]
    BY <1>4 DEF TwoTo
  <2>3. /\ k + 8 - 0 = k + 8 /\ k + 8 - 1 = k + 7 /\ k + 8 - 2 = k + 6 /\ k + 8 - 3 = k + 5
        /\ k + 8 - 4 = k + 4 /\ k + 8 - 5 = k + 3 /\ k + 8 - 6 = k + 2 /\ k + 8 - 7 = k + 1
    OBVIOUS
  <2> HIDE DEF u, bit
  <2> QED BY <2>1, <2>2, <2>3
<1>6. \A t \in 1 .. 16 : u[t] \in 0 .. 1
  BY BothType DEF Words, Binary
<1> DEFINE u1 == u[k + 1]
           u2 == u[k + 2]
           u3 == u[k + 3]
           u4 == u[k + 4]
           u5 == u[k + 5]
           u6 == u[k + 6]
           u7 == u[k + 7]
           u8 == u[k + 8]
<1>7. u1 \in Int /\ u2 \in Int /\ u3 \in Int /\ u4 \in Int /\ u5 \in Int /\ u6 \in Int
      /\ u7 \in Int /\ u8 \in Int
  BY <1>6
<1>8. Octet(u, k) = 128 * u1 + 64 * u2 + 32 * u3 + 16 * u4 + 8 * u5 + 4 * u6 + 2 * u7 + u8
  BY DEF Octet
<1>9. /\ bit(0) = 1 * u8 /\ bit(1) = 2 * u7 /\ bit(2) = 4 * u6
      /\ bit(3) = 8 * u5 /\ bit(4) = 16 * u4 /\ bit(5) = 32 * u3
      /\ bit(6) = 64 * u2 /\ bit(7) = 128 * u1
  BY <1>5
<1> HIDE DEF bit, u1, u2, u3, u4, u5, u6, u7, u8, u
<1>10. ByteXor[a][b] = Octet(u, k)
  BY <1>3, <1>7, <1>8, <1>9
<1> QED BY <1>10 DEF a, b, u

\* The two bytes of a number.
LEMMA WordBytes ==
  ASSUME NEW w \in Words
  PROVE  /\ Sixteen(Word(w))
         /\ Word(w) \div 256 = Octet(w, 0)
         /\ Word(w) % 256 = Octet(w, 8)
<1> DEFINE h == Octet(w, 0)
           l == Octet(w, 8)
<1>1. h \in 0 .. 255 /\ l \in 0 .. 255 /\ Word(w) = 256 * h + l
  BY OctetBits DEF Word
<1> HIDE DEF h, l
<1>2. Sixteen(256 * h + l)
  BY SMT, <1>1 DEF Sixteen
<1>3. (256 * h + l) \div 256 = h
  BY SMT, <1>1
<1>4. (256 * h + l) % 256 = l
  BY SMT, <1>1
<1> QED BY <1>1, <1>2, <1>3, <1>4 DEF h, l

\* Exclusive or of two numbers of 16 bits.
LEMMA XorIs ==
  ASSUME NEW v \in Words, NEW w \in Words
  PROVE  Xor(Word(v), Word(w)) = Word(Both(v, w))
<1> DEFINE h == Octet(Both(v, w), 0)
           l == Octet(Both(v, w), 8)
<1>1. ByteXor[Word(v) \div 256][Word(w) \div 256] = h
  BY WordBytes, OctetsXor
<1>2. ByteXor[Word(v) % 256][Word(w) % 256] = l
  BY WordBytes, OctetsXor
<1>3. h \in 0 .. 255 /\ l \in 0 .. 255 /\ Word(Both(v, w)) = 256 * h + l
  BY BothType, OctetBits DEF Word
<1>4. Xor(Word(v), Word(w)) = h * 256 + l
  BY <1>1, <1>2 DEF Xor
<1> HIDE DEF h, l
<1> QED BY <1>3, <1>4

\* The polynomial of the division, without its first term.
Poly == [t \in 1 .. 16 |-> IF t \in {4, 11, 16} THEN 1 ELSE 0]

\* The bits one place up, and what they are after the subtraction.
Up(w) == [t \in 1 .. 16 |-> IF t = 16 THEN 0 ELSE w[t + 1]]
Divided(w) == [t \in 1 .. 16 |-> (Up(w)[t] + (IF t \in {4, 11, 16} THEN w[1] ELSE 0)) % 2]

\* Twice a number is its bits one place up, and the first bit behind the sixteen.
LEMMA UpIs ==
  ASSUME NEW w \in Words
  PROVE  Up(w) \in Words /\ 2 * Word(w) = 65536 * w[1] + Word(Up(w))
<1> DEFINE s == Up(w)
<1>1. \A t \in 1 .. 16 : w[t] \in Binary
  BY DEF Words
<1>2. s \in Words
  <2>1. ASSUME NEW t \in 1 .. 16 PROVE s[t] \in Binary
    <3>1. CASE t = 16
      BY <3>1 DEF Binary, Up
    <3>2. CASE t # 16
      <4>1. t + 1 \in 1 .. 16
        BY <3>2
      <4> QED BY <1>1, <3>2, <4>1 DEF Up
    <3> QED BY <3>1, <3>2
  <2> QED BY <2>1 DEF Words, Up
<1>3. \A t \in 1 .. 15 : s[t] = w[t + 1]
  BY DEF Up
<1>4. s[16] = 0
  BY DEF Up
<1>5. \A t \in 1 .. 16 : w[t] \in 0 .. 1
  BY <1>1 DEF Binary
<1> HIDE DEF s
<1>6. 2 * Octet(w, 0) = 256 * w[1] + Octet(s, 0) - w[9]
  <2> DEFINE x1 == w[1]
             x2 == w[2]
             x3 == w[3]
             x4 == w[4]
             x5 == w[5]
             x6 == w[6]
             x7 == w[7]
             x8 == w[8]
             x9 == w[9]
  <2>1. x1 \in Int /\ x2 \in Int /\ x3 \in Int /\ x4 \in Int /\ x5 \in Int /\ x6 \in Int
        /\ x7 \in Int /\ x8 \in Int /\ x9 \in Int
    BY <1>5
  <2>2. Octet(w, 0) = 128 * x1 + 64 * x2 + 32 * x3 + 16 * x4 + 8 * x5 + 4 * x6 + 2 * x7 + x8
    BY DEF Octet
  <2>3. Octet(s, 0) = 128 * x2 + 64 * x3 + 32 * x4 + 16 * x5 + 8 * x6 + 4 * x7 + 2 * x8 + x9
    <3>1. s[1] = x2 /\ s[2] = x3 /\ s[3] = x4 /\ s[4] = x5 /\ s[5] = x6 /\ s[6] = x7
          /\ s[7] = x8 /\ s[8] = x9
      BY <1>3
    <3> HIDE DEF x1, x2, x3, x4, x5, x6, x7, x8, x9
    <3> QED BY <3>1 DEF Octet
  <2>4. 2 * Octet(w, 0) = 256 * x1 + Octet(s, 0) - x9
    <3> HIDE DEF x1, x2, x3, x4, x5, x6, x7, x8, x9
    <3> QED BY <2>1, <2>2, <2>3
  <2> QED BY <2>4
<1>7. 2 * Octet(w, 8) = 256 * w[9] + Octet(s, 8)
  <2> DEFINE x1 == w[9]
             x2 == w[10]
             x3 == w[11]
             x4 == w[12]
             x5 == w[13]
             x6 == w[14]
             x7 == w[15]
             x8 == w[16]
  <2>1. x1 \in Int /\ x2 \in Int /\ x3 \in Int /\ x4 \in Int /\ x5 \in Int /\ x6 \in Int
        /\ x7 \in Int /\ x8 \in Int
    BY <1>5
  <2>2. Octet(w, 8) = 128 * x1 + 64 * x2 + 32 * x3 + 16 * x4 + 8 * x5 + 4 * x6 + 2 * x7 + x8
    BY DEF Octet
  <2>3. Octet(s, 8) = 128 * x2 + 64 * x3 + 32 * x4 + 16 * x5 + 8 * x6 + 4 * x7 + 2 * x8 + 0
    <3>1. s[9] = x2 /\ s[10] = x3 /\ s[11] = x4 /\ s[12] = x5 /\ s[13] = x6 /\ s[14] = x7
          /\ s[15] = x8
      BY <1>3
    <3> HIDE DEF x1, x2, x3, x4, x5, x6, x7, x8
    <3> QED BY <1>4, <3>1 DEF Octet
  <2>4. 2 * Octet(w, 8) = 256 * x1 + Octet(s, 8)
    <3> HIDE DEF x1, x2, x3, x4, x5, x6, x7, x8
    <3> QED BY <2>1, <2>2, <2>3
  <2> QED BY <2>4
<1>8. 2 * Word(w) = 65536 * w[1] + Word(s)
  <2> DEFINE wh == Octet(w, 0)
             wl == Octet(w, 8)
             sh == Octet(s, 0)
             sl == Octet(s, 8)
             x == w[1]
             y == w[9]
  <2>1. wh \in Int /\ wl \in Int /\ sh \in Int /\ sl \in Int /\ x \in Int /\ y \in Int
    BY <1>2, <1>5, OctetBits
  <2>2. 2 * wh = 256 * x + sh - y /\ 2 * wl = 256 * y + sl
    BY <1>6, <1>7
  <2>3. Word(w) = 256 * wh + wl /\ Word(s) = 256 * sh + sl
    BY DEF Word
  <2>4. 2 * Word(w) = 65536 * x + Word(s)
    <3> HIDE DEF wh, wl, sh, sl, x, y
    <3> QED BY <2>1, <2>2, <2>3
  <2> QED BY <2>4
<1> QED BY <1>2, <1>8 DEF s

\* One round of crc16 is one step of the division.
LEMMA ShiftedIs ==
  ASSUME NEW w \in Words
  PROVE  Divided(w) \in Words /\ Shifted(Word(w)) = Word(Divided(w))
<1> DEFINE s == Up(w)
           u == Divided(w)
<1>1. w[1] \in Binary
  BY DEF Words
<1>2. s \in Words /\ 2 * Word(w) = 65536 * w[1] + Word(s)
  BY UpIs
<1>3. ASSUME NEW t \in 1 .. 16
      PROVE  u[t] = (s[t] + (IF t \in {4, 11, 16} THEN w[1] ELSE 0)) % 2
  BY DEF Divided
<1>4. u \in Words
  <2>1. ASSUME NEW t \in 1 .. 16 PROVE u[t] \in Binary
    <3>1. s[t] \in Binary /\ (IF t \in {4, 11, 16} THEN w[1] ELSE 0) \in Binary
      BY <1>1, <1>2 DEF Words, Binary
    <3> HIDE DEF s, u
    <3> QED BY <1>3, <3>1, BitSum
  <2> QED BY <2>1 DEF Words, Divided
<1>5. Sixteen(Word(s)) /\ Sixteen(Word(w))
  BY <1>2, WordBytes
<1> HIDE DEF s, u
<1>6. CASE w[1] = 0
  <2>1. ~(Word(w) >= 32768) /\ 2 * Word(w) = Word(s)
    <3> DEFINE x == Word(w)
               y == Word(s)
    <3>1. Sixteen(x) /\ Sixteen(y) /\ 2 * x = 65536 * 0 + y
      BY <1>2, <1>5, <1>6
    <3>2. ~(x >= 32768) /\ 2 * x = y
      <4> HIDE DEF x, y
      <4> QED BY SMT, <3>1 DEF Sixteen
    <3> QED BY <3>2
  <2>2. u = s
    <3>1. ASSUME NEW t \in 1 .. 16 PROVE u[t] = s[t]
      <4>1. s[t] \in Binary /\ u[t] = (s[t] + 0) % 2
        BY <1>2, <1>3, <1>6 DEF Words
      <4> QED BY <4>1 DEF Binary
    <3> QED BY <1>2, <1>4, <3>1 DEF Words
  <2> QED BY <1>4, <2>1, <2>2 DEF Shifted, u
<1>7. CASE w[1] = 1
  <2>1. Word(w) >= 32768 /\ (2 * Word(w)) % 65536 = Word(s)
    <3> DEFINE x == Word(w)
               y == Word(s)
    <3>1. Sixteen(x) /\ Sixteen(y) /\ 2 * x = 65536 * 1 + y
      BY <1>2, <1>5, <1>7
    <3>2. x >= 32768
      <4> HIDE DEF x, y
      <4> QED BY SMT, <3>1 DEF Sixteen
    <3>3. (2 * x) % 65536 = y
      <4> HIDE DEF x, y
      <4> QED BY SMT, <3>1 DEF Sixteen
    <3> QED BY <3>2, <3>3
  <2>2. Poly \in Words /\ Word(Poly) = 4129
    <3>1. Poly \in Words
      BY DEF Poly, Words, Binary
    <3>2. Octet(Poly, 0) = 16
      BY DEF Poly, Octet
    <3>3. Octet(Poly, 8) = 33
      BY DEF Poly, Octet
    <3> QED BY <3>1, <3>2, <3>3 DEF Word
  <2>3. Both(s, Poly) = u
    <3>1. ASSUME NEW t \in 1 .. 16 PROVE Both(s, Poly)[t] = u[t]
      BY <1>3, <1>7 DEF Both, Poly
    <3>2. Both(s, Poly) \in Words
      BY <1>2, <2>2, BothType
    <3> QED BY <1>4, <3>1, <3>2 DEF Words
  <2>4. Xor(Word(s), 4129) = Word(u)
    BY <1>2, <2>2, <2>3, XorIs
  <2> QED BY <1>4, <2>1, <2>4 DEF Shifted, u
<1> QED BY <1>1, <1>6, <1>7 DEF Binary

-----------------------------------------------------------------------------
(* crc16, byte by byte.                                                     *)

\* A byte in front of a number of 16 bits, and no byte.
Front(x) == [t \in 1 .. 16 |-> IF t <= 8 THEN BitAt(x, 8 - t) ELSE 0]
Zero16 == [t \in 1 .. 16 |-> 0]

\* A byte in front is 256 times the byte.
LEMMA FrontIs ==
  ASSUME NEW x \in 0 .. 255
  PROVE  Front(x) \in Words /\ Word(Front(x)) = x * 256
<1> DEFINE f == Front(x)
<1>1. \A i \in 0 .. 7 : BitAt(x, i) \in Binary
  BY ByteOfBits
<1>2. f \in Words
  <2>1. ASSUME NEW t \in 1 .. 16 PROVE f[t] \in Binary
    <3>1. CASE t <= 8
      <4>1. 8 - t \in 0 .. 7
        BY <3>1
      <4> QED BY <1>1, <3>1, <4>1 DEF Front
    <3>2. CASE ~(t <= 8)
      BY <3>2 DEF Front, Binary
    <3> QED BY <3>1, <3>2
  <2> QED BY <2>1 DEF Words, Front
<1>3. /\ f[1] = BitAt(x, 7) /\ f[2] = BitAt(x, 6) /\ f[3] = BitAt(x, 5) /\ f[4] = BitAt(x, 4)
      /\ f[5] = BitAt(x, 3) /\ f[6] = BitAt(x, 2) /\ f[7] = BitAt(x, 1) /\ f[8] = BitAt(x, 0)
  BY DEF Front
<1>4. /\ f[9] = 0 /\ f[10] = 0 /\ f[11] = 0 /\ f[12] = 0 /\ f[13] = 0 /\ f[14] = 0
      /\ f[15] = 0 /\ f[16] = 0
  BY DEF Front
<1> HIDE DEF f
<1>5. Octet(f, 0) = x
  <2>1. Octet(f, 0) = 128 * BitAt(x, 7) + 64 * BitAt(x, 6) + 32 * BitAt(x, 5) + 16 * BitAt(x, 4)
                      + 8 * BitAt(x, 3) + 4 * BitAt(x, 2) + 2 * BitAt(x, 1) + BitAt(x, 0)
    BY <1>3 DEF Octet
  <2> QED BY <2>1, ByteOfBits
<1>6. Octet(f, 8) = 0
  BY <1>4 DEF Octet
<1>7. Word(f) = x * 256
  BY <1>5, <1>6 DEF Word
<1> QED BY <1>2, <1>7 DEF f

\* Sixteen bits that are 0 are the number crc16 begins with.
LEMMA ZeroIs == Zero16 \in Words /\ Word(Zero16) = 0
<1>1. Zero16 \in Words
  BY DEF Zero16, Words, Binary
<1>2. Octet(Zero16, 0) = 0
  BY DEF Zero16, Octet
<1>3. Octet(Zero16, 8) = 0
  BY DEF Zero16, Octet
<1> QED BY <1>1, <1>2, <1>3 DEF Word

\* What crc16 makes of the bits with the next byte.
Absorbed(w, x) ==
  Divided(Divided(Divided(Divided(Divided(Divided(Divided(Divided(Both(w, Front(x))))))))))

\* That is what crc16 makes of its number.
LEMMA AbsorbedIs ==
  ASSUME NEW w \in Words, NEW x \in 0 .. 255
  PROVE  /\ Absorbed(w, x) \in Words
         /\ EightShifts(Xor(Word(w), x * 256)) = Word(Absorbed(w, x))
<1> DEFINE w0 == Both(w, Front(x))
           w1 == Divided(w0)
           w2 == Divided(w1)
           w3 == Divided(w2)
           w4 == Divided(w3)
           w5 == Divided(w4)
           w6 == Divided(w5)
           w7 == Divided(w6)
           w8 == Divided(w7)
<1>1. w0 \in Words /\ Xor(Word(w), x * 256) = Word(w0)
  BY FrontIs, BothType, XorIs
<1>2. Absorbed(w, x) = w8
  BY DEF Absorbed
<1>3. EightShifts(Word(w0)) = Shifted(Shifted(Shifted(Shifted(Shifted(Shifted(Shifted(Shifted(Word(w0)))))))))
  BY DEF EightShifts
<1> HIDE DEF w0
<1>4. w1 \in Words /\ Shifted(Word(w0)) = Word(w1)
  BY <1>1, ShiftedIs
<1> HIDE DEF w1
<1>5. w2 \in Words /\ Shifted(Word(w1)) = Word(w2)
  BY <1>4, ShiftedIs
<1> HIDE DEF w2
<1>6. w3 \in Words /\ Shifted(Word(w2)) = Word(w3)
  BY <1>5, ShiftedIs
<1> HIDE DEF w3
<1>7. w4 \in Words /\ Shifted(Word(w3)) = Word(w4)
  BY <1>6, ShiftedIs
<1> HIDE DEF w4
<1>8. w5 \in Words /\ Shifted(Word(w4)) = Word(w5)
  BY <1>7, ShiftedIs
<1> HIDE DEF w5
<1>9. w6 \in Words /\ Shifted(Word(w5)) = Word(w6)
  BY <1>8, ShiftedIs
<1> HIDE DEF w6
<1>10. w7 \in Words /\ Shifted(Word(w6)) = Word(w7)
  BY <1>9, ShiftedIs
<1> HIDE DEF w7
<1>11. w8 \in Words /\ Shifted(Word(w7)) = Word(w8)
  BY <1>10, ShiftedIs
<1> HIDE DEF w8
<1> QED BY Zenon, <1>1, <1>2, <1>3, <1>4, <1>5, <1>6, <1>7, <1>8, <1>9, <1>10, <1>11

-----------------------------------------------------------------------------
\* g[i] is what the first i of n functions make of a.
Steps(g, n, S, a, G) ==
  /\ g \in [0 .. n -> S]
  /\ g[0] = a
  /\ \A k \in 1 .. n : g[k] = G[k][g[k - 1]]

\* Functions of a set to itself can be applied one after the other.
LEMMA StepsExist ==
  ASSUME NEW n \in Nat, NEW S, NEW a \in S, NEW G, \A k \in 1 .. n : G[k] \in [S -> S]
  PROVE  \E g : Steps(g, n, S, a, G)
<1> DEFINE Bad == {m \in 0 .. n : ~ \E g : Steps(g, m, S, a, G)}
<1>1. Bad = {}
  <2> SUFFICES ASSUME Bad # {} PROVE FALSE
    OBVIOUS
  <2>1. Bad \subseteq Nat
    OBVIOUS
  <2>2. PICK m \in Bad : \A k \in Bad : m <= k
    <3> HIDE DEF Bad
    <3> QED BY <2>1, SmallestExists
  <2>3. m \in 0 .. n /\ ~ \E g : Steps(g, m, S, a, G)
    BY <2>2
  <2>4. m # 0
    <3>1. Steps([k \in 0 .. 0 |-> a], 0, S, a, G)
      BY DEF Steps
    <3> QED BY <2>3, <3>1
  <2>5. m - 1 \in 0 .. n /\ m - 1 \notin Bad /\ m \in 1 .. n
    <3> HIDE DEF Bad
    <3> QED BY <2>1, <2>2, <2>3, <2>4
  <2>6. PICK g : Steps(g, m - 1, S, a, G)
    BY <2>5
  <2> DEFINE h == [k \in 0 .. m |-> IF k = m THEN G[m][g[m - 1]] ELSE g[k]]
  <2>7. g[m - 1] \in S /\ G[m][g[m - 1]] \in S
    BY <2>5, <2>6 DEF Steps
  <2>8. Steps(h, m, S, a, G)
    <3>1. h \in [0 .. m -> S]
      BY <2>5, <2>6, <2>7 DEF Steps
    <3>2. h[0] = a
      BY <2>5, <2>6 DEF Steps
    <3>3. ASSUME NEW k \in 1 .. m PROVE h[k] = G[k][h[k - 1]]
      <4>1. CASE k = m
        <5>1. h[m - 1] = g[m - 1] /\ h[m] = G[m][g[m - 1]]
          BY <2>5
        <5> HIDE DEF h
        <5> QED BY <4>1, <5>1
      <4>2. CASE k # m
        <5>1. k \in 1 .. m - 1 /\ k - 1 \in 0 .. m /\ k - 1 # m /\ k \in 0 .. m
          BY <2>5, <4>2
        <5>2. h[k] = g[k] /\ h[k - 1] = g[k - 1]
          BY <4>2, <5>1
        <5> HIDE DEF h
        <5> QED BY <2>6, <5>1, <5>2 DEF Steps
      <4> QED BY <4>1, <4>2
    <3> HIDE DEF h
    <3> QED BY <3>1, <3>2, <3>3 DEF Steps
  <2> HIDE DEF h
  <2> QED BY <2>3, <2>8
<1>2. n \in 0 .. n
  OBVIOUS
<1> QED BY <1>1, <1>2

\* crc16 takes the bytes one by one.
Absorbing(y, bytes, n) ==
  /\ y \in [0 .. n -> Words]
  /\ y[0] = Zero16
  /\ \A k \in 1 .. n : y[k] = Absorbed(y[k - 1], bytes[k])

\* The bytes are those of data from an index on.
Behind(data, from, bytes, size) ==
  \A k \in 1 .. size : bytes[k] \in 0 .. 255 /\ data[from + k - 1] = bytes[k]

\* crc16 takes them.
LEMMA CrcIs ==
  ASSUME NEW data, NEW from \in Nat, NEW size \in Nat, NEW bytes,
         Behind(data, from, bytes, size)
  PROVE  \E y : Absorbing(y, bytes, size) /\ crc16(data, from, size) = Word(y[size])
<1> DEFINE G == [k \in 1 .. size |-> [w \in Words |-> Absorbed(w, bytes[k])]]
           step(f) == [i \in 0 .. size |->
                         IF i = 0 THEN 0 ELSE EightShifts(Xor(f[i - 1], data[from + i - 1] * 256))]
           x == CHOOSE f : f = step(f)
<1>1. \A k \in 1 .. size : G[k] \in [Words -> Words]
  BY AbsorbedIs DEF Behind
<1>2. PICK y : Steps(y, size, Words, Zero16, G)
  <2> HIDE DEF G
  <2>1. Zero16 \in Words
    BY ZeroIs
  <2> QED BY <1>1, <2>1, StepsExist
<1>3. ASSUME NEW k \in 1 .. size
      PROVE  /\ k - 1 \in 0 .. size /\ y[k - 1] \in Words /\ y[k] = Absorbed(y[k - 1], bytes[k])
             /\ Word(y[k]) = EightShifts(Xor(Word(y[k - 1]), data[from + k - 1] * 256))
  <2>1. k - 1 \in 0 .. size /\ y[k - 1] \in Words
    BY <1>2 DEF Steps
  <2>2. y[k] = Absorbed(y[k - 1], bytes[k])
    BY <1>2, <2>1 DEF Steps
  <2>3. bytes[k] \in 0 .. 255 /\ data[from + k - 1] = bytes[k]
    BY DEF Behind
  <2>4. EightShifts(Xor(Word(y[k - 1]), bytes[k] * 256)) = Word(Absorbed(y[k - 1], bytes[k]))
    BY <2>1, <2>3, AbsorbedIs
  <2> QED BY <2>1, <2>2, <2>3, <2>4
<1> DEFINE f == [i \in 0 .. size |-> Word(y[i])]
<1>4. f = step(f)
  <2>1. f[0] = 0
    BY <1>2, ZeroIs DEF Steps
  <2>2. ASSUME NEW i \in 0 .. size, i # 0
        PROVE  f[i] = EightShifts(Xor(f[i - 1], data[from + i - 1] * 256))
    <3>1. i \in 1 .. size
      BY <2>2
    <3>2. f[i] = Word(y[i]) /\ f[i - 1] = Word(y[i - 1])
      BY <1>3, <3>1
    <3> HIDE DEF f
    <3> QED BY <1>3, <3>1, <3>2
  <2>3. \A i \in 0 .. size : f[i] = IF i = 0 THEN 0 ELSE EightShifts(Xor(f[i - 1], data[from + i - 1] * 256))
    BY <2>1, <2>2
  <2>4. f = [i \in 0 .. size |-> f[i]]
    OBVIOUS
  <2> HIDE DEF f
  <2> QED BY <2>3, <2>4
<1>5. x = step(x)
  <2> HIDE DEF f
  <2> QED BY <1>4
<1>6. crc16(data, from, size) = x[size]
  BY DEF crc16
<1> HIDE DEF x
<1>7. x[0] = f[0]
  <2>1. 0 \in 0 .. size
    OBVIOUS
  <2> HIDE DEF f
  <2> QED BY <1>4, <1>5, <2>1
<1>8. ASSUME NEW k \in 1 .. size, x[k - 1] = f[k - 1] PROVE x[k] = f[k]
  <2>1. k \in 0 .. size /\ k # 0
    OBVIOUS
  <2>2. x[k] = EightShifts(Xor(x[k - 1], data[from + k - 1] * 256))
    BY <1>5, <2>1
  <2> HIDE DEF f
  <2>3. f[k] = EightShifts(Xor(f[k - 1], data[from + k - 1] * 256))
    BY <1>4, <2>1
  <2> QED BY <1>8, <2>2, <2>3
<1>9. x[size] = f[size]
  <2> HIDE DEF f
  <2> QED BY <1>7, <1>8, AlikeToTheEnd
<1>10. f[size] = Word(y[size])
  OBVIOUS
<1>11. Absorbing(y, bytes, size)
  BY <1>2, <1>3 DEF Steps, Absorbing
<1> QED BY <1>6, <1>9, <1>10, <1>11

-----------------------------------------------------------------------------
(* The division of polynomials.                                             *)

\* The bits of the bytes, as Divisible takes them.
BitsOf(bytes, n) == [i \in 1 .. n |-> BitAt(bytes[(i - 1) \div 8 + 1], 7 - ((i - 1) % 8))]

\* g[i] is what is left of the bits after i steps of the division.
Dividing(g, bits, n) ==
  /\ g \in [0 .. n - 16 -> [1 .. n -> Binary]]
  /\ g[0] = bits
  /\ \A i \in 1 .. n - 16 : g[i] = Subtract(g[i - 1], i)

\* The other bit at one place.
LEMMA FlipIs ==
  ASSUME NEW n \in Nat, NEW b \in [1 .. n -> Binary], NEW i \in 1 .. n
  PROVE  /\ Flip(b, i) \in [1 .. n -> Binary]
         /\ Flip(b, i)[i] = 1 - b[i]
         /\ \A q \in 1 .. n : q # i => Flip(b, i)[q] = b[q]
<1>1. 1 - b[i] \in Binary
  BY DEF Binary
<1> QED BY <1>1 DEF Flip

\* What a step of the division does to each bit behind the first.
LEMMA SubtractIs ==
  ASSUME NEW n \in Nat, NEW b \in [1 .. n -> Binary], NEW i \in 1 .. n - 16
  PROVE  /\ Subtract(b, i) \in [1 .. n -> Binary]
         /\ \A q \in i + 1 .. n :
              Subtract(b, i)[q] = (b[q] + (IF q - i \in {4, 11, 16} THEN b[i] ELSE 0)) % 2
<1> DEFINE b1 == Flip(b, i)
           b2 == Flip(b1, i + 4)
           b3 == Flip(b2, i + 11)
           b4 == Flip(b3, i + 16)
<1>1. i \in 1 .. n /\ i + 4 \in 1 .. n /\ i + 11 \in 1 .. n /\ i + 16 \in 1 .. n
  OBVIOUS
<1>2. \A x \in Binary : (x + 0) % 2 = x /\ (x + 1) % 2 = 1 - x
  BY DEF Binary
<1>3. b[i] = 0 \/ b[i] = 1
  BY <1>1 DEF Binary
<1>4. CASE b[i] = 0
  <2>1. Subtract(b, i) = b
    BY <1>4 DEF Subtract
  <2>2. ASSUME NEW q \in i + 1 .. n
        PROVE  b[q] = (b[q] + (IF q - i \in {4, 11, 16} THEN b[i] ELSE 0)) % 2
    <3>1. b[q] \in Binary
      BY <1>1
    <3>2. (b[q] + 0) % 2 = b[q]
      BY <1>2, <3>1
    <3> QED BY <1>4, <3>2
  <2> QED BY <2>1, <2>2
<1>5. CASE b[i] = 1
  <2>1. Subtract(b, i) = b4
    BY <1>5 DEF Subtract
  <2>2. b1 \in [1 .. n -> Binary] /\ \A q \in 1 .. n : q # i => b1[q] = b[q]
    BY <1>1, FlipIs
  <2> HIDE DEF b1
  <2>3. /\ b2 \in [1 .. n -> Binary] /\ b2[i + 4] = 1 - b1[i + 4]
        /\ \A q \in 1 .. n : q # i + 4 => b2[q] = b1[q]
    BY <1>1, <2>2, FlipIs
  <2> HIDE DEF b2
  <2>4. /\ b3 \in [1 .. n -> Binary] /\ b3[i + 11] = 1 - b2[i + 11]
        /\ \A q \in 1 .. n : q # i + 11 => b3[q] = b2[q]
    BY <1>1, <2>3, FlipIs
  <2> HIDE DEF b3
  <2>5. /\ b4 \in [1 .. n -> Binary] /\ b4[i + 16] = 1 - b3[i + 16]
        /\ \A q \in 1 .. n : q # i + 16 => b4[q] = b3[q]
    BY <1>1, <2>4, FlipIs
  <2> HIDE DEF b4
  <2>6. ASSUME NEW q \in i + 1 .. n
        PROVE  b4[q] = (b[q] + (IF q - i \in {4, 11, 16} THEN b[i] ELSE 0)) % 2
    <3>1. q \in 1 .. n /\ q # i
      BY <1>1
    <3>2. b[q] \in Binary
      BY <3>1
    <3>3. CASE q - i \in {4, 11, 16}
      <4>1. b4[q] = 1 - b[q]
        <5>1. CASE q = i + 4
          <6>1. q # i + 11 /\ q # i + 16
            BY <1>1, <5>1
          <6> QED BY <2>2, <2>3, <2>4, <2>5, <3>1, <5>1, <6>1
        <5>2. CASE q = i + 11
          <6>1. q # i + 4 /\ q # i + 16
            BY <1>1, <5>2
          <6> QED BY <2>2, <2>3, <2>4, <2>5, <3>1, <5>2, <6>1
        <5>3. CASE q = i + 16
          <6>1. q # i + 4 /\ q # i + 11
            BY <1>1, <5>3
          <6> QED BY <2>2, <2>3, <2>4, <2>5, <3>1, <5>3, <6>1
        <5> QED BY <3>1, <3>3, <5>1, <5>2, <5>3
      <4>2. (b[q] + 1) % 2 = 1 - b[q]
        BY <1>2, <3>2
      <4> QED BY <1>5, <3>3, <4>1, <4>2
    <3>4. CASE q - i \notin {4, 11, 16}
      <4>1. q # i + 4 /\ q # i + 11 /\ q # i + 16
        BY <3>1, <3>4
      <4>2. b4[q] = b[q]
        BY <2>2, <2>3, <2>4, <2>5, <3>1, <4>1
      <4>3. (b[q] + 0) % 2 = b[q]
        BY <1>2, <3>2
      <4> QED BY <3>4, <4>2, <4>3
    <3> QED BY <3>3, <3>4
  <2> QED BY <2>1, <2>5, <2>6
<1> QED BY <1>3, <1>4, <1>5

\* Bytes are divisible if the division leaves sixteen times 0.
LEMMA DivisibleIs ==
  ASSUME NEW bytes, NEW n \in Nat, n = 8 * Len(bytes), n >= 16,
         BitsOf(bytes, n) \in [1 .. n -> Binary]
  PROVE  \E g : /\ Dividing(g, BitsOf(bytes, n), n)
                /\ (\A i \in n - 15 .. n : g[n - 16][i] = 0) => Divisible(bytes)
<1> DEFINE bits == BitsOf(bytes, n)
           N == n - 16
           S == [1 .. n -> Binary]
           G == [k \in 1 .. N |-> [b \in S |-> Subtract(b, k)]]
           step(f) == [i \in 0 .. N |-> IF i = 0 THEN bits ELSE Subtract(f[i - 1], i)]
           x == CHOOSE f : f = step(f)
<1>1. N \in Nat
  OBVIOUS
<1>2. \A k \in 1 .. N : G[k] \in [S -> S]
  <2>1. ASSUME NEW k \in 1 .. N, NEW b \in S PROVE Subtract(b, k) \in S
    BY SubtractIs
  <2> HIDE DEF S, N
  <2> QED BY <2>1
<1>3. PICK g : Steps(g, N, S, bits, G)
  <2> HIDE DEF G, N, S, bits
  <2>1. bits \in S
    BY DEF bits, S
  <2> QED BY <1>1, <1>2, <2>1, StepsExist
<1>4. ASSUME NEW i \in 1 .. N
      PROVE  i - 1 \in 0 .. N /\ g[i] = Subtract(g[i - 1], i)
  <2> HIDE DEF S, N
  <2>1. i - 1 \in 0 .. N
    BY <1>1
  <2>2. g[i - 1] \in S
    BY <1>3, <2>1 DEF Steps
  <2>3. g[i] = G[i][g[i - 1]]
    BY <1>3 DEF Steps
  <2> QED BY <2>1, <2>2, <2>3
<1>5. g = step(g)
  <2>1. \A i \in 0 .. N : g[i] = IF i = 0 THEN bits ELSE Subtract(g[i - 1], i)
    <3> HIDE DEF N, S, G, bits
    <3>1. ASSUME NEW i \in 0 .. N, i # 0 PROVE g[i] = Subtract(g[i - 1], i)
      <4>1. i \in 1 .. N
        BY <1>1, <3>1
      <4> QED BY <1>4, <4>1
    <3> QED BY <1>3, <3>1 DEF Steps
  <2>2. g = [i \in 0 .. N |-> g[i]]
    BY <1>3 DEF Steps
  <2> HIDE DEF N, bits
  <2> QED BY <2>1, <2>2
<1>6. x = step(x)
  BY <1>5
<1>7. Divisible(bytes) <=> \A i \in n - 15 .. n : x[n - 16][i] = 0
  BY DEF Divisible, BitsOf
<1> HIDE DEF x
<1>8. x[N] = g[N]
  <2> HIDE DEF N, S, G, bits
  <2>1. 0 \in 0 .. N
    BY <1>1
  <2>2. x[0] = bits /\ g[0] = bits
    BY <1>3, <1>6, <2>1 DEF Steps
  <2>3. ASSUME NEW i \in 1 .. N, x[i - 1] = g[i - 1] PROVE x[i] = g[i]
    <3>1. i \in 0 .. N /\ i # 0
      BY <1>1
    <3>2. x[i] = Subtract(x[i - 1], i)
      BY <1>6, <3>1
    <3> QED BY <1>4, <2>3, <3>2
  <2> QED BY <1>1, <2>2, <2>3, AlikeToTheEnd
<1>9. Dividing(g, bits, n)
  BY <1>3, <1>4 DEF Steps, Dividing
<1> QED BY <1>7, <1>8, <1>9

\* b is what i steps of the division of bits leave, and w the 16 bits that crc16 has after
\* taking m bits and shifting i times.
Agree(b, i, m, w, bits, n) ==
  \A q \in i + 1 .. n :
    b[q] = ((IF q <= i + 16 THEN w[q - i] ELSE 0) + (IF q > m THEN bits[q] ELSE 0)) % 2

\* Three bits.
LEMMA BitsCommute ==
  ASSUME NEW a \in Binary, NEW b \in Binary, NEW c \in Binary
  PROVE  (((a + b) % 2) + c) % 2 = (((a + c) % 2) + b) % 2
<1>1. (a + b) % 2 = (IF a = b THEN 0 ELSE 1) /\ (a + b) % 2 \in Binary
  BY BitSum
<1>2. (a + c) % 2 = (IF a = c THEN 0 ELSE 1) /\ (a + c) % 2 \in Binary
  BY BitSum
<1>3. (((a + b) % 2) + c) % 2 = IF (a + b) % 2 = c THEN 0 ELSE 1
  BY <1>1, BitSum
<1>4. (((a + c) % 2) + b) % 2 = IF (a + c) % 2 = b THEN 0 ELSE 1
  BY <1>2, BitSum
<1> DEFINE x == (a + b) % 2
           y == (a + c) % 2
<1>5. x = (IF a = b THEN 0 ELSE 1) /\ y = (IF a = c THEN 0 ELSE 1)
  BY <1>1, <1>2
<1>6. (x = c) <=> (y = b)
  <2> HIDE DEF x, y
  <2> QED BY <1>5 DEF Binary
<1> QED BY <1>3, <1>4, <1>6

\* One step of the division is one shift of crc16.
LEMMA AgreeStep ==
  ASSUME NEW n \in Nat, NEW b \in [1 .. n -> Binary], NEW bits \in [1 .. n -> Binary],
         NEW w \in Words, NEW i \in Nat, NEW m \in Nat, i < m, i + 17 <= n,
         Agree(b, i, m, w, bits, n)
  PROVE  Agree(Subtract(b, i + 1), i + 1, m, Divided(w), bits, n)
<1> DEFINE j == i + 1
           c == Subtract(b, j)
           d == Divided(w)
<1>1. j \in Nat /\ j \in 1 .. n - 16 /\ j <= m
  OBVIOUS
<1>2. w[1] \in Binary /\ Up(w) \in Words
  BY UpIs DEF Words
<1>3. b[j] = w[1]
  <2>1. j \in i + 1 .. n /\ j <= i + 16 /\ j - i = 1 /\ ~(j > m)
    BY <1>1
  <2>2. b[j] = (w[1] + 0) % 2
    BY <2>1 DEF Agree
  <2> QED BY <1>2, <2>2 DEF Binary
<1>4. ASSUME NEW q \in j + 1 .. n
      PROVE  c[q] = ((IF q <= j + 16 THEN d[q - j] ELSE 0) + (IF q > m THEN bits[q] ELSE 0)) % 2
  <2> DEFINE z == IF q > m THEN bits[q] ELSE 0
             y == IF q - j \in {4, 11, 16} THEN w[1] ELSE 0
             x == IF q <= i + 16 THEN w[q - i] ELSE 0
  <2>1. q \in i + 1 .. n /\ q \in 1 .. n /\ q - j = (q - i) - 1 /\ q - j \in Nat /\ q - j >= 1
    BY <1>1
  <2>2. z \in Binary /\ y \in Binary
    BY <1>2, <2>1 DEF Binary
  <2>3. x \in Binary
    <3>1. CASE q <= i + 16
      <4>1. q - i \in 1 .. 16
        BY <2>1, <3>1
      <4> QED BY <3>1, <4>1 DEF Words
    <3>2. CASE ~(q <= i + 16)
      BY <3>2 DEF Binary
    <3> QED BY <3>1, <3>2
  <2>4. b[q] = (x + z) % 2
    BY <2>1 DEF Agree
  <2>5. c[q] = (b[q] + y) % 2
    BY <1>1, <1>3, SubtractIs
  <2>6. c[q] = (((x + y) % 2) + z) % 2
    <3> HIDE DEF x, y, z, c
    <3> QED BY <2>2, <2>3, <2>4, <2>5, BitsCommute
  <2>7. (x + y) % 2 = IF q <= j + 16 THEN d[q - j] ELSE 0
    <3>1. CASE q <= j + 16
      <4> DEFINE t == q - j
      <4>1. t \in 1 .. 16
        BY <2>1, <3>1
      <4>2. d[t] = (Up(w)[t] + (IF t \in {4, 11, 16} THEN w[1] ELSE 0)) % 2
        BY <4>1 DEF Divided
      <4>3. Up(w)[t] = IF t = 16 THEN 0 ELSE w[t + 1]
        BY <4>1 DEF Up
      <4>4. t = 16 <=> ~(q <= i + 16)
        BY <2>1, <3>1
      <4>5. t + 1 = q - i
        BY <2>1
      <4>6. x = Up(w)[t]
        BY <4>3, <4>4, <4>5
      <4> QED BY <3>1, <4>2, <4>6
    <3>2. CASE ~(q <= j + 16)
      <4>1. ~(q <= i + 16) /\ q - j \notin {4, 11, 16}
        BY <1>1, <3>2
      <4>2. x = 0 /\ y = 0
        BY <4>1
      <4> QED BY <3>2, <4>2
    <3> QED BY <3>1, <3>2
  <2> QED BY <2>6, <2>7
<1> QED BY <1>4 DEF Agree

\* Taking the next byte.
LEMMA AgreeTake ==
  ASSUME NEW n \in Nat, NEW b, NEW bits \in [1 .. n -> Binary], NEW w \in Words,
         NEW i \in Nat, i + 8 <= n, NEW x \in 0 .. 255,
         \A t \in 1 .. 8 : bits[i + t] = BitAt(x, 8 - t),
         Agree(b, i, i, w, bits, n)
  PROVE  Agree(b, i, i + 8, Both(w, Front(x)), bits, n)
<1> DEFINE v == Both(w, Front(x))
<1>1. ASSUME NEW q \in i + 1 .. n
      PROVE  b[q] = ((IF q <= i + 16 THEN v[q - i] ELSE 0) + (IF q > i + 8 THEN bits[q] ELSE 0)) % 2
  <2>1. b[q] = ((IF q <= i + 16 THEN w[q - i] ELSE 0) + bits[q]) % 2
    <3>1. q > i
      OBVIOUS
    <3> QED BY <3>1 DEF Agree
  <2> DEFINE t == q - i
  <2>2. t \in Nat /\ t >= 1 /\ q = i + t /\ q \in 1 .. n
    OBVIOUS
  <2>3. CASE q <= i + 8
    <3>1. t \in 1 .. 8 /\ t \in 1 .. 16 /\ q <= i + 16 /\ ~(q > i + 8)
      BY <2>2, <2>3
    <3>2. Front(x)[t] = BitAt(x, 8 - t)
      BY <3>1 DEF Front
    <3>3. bits[q] = Front(x)[t]
      BY <2>2, <3>1, <3>2
    <3>4. v[t] = (w[t] + bits[q]) % 2
      BY <3>1, <3>3 DEF Both
    <3>5. v[t] \in Binary
      <4>1. Front(x) \in Words
        BY FrontIs
      <4>2. v \in Words
        BY <4>1, BothType
      <4> HIDE DEF v
      <4> QED BY <3>1, <4>2 DEF Words
    <3>6. (v[t] + 0) % 2 = v[t]
      BY <3>5 DEF Binary
    <3> QED BY <2>1, <3>1, <3>4, <3>6
  <2>4. CASE ~(q <= i + 8)
    <3>1. q > i + 8
      BY <2>2, <2>4
    <3>2. CASE q <= i + 16
      <4>1. t \in 1 .. 16 /\ ~(t <= 8)
        BY <2>2, <3>1, <3>2
      <4>2. Front(x)[t] = 0 /\ w[t] \in Binary
        BY <4>1 DEF Front, Words
      <4>3. v[t] = (w[t] + 0) % 2
        BY <4>1, <4>2 DEF Both
      <4>4. v[t] = w[t]
        BY <4>2, <4>3 DEF Binary
      <4> QED BY <2>1, <3>1, <3>2, <4>4
    <3>3. CASE ~(q <= i + 16)
      BY <2>1, <3>1, <3>3
    <3> QED BY <3>2, <3>3
  <2> QED BY <2>3, <2>4
<1> QED BY <1>1 DEF Agree

\* One byte of crc16 is eight steps of the division.
LEMMA AgreeByte ==
  ASSUME NEW n \in Nat, NEW bits \in [1 .. n -> Binary], NEW g, Dividing(g, bits, n),
         NEW w \in Words, NEW i \in Nat, i + 24 <= n, NEW x \in 0 .. 255,
         \A t \in 1 .. 8 : bits[i + t] = BitAt(x, 8 - t),
         Agree(g[i], i, i, w, bits, n)
  PROVE  Agree(g[i + 8], i + 8, i + 8, Absorbed(w, x), bits, n)
<1> DEFINE w0 == Both(w, Front(x))
           w1 == Divided(w0)
           w2 == Divided(w1)
           w3 == Divided(w2)
           w4 == Divided(w3)
           w5 == Divided(w4)
           w6 == Divided(w5)
           w7 == Divided(w6)
           w8 == Divided(w7)
           m == i + 8
<1>1. w0 \in Words /\ Agree(g[i], i, m, w0, bits, n)
  <2>1. Front(x) \in Words
    BY FrontIs
  <2>2. w0 \in Words
    BY <2>1, BothType
  <2>3. i + 8 <= n
    OBVIOUS
  <2>4. Agree(g[i], i, i + 8, Both(w, Front(x)), bits, n)
    BY <2>3, AgreeTake
  <2> QED BY <2>2, <2>4
<1>2. Absorbed(w, x) = w8
  BY DEF Absorbed
<1>3. m \in Nat
  OBVIOUS
<1>4. ASSUME NEW v \in Words, NEW k \in i .. i + 7, Agree(g[k], k, m, v, bits, n)
      PROVE  Divided(v) \in Words /\ Agree(g[k + 1], k + 1, m, Divided(v), bits, n)
  <2>1. k \in Nat /\ k < m /\ k + 17 <= n /\ k \in 0 .. n - 16 /\ k + 1 \in 1 .. n - 16
        /\ (k + 1) - 1 = k
    OBVIOUS
  <2>2. g[k] \in [1 .. n -> Binary] /\ g[k + 1] = Subtract(g[k], k + 1)
    BY <2>1 DEF Dividing
  <2> HIDE DEF m
  <2>3. Agree(Subtract(g[k], k + 1), k + 1, m, Divided(v), bits, n)
    BY <1>3, <1>4, <2>1, <2>2, AgreeStep
  <2> QED BY <2>2, <2>3, ShiftedIs
<1> HIDE DEF w0, m
<1>5. w1 \in Words /\ Agree(g[i + 1], i + 1, m, w1, bits, n)
  BY <1>1, <1>4
<1> HIDE DEF w1
<1>6. w2 \in Words /\ Agree(g[i + 2], i + 2, m, w2, bits, n)
  <2>1. i + 1 \in i .. i + 7 /\ (i + 1) + 1 = i + 2
    OBVIOUS
  <2> QED BY <1>4, <1>5, <2>1
<1> HIDE DEF w2
<1>7. w3 \in Words /\ Agree(g[i + 3], i + 3, m, w3, bits, n)
  <2>1. i + 2 \in i .. i + 7 /\ (i + 2) + 1 = i + 3
    OBVIOUS
  <2> QED BY <1>4, <1>6, <2>1
<1> HIDE DEF w3
<1>8. w4 \in Words /\ Agree(g[i + 4], i + 4, m, w4, bits, n)
  <2>1. i + 3 \in i .. i + 7 /\ (i + 3) + 1 = i + 4
    OBVIOUS
  <2> QED BY <1>4, <1>7, <2>1
<1> HIDE DEF w4
<1>9. w5 \in Words /\ Agree(g[i + 5], i + 5, m, w5, bits, n)
  <2>1. i + 4 \in i .. i + 7 /\ (i + 4) + 1 = i + 5
    OBVIOUS
  <2> QED BY <1>4, <1>8, <2>1
<1> HIDE DEF w5
<1>10. w6 \in Words /\ Agree(g[i + 6], i + 6, m, w6, bits, n)
  <2>1. i + 5 \in i .. i + 7 /\ (i + 5) + 1 = i + 6
    OBVIOUS
  <2> QED BY <1>4, <1>9, <2>1
<1> HIDE DEF w6
<1>11. w7 \in Words /\ Agree(g[i + 7], i + 7, m, w7, bits, n)
  <2>1. i + 6 \in i .. i + 7 /\ (i + 6) + 1 = i + 7
    OBVIOUS
  <2> QED BY <1>4, <1>10, <2>1
<1> HIDE DEF w7
<1>12. w8 \in Words /\ Agree(g[i + 8], i + 8, m, w8, bits, n)
  <2>1. i + 7 \in i .. i + 7 /\ (i + 7) + 1 = i + 8
    OBVIOUS
  <2> QED BY <1>4, <1>11, <2>1
<1> QED BY <1>2, <1>12 DEF m

\* A number below 8 times L, and 8 times a number below L.
LEMMA EightTimes ==
  ASSUME NEW L \in Nat, NEW k \in 1 .. L, NEW t \in 1 .. 8
  PROVE  /\ 8 * (k - 1) + t \in 1 .. 8 * L
         /\ (8 * (k - 1) + t - 1) \div 8 + 1 = k
         /\ (8 * (k - 1) + t - 1) % 8 = t - 1
  OBVIOUS

\* "The CRC is in the last two bytes, the higher first": the remainder is then 0.
LEMMA CrcDivides ==
  ASSUME NEW L \in Nat, NEW bytes, Len(bytes) = L + 2,
         \A k \in 1 .. L + 2 : bytes[k] \in 0 .. 255,
         NEW y, Absorbing(y, bytes, L),
         bytes[L + 1] = Octet(y[L], 0), bytes[L + 2] = Octet(y[L], 8)
  PROVE  Divisible(bytes)
<1> DEFINE n == 8 * (L + 2)
           bits == BitsOf(bytes, n)
<1>1. n \in Nat /\ n >= 16 /\ n - 16 = 8 * L /\ n = 8 * Len(bytes)
  OBVIOUS
<1>2. ASSUME NEW k \in 1 .. L + 2
      PROVE  /\ bytes[k] \in 0 .. 255
             /\ \A t \in 1 .. 8 : 8 * (k - 1) + t \in 1 .. n
                                  /\ bits[8 * (k - 1) + t] = BitAt(bytes[k], 8 - t)
  <2>1. ASSUME NEW t \in 1 .. 8
        PROVE  8 * (k - 1) + t \in 1 .. n /\ bits[8 * (k - 1) + t] = BitAt(bytes[k], 8 - t)
    <3> DEFINE i == 8 * (k - 1) + t
    <3>1. L + 2 \in Nat
      OBVIOUS
    <3>2. i \in 1 .. 8 * (L + 2) /\ (i - 1) \div 8 + 1 = k /\ (i - 1) % 8 = t - 1
      <4> DEFINE m == L + 2
      <4>1. m \in Nat /\ k \in 1 .. m
        BY <3>1
      <4>2. i \in 1 .. 8 * m /\ (i - 1) \div 8 + 1 = k /\ (i - 1) % 8 = t - 1
        <5> HIDE DEF m
        <5> QED BY <4>1, EightTimes
      <4> QED BY <4>2
    <3>3. bits[i] = BitAt(bytes[(i - 1) \div 8 + 1], 7 - ((i - 1) % 8))
      BY <3>2 DEF BitsOf
    <3>4. 7 - (t - 1) = 8 - t
      OBVIOUS
    <3> HIDE DEF i, bits
    <3>5. i \in 1 .. n /\ bits[i] = BitAt(bytes[k], 8 - t)
      BY <3>2, <3>3, <3>4
    <3> QED BY <3>5 DEF i
  <2>2. bytes[k] \in 0 .. 255
    OBVIOUS
  <2> QED BY <2>1, <2>2
<1>3. bits \in [1 .. n -> Binary]
  <2>1. ASSUME NEW i \in 1 .. n
        PROVE  BitAt(bytes[(i - 1) \div 8 + 1], 7 - ((i - 1) % 8)) \in Binary
    <3> DEFINE k == (i - 1) \div 8 + 1
               t == 7 - ((i - 1) % 8)
    <3>1. k \in 1 .. L + 2 /\ t \in 0 .. 7
      OBVIOUS
    <3>2. bytes[k] \in 0 .. 255
      BY <1>2, <3>1
    <3> HIDE DEF k, t
    <3> QED BY <3>1, <3>2, ByteOfBits DEF k, t
  <2> QED BY <2>1 DEF BitsOf
<1> HIDE DEF n, bits
<1>4. PICK g : Dividing(g, bits, n)
               /\ ((\A i \in n - 15 .. n : g[n - 16][i] = 0) => Divisible(bytes))
  BY <1>1, <1>3, DivisibleIs DEF bits
<1> DEFINE Bad == {k \in 0 .. L : ~Agree(g[8 * k], 8 * k, 8 * k, y[k], bits, n)}
<1>5. Bad = {}
  <2> SUFFICES ASSUME Bad # {} PROVE FALSE
    OBVIOUS
  <2>1. Bad \subseteq Nat
    OBVIOUS
  <2>2. PICK k \in Bad : \A j \in Bad : k <= j
    <3> HIDE DEF Bad
    <3> QED BY <2>1, SmallestExists
  <2>3. k \in 0 .. L /\ ~Agree(g[8 * k], 8 * k, 8 * k, y[k], bits, n)
    BY <2>2
  <2>4. k # 0
    <3>1. Agree(bits, 0, 0, Zero16, bits, n)
      <4>1. ASSUME NEW q \in 0 + 1 .. n
            PROVE  bits[q] = ((IF q <= 0 + 16 THEN Zero16[q - 0] ELSE 0)
                              + (IF q > 0 THEN bits[q] ELSE 0)) % 2
        <5>1. bits[q] \in Binary /\ q \in Nat /\ q > 0 /\ q - 0 = q
          BY <1>1, <1>3
        <5>2. (IF q <= 0 + 16 THEN Zero16[q - 0] ELSE 0) = 0
          BY <5>1 DEF Zero16
        <5>3. bits[q] = (0 + bits[q]) % 2
          BY <5>1 DEF Binary
        <5> QED BY <5>1, <5>2, <5>3
      <4> QED BY <4>1 DEF Agree
    <3>2. g[0] = bits /\ y[0] = Zero16 /\ 8 * 0 = 0
      BY <1>4 DEF Dividing, Absorbing
    <3> QED BY <2>3, <3>1, <3>2
  <2> DEFINE j == k - 1
             i == 8 * j
  <2>5. /\ j \in 0 .. L /\ k \in 1 .. L /\ j \notin Bad /\ i \in Nat /\ i + 8 = 8 * k
        /\ i + 24 <= n
    <3> HIDE DEF Bad
    <3>1. j \in 0 .. L /\ k \in 1 .. L /\ ~(k <= j)
      BY <2>3, <2>4
    <3>2. i \in Nat /\ i + 8 = 8 * k /\ i <= 8 * (L - 1)
      BY <3>1
    <3>3. n = 8 * L + 16
      BY DEF n
    <3> QED BY <2>2, <3>1, <3>2, <3>3
  <2>6. Agree(g[i], i, i, y[j], bits, n)
    BY <2>5
  <2>7. /\ y[j] \in Words /\ y[k] = Absorbed(y[j], bytes[k])
    BY <2>5 DEF Absorbing
  <2>8. bytes[k] \in 0 .. 255 /\ \A t \in 1 .. 8 : bits[i + t] = BitAt(bytes[k], 8 - t)
    <3>1. k \in 1 .. L + 2
      BY <2>5
    <3> QED BY <1>2, <3>1
  <2> HIDE DEF i, j, Bad
  <2>9. Agree(g[i + 8], i + 8, i + 8, Absorbed(y[j], bytes[k]), bits, n)
    BY <1>1, <1>3, <1>4, <2>5, <2>6, <2>7, <2>8, AgreeByte
  <2> QED BY <2>3, <2>5, <2>7, <2>9
<1>6. Agree(g[8 * L], 8 * L, 8 * L, y[L], bits, n)
  <2>1. L \in 0 .. L
    OBVIOUS
  <2> QED BY <1>5, <2>1
<1> DEFINE w == y[L]
           N == 8 * L
<1>7. w \in Words
  BY DEF Absorbing
<1>8. ASSUME NEW t \in 1 .. 16 PROVE N + t \in 1 .. n /\ bits[N + t] = w[t]
  <2>1. CASE t <= 8
    <3>1. t \in 1 .. 8 /\ L + 1 \in 1 .. L + 2 /\ 8 * ((L + 1) - 1) = N /\ 8 - t \in 0 .. 7
          /\ 0 + 8 - (8 - t) = t
      BY <2>1
    <3>2. N + t \in 1 .. n /\ bits[N + t] = BitAt(Octet(w, 0), 8 - t)
      BY <1>2, <3>1
    <3> HIDE DEF w, N
    <3> QED BY <1>7, <3>1, <3>2, OctetBits
  <2>2. CASE ~(t <= 8)
    <3> DEFINE s == t - 8
    <3>1. s \in 1 .. 8 /\ L + 2 \in 1 .. L + 2 /\ 8 * ((L + 2) - 1) + s = N + t /\ 8 - s \in 0 .. 7
          /\ 8 + 8 - (8 - s) = t
      BY <2>2
    <3>2. N + t \in 1 .. n /\ bits[N + t] = BitAt(Octet(w, 8), 8 - s)
      BY <1>2, <3>1
    <3> HIDE DEF w, N, s
    <3> QED BY <1>7, <3>1, <3>2, OctetBits
  <2> QED BY <2>1, <2>2
<1>9. ASSUME NEW q \in n - 15 .. n PROVE g[n - 16][q] = 0
  <2> DEFINE t == q - N
  <2>1. t \in 1 .. 16 /\ q = N + t /\ q \in N + 1 .. n /\ q <= N + 16 /\ q > N /\ n - 16 = N
    BY <1>1
  <2>2. g[N][q] = (w[t] + bits[q]) % 2
    <3> HIDE DEF w
    <3>1. Agree(g[N], N, N, w, bits, n)
      BY <1>6 DEF w
    <3> HIDE DEF N
    <3> QED BY <2>1, <3>1 DEF Agree
  <2>3. bits[q] = w[t] /\ w[t] \in Binary
    <3> HIDE DEF w, N
    <3> QED BY <1>7, <1>8, <2>1 DEF Words
  <2>4. (w[t] + w[t]) % 2 = 0
    BY <2>3 DEF Binary
  <2> QED BY <2>1, <2>2, <2>3, <2>4
<1> QED BY <1>4, <1>9

\* The two bytes of a CRC, the lower first.
LEMMA CrcBytes ==
  ASSUME NEW w \in Words
  PROVE  Bytes(Word(w), 2)[1] = Octet(w, 8) /\ Bytes(Word(w), 2)[2] = Octet(w, 0)
<1> DEFINE h == Octet(w, 0)
           c == Word(w)
<1>1. c \in Int /\ c \div 256 = h /\ c % 256 = Octet(w, 8) /\ h \in 0 .. 255
  BY WordBytes, OctetBits DEF Sixteen
<1> HIDE DEF h, c
<1>2. c \div 1 = c
  BY <1>1
<1>3. h % 256 = h
  BY <1>1
<1>4. Bytes(c, 2)[1] = (c \div 1) % 256 /\ Bytes(c, 2)[2] = (c \div 256) % 256
  BY DEF Bytes, Places
<1> QED BY <1>1, <1>2, <1>3, <1>4 DEF h, c

\* A part of the packet that ends with the CRC of what is before it, lower byte first,
\* divides without remainder once the device has put the higher byte first.
THEOREM PartDivides ==
  ASSUME NEW p, NEW data, NEW from \in Nat, NEW size \in Nat,
         \A i \in from .. from + size - 1 : p[i] \in 0 .. 255 /\ data[i] = p[i],
         p[from + size] = Bytes(crc16(data, from, size), 2)[1],
         p[from + size + 1] = Bytes(crc16(data, from, size), 2)[2]
  PROVE  Divisible(Part(p, from, from + size + 1))
<1> DEFINE b == from + size + 1
           bytes == Part(p, from, b)
<1>1. bytes = [k \in 1 .. size + 2 |->
                 p[IF from + k - 1 = b - 1 THEN b ELSE IF from + k - 1 = b THEN b - 1 ELSE from + k - 1]]
  <2>1. b - from + 1 = size + 2
    OBVIOUS
  <2> HIDE DEF b
  <2> QED BY <2>1 DEF Part
<1>2. ASSUME NEW k \in 1 .. size
      PROVE  bytes[k] = p[from + k - 1] /\ bytes[k] \in 0 .. 255 /\ data[from + k - 1] = bytes[k]
  <2>1. k \in 1 .. size + 2 /\ from + k - 1 # b - 1 /\ from + k - 1 # b
        /\ from + k - 1 \in from .. from + size - 1
    OBVIOUS
  <2> HIDE DEF bytes, b
  <2>2. bytes[k] = p[from + k - 1]
    BY <1>1, <2>1
  <2> QED BY <2>1, <2>2
<1>3. bytes[size + 1] = p[from + size + 1] /\ bytes[size + 2] = p[from + size]
  <2>1. /\ size + 1 \in 1 .. size + 2 /\ from + (size + 1) - 1 = b - 1
        /\ size + 2 \in 1 .. size + 2 /\ from + (size + 2) - 1 # b - 1
        /\ from + (size + 2) - 1 = b /\ b - 1 = from + size
    OBVIOUS
  <2> HIDE DEF bytes
  <2>2. bytes[size + 1] = p[b]
    <3> HIDE DEF b
    <3> QED BY <1>1, <2>1
  <2>3. bytes[size + 2] = p[b - 1]
    <3> HIDE DEF b
    <3> QED BY <1>1, <2>1
  <2> QED BY <2>1, <2>2, <2>3
<1>4. Len(bytes) = size + 2
  <2>1. size + 2 \in Nat
    OBVIOUS
  <2> HIDE DEF bytes
  <2> QED BY <1>1, <2>1
<1> HIDE DEF bytes, b
<1>5. PICK y : Absorbing(y, bytes, size) /\ crc16(data, from, size) = Word(y[size])
  <2>1. Behind(data, from, bytes, size)
    BY <1>2 DEF Behind
  <2>2. \E y : Absorbing(y, bytes, size) /\ crc16(data, from, size) = Word(y[size])
    BY <2>1, CrcIs
  <2> QED BY <2>2
<1>6. y[size] \in Words
  BY <1>5 DEF Absorbing
<1>7. bytes[size + 1] = Octet(y[size], 0) /\ bytes[size + 2] = Octet(y[size], 8)
  BY <1>3, <1>5, <1>6, CrcBytes
<1>8. ASSUME NEW k \in 1 .. size + 2 PROVE bytes[k] \in 0 .. 255
  <2>1. k \in 1 .. size \/ k = size + 1 \/ k = size + 2
    OBVIOUS
  <2>2. Octet(y[size], 0) \in 0 .. 255 /\ Octet(y[size], 8) \in 0 .. 255
    BY <1>6, OctetBits
  <2> QED BY <1>2, <1>7, <2>1, <2>2
<1>9. Divisible(bytes)
  BY <1>4, <1>5, <1>7, <1>8, CrcDivides
<1> QED BY <1>9 DEF bytes, b

-----------------------------------------------------------------------------
(* The bytes of the packet.                                                 *)

\* Powers of two.
K16 == 65536
K24 == 16777216
K32 == 4294967296
Half == 8388608

\* A byte and what is above it.
LEMMA LowByte ==
  ASSUME NEW x \in Int
  PROVE  x \div 256 \in Int /\ x % 256 \in 0 .. 255 /\ x = 256 * (x \div 256) + (x % 256)
<1>1. 256 \in Nat \ {0}
  OBVIOUS
<1>2. x \div 256 \in Int /\ x % 256 \in Int /\ x = 256 * (x \div 256) + (x % 256)
         /\ 0 <= x % 256 /\ x % 256 < 256
  BY <1>1, DivMod
<1>3. x % 256 \in 0 .. 255
  BY SMT, <1>2
<1> QED BY Zenon, <1>2, <1>3

\* The bytes of a number, one above the other.
LEMMA BytesAre ==
  ASSUME NEW x \in Int
  PROVE  /\ \A n \in 2 .. 4 : \A k \in 1 .. n : Bytes(x, n)[k] \in 0 .. 255
         /\ \E q \in Int : x = Bytes(x, 3)[1] + 256 * Bytes(x, 3)[2] + K16 * Bytes(x, 3)[3]
                               + K24 * q
         /\ \E q \in Int : x = Bytes(x, 4)[1] + 256 * Bytes(x, 4)[2] + K16 * Bytes(x, 4)[3]
                               + K24 * Bytes(x, 4)[4] + K32 * q
<1> DEFINE q1 == x \div 256
           q2 == x \div K16
           q3 == x \div K24
           q4 == q3 \div 256
           b1 == x % 256
           b2 == q1 % 256
           b3 == q2 % 256
           b4 == q3 % 256
<1>1. q1 \in Int /\ q2 \in Int /\ q3 \in Int
  BY SMT DEF K16, K24
<1>2. q2 = q1 \div 256
  BY SMT DEF K16
<1>3. q3 = q2 \div 256
  BY SMT DEF K16, K24
<1>4. \A n \in 2 .. 4 : \A k \in 1 .. n : Bytes(x, n)[k] = (x \div Places[k]) % 256
  BY DEF Bytes
<1>5. Places[1] = 1 /\ Places[2] = 256 /\ Places[3] = K16 /\ Places[4] = K24
  BY SMT DEF Places, K16, K24
<1>6. x \div 1 = x
  OBVIOUS
<1>7. \A n \in 2 .. 4 : \A k \in 1 .. n : k = 1 \/ k = 2 \/ k = 3 \/ k = 4
  OBVIOUS
<1>8. \A n \in 2 .. 4 : \A k \in 1 .. n :
        Bytes(x, n)[k] = IF k = 1 THEN b1 ELSE IF k = 2 THEN b2 ELSE IF k = 3 THEN b3 ELSE b4
  <2>1. /\ (x \div Places[1]) % 256 = b1 /\ (x \div Places[2]) % 256 = b2
        /\ (x \div Places[3]) % 256 = b3 /\ (x \div Places[4]) % 256 = b4
    BY Zenon, <1>5, <1>6
  <2> HIDE DEF b1, b2, b3, b4
  <2> QED BY SMT, <1>4, <1>7, <2>1
<1>9. q1 = 256 * q2 + b2 /\ b2 \in 0 .. 255
  BY <1>1, <1>2, LowByte
<1>10. q2 = 256 * q3 + b3 /\ b3 \in 0 .. 255
  BY <1>1, <1>3, LowByte
<1>11. q3 = 256 * q4 + b4 /\ b4 \in 0 .. 255 /\ q4 \in Int
  BY <1>1, LowByte
<1>12. x = 256 * q1 + b1 /\ b1 \in 0 .. 255
  BY LowByte
<1> HIDE DEF q1, q2, q3, q4, b1, b2, b3, b4
<1>13. /\ x = b1 + 256 * b2 + K16 * b3 + K24 * q3
       /\ x = b1 + 256 * b2 + K16 * b3 + K24 * b4 + K32 * q4
  BY SMT, <1>1, <1>9, <1>10, <1>11, <1>12 DEF K16, K24, K32
<1>14. /\ Bytes(x, 3)[1] = b1 /\ Bytes(x, 3)[2] = b2 /\ Bytes(x, 3)[3] = b3
       /\ Bytes(x, 4)[1] = b1 /\ Bytes(x, 4)[2] = b2 /\ Bytes(x, 4)[3] = b3
       /\ Bytes(x, 4)[4] = b4
  BY SMT, <1>8
<1>15. \A n \in 2 .. 4 : \A k \in 1 .. n : Bytes(x, n)[k] \in 0 .. 255
  BY <1>8, <1>9, <1>10, <1>11, <1>12
<1>16. /\ x = Bytes(x, 3)[1] + 256 * Bytes(x, 3)[2] + K16 * Bytes(x, 3)[3] + K24 * q3
       /\ x = Bytes(x, 4)[1] + 256 * Bytes(x, 4)[2] + K16 * Bytes(x, 4)[3]
              + K24 * Bytes(x, 4)[4] + K32 * q4
  BY SMT, <1>13, <1>14
<1> QED BY <1>1, <1>11, <1>15, <1>16

\* Four bytes of the packet give back the number they were made of.
LEMMA TimeBack ==
  ASSUME NEW p, NEW at \in Nat, NEW x \in Nat, x < K32,
         \A k \in 1 .. 4 : p[at + k - 1] = Bytes(x, 4)[k]
  PROVE  Unsigned(p, at, 4) = x
<1> DEFINE b1 == Bytes(x, 4)[1]
           b2 == Bytes(x, 4)[2]
           b3 == Bytes(x, 4)[3]
           b4 == Bytes(x, 4)[4]
<1>1. p[at] = b1 /\ p[at + 1] = b2 /\ p[at + 2] = b3 /\ p[at + 3] = b4
  <2>1. /\ p[at + 1 - 1] = b1 /\ p[at + 2 - 1] = b2 /\ p[at + 3 - 1] = b3 /\ p[at + 4 - 1] = b4
    OBVIOUS
  <2>2. at + 1 - 1 = at /\ at + 2 - 1 = at + 1 /\ at + 3 - 1 = at + 2 /\ at + 4 - 1 = at + 3
    OBVIOUS
  <2> HIDE DEF b1, b2, b3, b4
  <2> QED BY <2>1, <2>2
<1>2. x \in Int
  OBVIOUS
<1>3. b1 \in 0 .. 255 /\ b2 \in 0 .. 255 /\ b3 \in 0 .. 255 /\ b4 \in 0 .. 255
  <2>1. 4 \in 2 .. 4 /\ 1 \in 1 .. 4 /\ 2 \in 1 .. 4 /\ 3 \in 1 .. 4 /\ 4 \in 1 .. 4
    OBVIOUS
  <2>2. \A k \in 1 .. 4 : Bytes(x, 4)[k] \in 0 .. 255
    BY Zenon, <1>2, <2>1, BytesAre
  <2> QED BY Zenon, <2>1, <2>2
<1>4. PICK q \in Int : x = b1 + 256 * b2 + K16 * b3 + K24 * b4 + K32 * q
  BY Zenon, <1>2, BytesAre
<1> HIDE DEF b1, b2, b3, b4
<1>5. b1 + 256 * b2 + K16 * b3 + K24 * b4 = x
  BY SMT, <1>3, <1>4 DEF K16, K24, K32
<1>6. Unsigned(p, at, 4) = b1 + 256 * b2 + K16 * b3 + K24 * b4
  BY SMT, <1>1 DEF Unsigned, K16, K24
<1> QED BY Zenon, <1>5, <1>6

\* Three bytes give back a coordinate.
LEMMA CoordinateBack ==
  ASSUME NEW p, NEW at \in Nat, NEW x \in Int, -Half <= x, x < Half,
         \A k \in 1 .. 3 : p[at + k - 1] = Bytes(x, 3)[k]
  PROVE  Coordinate(p, at) = x
<1> DEFINE b1 == Bytes(x, 3)[1]
           b2 == Bytes(x, 3)[2]
           b3 == Bytes(x, 3)[3]
<1>1. p[at] = b1 /\ p[at + 1] = b2 /\ p[at + 2] = b3
  <2>1. p[at + 1 - 1] = b1 /\ p[at + 2 - 1] = b2 /\ p[at + 3 - 1] = b3
    OBVIOUS
  <2>2. at + 1 - 1 = at /\ at + 2 - 1 = at + 1 /\ at + 3 - 1 = at + 2
    OBVIOUS
  <2> HIDE DEF b1, b2, b3
  <2> QED BY <2>1, <2>2
<1>3. b1 \in 0 .. 255 /\ b2 \in 0 .. 255 /\ b3 \in 0 .. 255
  <2>1. 3 \in 2 .. 4 /\ 1 \in 1 .. 3 /\ 2 \in 1 .. 3 /\ 3 \in 1 .. 3
    OBVIOUS
  <2>2. \A k \in 1 .. 3 : Bytes(x, 3)[k] \in 0 .. 255
    BY Zenon, <2>1, BytesAre
  <2> QED BY Zenon, <2>1, <2>2
<1>4. PICK q \in Int : x = b1 + 256 * b2 + K16 * b3 + K24 * q
  BY Zenon, BytesAre
<1> HIDE DEF b1, b2, b3
<1> DEFINE f == b1 + 256 * b2 + K16 * b3
<1>5. (IF f >= Half THEN f - K24 ELSE f) = x
  BY SMT, <1>3, <1>4 DEF K16, K24, Half
<1>6. Unsigned(p, at, 3) = f
  BY SMT, <1>1, <1>3 DEF Unsigned, K16, K24
<1> HIDE DEF f
<1> QED BY SMT, <1>5, <1>6 DEF Coordinate, K24, Half

\* The field of a coordinate is within its three bytes, and as near as can be.
LEMMA FieldIs ==
  ASSUME NEW deg \in Int, NEW full \in {90, 180}
  PROVE  /\ Field(deg, full) \in Int
         /\ -Half <= Field(deg, full) /\ Field(deg, full) < Half
         /\ Near(Field(deg, full), deg, full)
<1> DEFINE x == deg * Half
           f == Field(deg, full)
           g == IF deg >= 0 THEN x \div full ELSE -((-deg * Half) \div full)
           c == IF deg > full THEN full ELSE IF deg < -full THEN -full ELSE deg
           d == f * full - c * Half
<1>1. x \in Int /\ -deg * Half = -x
  BY SMT DEF Half
<1>2. f = IF g > Half - 1 THEN Half - 1 ELSE IF g < -Half THEN -Half ELSE g
  BY SMT DEF Field, Half
<1>3. g \in Int /\ (deg >= 0 => full * g <= x /\ x < full * g + full)
                /\ (~(deg >= 0) => x <= full * g /\ full * g < x + full)
  <2>1. full \in Nat \ {0}
    BY SMT
  <2>2. CASE deg >= 0
    <3>1. x \div full \in Int /\ x % full \in Int /\ x = full * (x \div full) + (x % full)
          /\ 0 <= x % full /\ x % full < full
      BY <1>1, <2>1, DivMod
    <3> DEFINE q == x \div full
               m == x % full
    <3>2. q \in Int /\ m \in Int /\ x = full * q + m /\ 0 <= m /\ m < full /\ g = q
      BY Zenon, <2>2, <3>1
    <3> HIDE DEF q, m, g, x
    <3>3. full = 90 \/ full = 180
      OBVIOUS
    <3>4. full * g <= x /\ x < full * g + full
      BY SMT, <1>1, <3>2, <3>3
    <3> QED BY Zenon, <2>2, <3>2, <3>4
  <2>3. CASE ~(deg >= 0)
    <3> DEFINE y == -deg * Half
               q == y \div full
               m == y % full
    <3>1. y \in Int
      BY SMT DEF Half
    <3>2. q \in Int /\ m \in Int /\ y = full * q + m /\ 0 <= m /\ m < full
      <4> HIDE DEF y
      <4> QED BY <2>1, <3>1, DivMod
    <3>3. g = -q
      BY Zenon, <2>3
    <3>4. y = -x
      BY Zenon, <1>1
    <3> HIDE DEF q, m, g, x, y
    <3>5. full = 90 \/ full = 180
      OBVIOUS
    <3>6. g \in Int /\ x <= full * g /\ full * g < x + full
      BY SMT, <1>1, <3>1, <3>2, <3>3, <3>4, <3>5
    <3> QED BY Zenon, <2>3, <3>6
  <2> QED BY <2>2, <2>3
<1>4. x = deg * Half
  OBVIOUS
<1>5. Near(f, deg, full) <=> d \in -full .. full
  BY SMT DEF Near, Half
<1>6. f \in Int /\ -Half <= f /\ f < Half
  <2> HIDE DEF g, f
  <2> QED BY SMT, <1>2, <1>3 DEF Half
<1>7. d \in Int /\ -full <= d /\ d <= full
  <2> HIDE DEF g, x, f
  <2>1. CASE full = 90
    BY SMT, <1>1, <1>2, <1>3, <1>4, <2>1 DEF Half
  <2>2. CASE full = 180
    BY SMT, <1>1, <1>2, <1>3, <1>4, <2>2 DEF Half
  <2> QED BY <2>1, <2>2
<1>8. d \in -full .. full
  <2> HIDE DEF d
  <2> QED BY SMT, <1>7
<1> QED BY Zenon, <1>5, <1>6, <1>8

\* n bytes of a set.
Filled(bytes, n, B) == DOMAIN bytes = 1 .. n /\ \A k \in 1 .. n : bytes[k] \in B

\* The gateway specific part, without its CRC.
Specific(d, x, y, n) == <<d>> \o Bytes(x, 3) \o Bytes(y, 3) \o Zeroes(n)

\* The bytes of s are its descriptor, its coordinates and n bytes more.
HasFields(s, d, x, y, n) ==
  /\ Filled(s, n + 7, 0 .. 255)
  /\ s[1] = d
  /\ \A k \in 1 .. 3 : s[k + 1] = Bytes(x, 3)[k] /\ s[k + 4] = Bytes(y, 3)[k]

\* So are those of the part.
LEMMA FieldsAre ==
  ASSUME NEW d \in 0 .. 255, NEW x \in Int, NEW y \in Int, NEW n \in Nat
  PROVE  HasFields(Specific(d, x, y, n), d, x, y, n)
<1> DEFINE X == Bytes(x, 3)
           Y == Bytes(y, 3)
           Z == Zeroes(n)
           B == 0 .. 255
<1>1. X \in Seq(B) /\ Len(X) = 3
  <2>1. 3 \in 2 .. 4
    OBVIOUS
  <2>2. \A k \in 1 .. 3 : X[k] \in B
    BY Zenon, <2>1, BytesAre
  <2>3. X = [k \in 1 .. 3 |-> X[k]]
    BY DEF Bytes
  <2> HIDE DEF X, B
  <2> QED BY <2>2, <2>3
<1>2. Y \in Seq(B) /\ Len(Y) = 3
  <2>1. 3 \in 2 .. 4
    OBVIOUS
  <2>2. \A k \in 1 .. 3 : Y[k] \in B
    BY Zenon, <2>1, BytesAre
  <2>3. Y = [k \in 1 .. 3 |-> Y[k]]
    BY DEF Bytes
  <2> HIDE DEF Y, B
  <2> QED BY <2>2, <2>3
<1>3. Z \in Seq(B) /\ Len(Z) = n
  <2>1. Z \in [1 .. n -> B]
    BY DEF Zeroes
  <2> HIDE DEF Z, B
  <2> QED BY <2>1
<1>4. d \in B
  OBVIOUS
<1> HIDE DEF X, Y, Z, B
<1> DEFINE s == <<d>> \o X \o Y \o Z
           s1 == <<d>> \o X
           s2 == s1 \o Y
           s0 == <<d>>
<1>12. s0 \in Seq(B) /\ Len(s0) = 1 /\ s0[1] = d
  BY <1>4
<1> HIDE DEF s0
<1>5. /\ s1 \in Seq(B) /\ Len(s1) = 4
      /\ \A i \in 1 .. 4 : s1[i] = IF i <= 1 THEN s0[i] ELSE X[i - 1]
  <2>1. /\ s0 \o X \in Seq(B) /\ Len(s0 \o X) = Len(s0) + Len(X)
        /\ \A i \in 1 .. Len(s0) + Len(X) :
             (s0 \o X)[i] = IF i <= Len(s0) THEN s0[i] ELSE X[i - Len(s0)]
    BY Zenon, <1>1, <1>12, ConcatProperties
  <2>2. Len(s0) + Len(X) = 4 /\ Len(s0) = 1
    BY <1>1, <1>12
  <2>3. s1 = s0 \o X
    BY Zenon DEF s0
  <2> HIDE DEF s1
  <2> QED BY SMT, <2>1, <2>2, <2>3
<1> HIDE DEF s1
<1>6. s2 \in Seq(B) /\ Len(s2) = 7
      /\ \A i \in 1 .. 7 : s2[i] = IF i <= 4 THEN s1[i] ELSE Y[i - 4]
  <2>1. /\ s1 \o Y \in Seq(B) /\ Len(s1 \o Y) = Len(s1) + Len(Y)
        /\ \A i \in 1 .. Len(s1) + Len(Y) :
             (s1 \o Y)[i] = IF i <= Len(s1) THEN s1[i] ELSE Y[i - Len(s1)]
    BY Zenon, <1>2, <1>5, ConcatProperties
  <2>2. Len(s1) + Len(Y) = 7 /\ Len(s1) = 4
    BY <1>2, <1>5
  <2>3. s2 = s1 \o Y
    BY Zenon DEF s1
  <2> HIDE DEF s2
  <2> QED BY SMT, <2>1, <2>2, <2>3
<1> HIDE DEF s2
<1>7. s \in Seq(B) /\ Len(s) = n + 7 /\ \A i \in 1 .. n + 7 : s[i] = IF i <= 7 THEN s2[i] ELSE Z[i - 7]
  <2>1. s = s2 \o Z
    BY Zenon DEF s1, s2
  <2>2. /\ s2 \o Z \in Seq(B) /\ Len(s2 \o Z) = Len(s2) + Len(Z)
        /\ \A i \in 1 .. Len(s2) + Len(Z) :
             (s2 \o Z)[i] = IF i <= Len(s2) THEN s2[i] ELSE Z[i - Len(s2)]
    BY Zenon, <1>3, <1>6, ConcatProperties
  <2>3. Len(s2) + Len(Z) = n + 7 /\ Len(s2) = 7
    BY <1>3, <1>6
  <2> HIDE DEF s
  <2> QED BY SMT, <2>1, <2>2, <2>3
<1> HIDE DEF s
<1>9. s[1] = d
  <2>1. 1 \in 1 .. n + 7 /\ 1 \in 1 .. 7 /\ 1 \in 1 .. 4 /\ 1 <= 7 /\ 1 <= 4 /\ 1 <= 1
    OBVIOUS
  <2> QED BY <1>12, <1>5, <1>6, <1>7, <2>1
<1>10. ASSUME NEW k \in 1 .. 3 PROVE s[k + 1] = X[k] /\ s[k + 4] = Y[k]
  <2>1. /\ k + 1 \in 1 .. n + 7 /\ k + 1 \in 1 .. 7 /\ k + 1 <= 7 /\ k + 1 <= 4
        /\ k + 4 \in 1 .. n + 7 /\ k + 4 \in 1 .. 7 /\ k + 4 <= 7 /\ ~(k + 4 <= 4)
        /\ (k + 4) - 4 = k /\ k + 1 \in 1 .. 4 /\ ~(k + 1 <= 1) /\ (k + 1) - 1 = k
    OBVIOUS
  <2> QED BY <1>5, <1>6, <1>7, <2>1
<1>8. DOMAIN s = 1 .. n + 7 /\ \A k \in 1 .. n + 7 : s[k] \in B
  BY <1>7
<1>11. Specific(d, x, y, n) = s
  BY Zenon DEF s, X, Y, Z, Specific
<1>13. HasFields(s, d, x, y, n)
  BY Zenon, <1>8, <1>9, <1>10 DEF X, Y, B, Filled, HasFields
<1> QED BY Zenon, <1>11, <1>13

-----------------------------------------------------------------------------
(* The packet.                                                              *)

\* The sizes of the fields of a datarate that is supported.
LEMMA SizesAre ==
  ASSUME NEW gw, Supported(gw), NEW sf, sf = gw["beacon_datarate"]
  PROVE  /\ RFU1[sf] \in Nat /\ RFU2[sf] \in Nat /\ RFU1[sf] = sf - 7
         /\ <<sf, RFU1[sf] + 4 + 2 + 7 + RFU2[sf] + 2>> \in {<<8, 19>>, <<9, 17>>, <<10, 19>>, <<12, 23>>}
<1>1. sf = 8 \/ sf = 9 \/ sf = 10 \/ sf = 12
  BY DEF Supported, RFU1
<1>2. RFU1[8] = 1 /\ RFU1[9] = 2 /\ RFU1[10] = 3 /\ RFU1[12] = 5
  BY DEF RFU1
<1>3. RFU2[8] = 3 /\ RFU2[9] = 0 /\ RFU2[10] = 1 /\ RFU2[12] = 3
  BY DEF RFU2
<1> QED BY <1>1, <1>2, <1>3

\* p has the bytes from `at' on, and is otherwise the m bytes of data.
Written(p, data, m, B, at, bytes, n) ==
  /\ p \in [0 .. m - 1 -> B]
  /\ \A i \in 0 .. m - 1 : i < at \/ i >= at + n => p[i] = data[i]
  /\ \A k \in 1 .. n : at + k - 1 < m => p[at + k - 1] = bytes[k]

\* What is written, and what is left as it was.
LEMMA PutIs ==
  ASSUME NEW m \in Nat, NEW B, NEW data \in [0 .. m - 1 -> B], NEW at \in Nat, NEW n \in Nat,
         NEW bytes, Filled(bytes, n, B)
  PROVE  Written(Put(data, at, bytes), data, m, B, at, bytes, n)
<1> DEFINE p == Put(data, at, bytes)
<1>1. p = [i \in 0 .. m - 1 |-> IF i - at + 1 \in 1 .. n THEN bytes[i - at + 1] ELSE data[i]]
  BY DEF Put, Filled
<1> HIDE DEF p
<1>2. p \in [0 .. m - 1 -> B]
  <2>1. ASSUME NEW i \in 0 .. m - 1
        PROVE  (IF i - at + 1 \in 1 .. n THEN bytes[i - at + 1] ELSE data[i]) \in B
    BY DEF Filled
  <2> QED BY <1>1, <2>1
<1>3. ASSUME NEW i \in 0 .. m - 1, i < at \/ i >= at + n PROVE p[i] = data[i]
  <2>1. i - at + 1 \notin 1 .. n
    BY <1>3
  <2> QED BY <1>1, <2>1
<1>4. ASSUME NEW k \in 1 .. n, at + k - 1 < m PROVE p[at + k - 1] = bytes[k]
  <2>1. at + k - 1 \in 0 .. m - 1 /\ (at + k - 1) - at + 1 = k
    BY <1>4
  <2> QED BY <1>1, <2>1
<1> QED BY <1>2, <1>3, <1>4 DEF p, Written

\* The size of a beacon, by its datarate.
Size(gw) ==
  LET sf == gw["beacon_datarate"] IN RFU1[sf] + 4 + 2 + 7 + RFU2[sf] + 2

\* The part behind the time: it is complete once the beacons are prepared.
SpecificPart(gw, p) ==
  LET at == RFU1[gw["beacon_datarate"]] + 6
  IN  /\ p \in [0 .. Size(gw) - 1 -> 0 .. 255]
      /\ p[at] = gw["beacon_infodesc"]
      /\ Near(Coordinate(p, at + 1), gw["ref_latitude"], 90)
      /\ Near(Coordinate(p, at + 4), gw["ref_longitude"], 180)
      /\ Divisible(Part(p, at, Size(gw) - 1))

\* The part with the time.
CommonPart(gw, p, time) ==
  LET at == RFU1[gw["beacon_datarate"]]
  IN  /\ Divisible(Part(p, 0, at + 5))
      /\ time < K32 => Unsigned(p, at, 4) = time

\* p ends a part with its CRC, and is otherwise the m bytes of data.
Completed(p, data, m, from, size) ==
  /\ p \in [0 .. m - 1 -> 0 .. 255]
  /\ \A i \in 0 .. m - 1 : i < from + size \/ i >= from + size + 2 => p[i] = data[i]
  /\ Divisible(Part(p, from, from + size + 1))

\* Two bytes at the end make what is before them divide.
LEMMA CrcPut ==
  ASSUME NEW m \in Nat, NEW data \in [0 .. m - 1 -> 0 .. 255], NEW from \in Nat, NEW size \in Nat,
         from + size + 2 <= m
  PROVE  Completed(Put(data, from + size, Bytes(crc16(data, from, size), 2)), data, m, from, size)
<1> DEFINE B == 0 .. 255
           c == Bytes(crc16(data, from, size), 2)
           at == from + size
           p == Put(data, at, c)
<1>1. Filled(c, 2, B)
  <2> DEFINE bytes == [k \in 1 .. size |-> data[from + k - 1]]
  <2>1. ASSUME NEW k \in 1 .. size PROVE bytes[k] \in 0 .. 255 /\ data[from + k - 1] = bytes[k]
    <3>1. from + k - 1 \in 0 .. m - 1
      OBVIOUS
    <3> QED BY <3>1
  <2>2. Behind(data, from, bytes, size)
    <3> HIDE DEF bytes
    <3> QED BY <2>1 DEF Behind
  <2> HIDE DEF bytes
  <2>3. PICK y : Absorbing(y, bytes, size) /\ crc16(data, from, size) = Word(y[size])
    BY <2>2, CrcIs
  <2>4. y[size] \in Words
    BY <2>3 DEF Absorbing
  <2>5. c[1] = Octet(y[size], 8) /\ c[2] = Octet(y[size], 0)
    BY <2>3, <2>4, CrcBytes
  <2>6. Octet(y[size], 8) \in 0 .. 255 /\ Octet(y[size], 0) \in 0 .. 255
    BY <2>4, OctetBits
  <2>7. DOMAIN c = 1 .. 2
    BY DEF Bytes
  <2> HIDE DEF c
  <2>8. c[1] \in B /\ c[2] \in B
    BY Zenon, <2>5, <2>6
  <2>9. \A k \in 1 .. 2 : c[k] \in B
    <3> HIDE DEF B
    <3> QED BY SMT, <2>8
  <2> QED BY <2>7, <2>9 DEF Filled
<1>2. at \in Nat /\ 2 \in Nat /\ p = Put(data, at, c) /\ data \in [0 .. m - 1 -> B]
  OBVIOUS
<1> HIDE DEF B, c, at, p
<1>3. Written(p, data, m, B, at, c, 2)
  BY <1>1, <1>2, PutIs
<1>4. p[from + size] = c[1] /\ p[from + size + 1] = c[2]
  <2>1. at + 1 - 1 = from + size /\ at + 2 - 1 = from + size + 1 /\ at + 2 - 1 < m /\ at + 1 - 1 < m
    BY DEF at
  <2>2. 1 \in 1 .. 2 /\ 2 \in 1 .. 2
    OBVIOUS
  <2> QED BY <1>3, <2>1, <2>2 DEF Written
<1>5. ASSUME NEW i \in from .. from + size - 1 PROVE p[i] \in 0 .. 255 /\ data[i] = p[i]
  <2>1. i \in 0 .. m - 1 /\ i < at
    BY DEF at
  <2> QED BY <1>3, <2>1 DEF B, Written
<1>6. Divisible(Part(p, from, from + size + 1))
  BY <1>4, <1>5, PartDivides DEF c
<1>7. Completed(p, data, m, from, size)
  BY <1>3, <1>6 DEF B, at, Written, Completed
<1> QED BY <1>7 DEF p, at, c
\* thread_down prepares the specific part: with every setting a number, and the
\* descriptor a byte.
LEMMA PreparedIs ==
  ASSUME NEW gw \in [Params -> Int], Supported(gw), gw["beacon_infodesc"] \in 0 .. 255,
         NEW junk \in 0 .. 255
  PROVE  SpecificPart(gw, Prepared(gw, [i \in 0 .. Size(gw) - 1 |-> junk]))
<1> DEFINE sf == gw["beacon_datarate"]
           r1 == RFU1[sf]
           r2 == RFU2[sf]
           m == Size(gw)
           at == r1 + 6
           x == Field(gw["ref_latitude"], 90)
           y == Field(gw["ref_longitude"], 180)
           d == gw["beacon_infodesc"]
           fields == Specific(d, x, y, r2)
           B == 0 .. 255
           memory == [i \in 0 .. m - 1 |-> junk]
           d1 == Put(memory, 0, Zeroes(r1))
           d2 == Put(d1, at, fields)
           p == Prepared(gw, memory)
<1>1. r1 \in Nat /\ r2 \in Nat
  BY SizesAre
<1>2. m = r1 + r2 + 15 /\ m \in Nat /\ at \in Nat /\ at = r1 + 6
  BY <1>1 DEF Size
<1>3. /\ gw["ref_latitude"] \in Int /\ gw["ref_longitude"] \in Int
      /\ gw["beacon_infodesc"] \in 0 .. 255
  BY DEF Params, Early, Late
<1>4. /\ x \in Int /\ -Half <= x /\ x < Half /\ Near(x, gw["ref_latitude"], 90)
      /\ y \in Int /\ -Half <= y /\ y < Half /\ Near(y, gw["ref_longitude"], 180)
  <2>1. 90 \in {90, 180} /\ 180 \in {90, 180}
    OBVIOUS
  <2> QED BY <1>3, <2>1, FieldIs
<1>5. p = Put(d2, at + 7 + r2, Bytes(crc16(d2, at, 7 + r2), 2))
  BY DEF Prepared, Specific
<1>6. Filled(Zeroes(r1), r1, B)
  BY DEF Filled, Zeroes
<1> HIDE DEF x, y, r2
<1>7. /\ Filled(fields, r2 + 7, B) /\ fields[1] = gw["beacon_infodesc"]
      /\ \A k \in 1 .. 3 : fields[k + 1] = Bytes(x, 3)[k] /\ fields[k + 4] = Bytes(y, 3)[k]
  <2>1. d \in 0 .. 255 /\ d = gw["beacon_infodesc"]
    BY <1>3
  <2> HIDE DEF d
  <2>3. x \in Int /\ y \in Int /\ r2 \in Nat
    BY <1>1, <1>4
  <2>2. HasFields(fields, d, x, y, r2)
    BY <2>1, <2>3, FieldsAre
  <2> HIDE DEF fields
  <2> QED BY <2>1, <2>2 DEF HasFields, B
<1>8. memory \in [0 .. m - 1 -> B]
  OBVIOUS
<1> HIDE DEF memory, fields, r1, m, at, B, p
<1>9. d1 \in [0 .. m - 1 -> B]
  <2>1. Written(d1, memory, m, B, 0, Zeroes(r1), r1)
    BY <1>1, <1>2, <1>6, <1>8, PutIs
  <2> QED BY <2>1 DEF Written
<1> HIDE DEF d1
<1>10. Written(d2, d1, m, B, at, fields, r2 + 7)
  <2>1. r2 + 7 \in Nat
    BY <1>1
  <2> QED BY <1>2, <1>7, <1>9, <2>1, PutIs
<1> HIDE DEF d2
<1>11. Completed(p, d2, m, at, 7 + r2)
  <2>1. 7 + r2 \in Nat /\ at + (7 + r2) + 2 <= m /\ at + 7 + r2 = at + (7 + r2)
    BY <1>1, <1>2
  <2>2. d2 \in [0 .. m - 1 -> 0 .. 255]
    BY <1>10 DEF Written, B
  <2>3. p = Put(d2, at + (7 + r2), Bytes(crc16(d2, at, 7 + r2), 2))
    BY <1>5, <2>1
  <2> QED BY <1>2, <2>1, <2>2, <2>3, CrcPut
<1>12. ASSUME NEW k \in 1 .. 7 PROVE p[at + k - 1] = fields[k]
  <2>1. /\ k \in 1 .. r2 + 7 /\ at + k - 1 < m /\ at + k - 1 \in 0 .. m - 1
        /\ at + k - 1 < at + (7 + r2)
    BY <1>1, <1>2
  <2>2. d2[at + k - 1] = fields[k]
    BY <1>10, <2>1 DEF Written
  <2>3. p[at + k - 1] = d2[at + k - 1]
    BY <1>11, <2>1 DEF Completed
  <2> QED BY <2>2, <2>3
<1>13. p[at] = gw["beacon_infodesc"]
  <2>1. 1 \in 1 .. 7 /\ at + 1 - 1 = at
    BY <1>2
  <2> QED BY <1>7, <1>12, <2>1
<1>14. Coordinate(p, at + 1) = x
  <2>1. ASSUME NEW k \in 1 .. 3 PROVE p[at + 1 + k - 1] = Bytes(x, 3)[k]
    <3>1. k + 1 \in 1 .. 7 /\ at + (k + 1) - 1 = at + 1 + k - 1
      BY <1>2
    <3> QED BY <1>7, <1>12, <3>1
  <2>2. at + 1 \in Nat
    BY <1>2
  <2> QED BY <1>4, <2>1, <2>2, CoordinateBack
<1>15. Coordinate(p, at + 4) = y
  <2>1. ASSUME NEW k \in 1 .. 3 PROVE p[at + 4 + k - 1] = Bytes(y, 3)[k]
    <3>1. k + 4 \in 1 .. 7 /\ at + (k + 4) - 1 = at + 4 + k - 1
      BY <1>2
    <3> QED BY <1>7, <1>12, <3>1
  <2>2. at + 4 \in Nat
    BY <1>2
  <2> QED BY <1>4, <2>1, <2>2, CoordinateBack
<1>16. Divisible(Part(p, at, m - 1)) /\ p \in [0 .. m - 1 -> 0 .. 255]
  <2>1. at + (7 + r2) + 1 = m - 1
    BY <1>1, <1>2
  <2> QED BY <1>11, <2>1 DEF Completed
<1>17. SpecificPart(gw, p)
  <2>1. at = RFU1[gw["beacon_datarate"]] + 6 /\ m = Size(gw)
    BY DEF at, m, r1
  <2> QED BY <1>4, <1>13, <1>14, <1>15, <1>16, <2>1 DEF SpecificPart
<1> QED BY <1>17 DEF p, memory, m

\* A part is made of its bytes only.
LEMMA PartSame ==
  ASSUME NEW p, NEW q, NEW a \in Nat, NEW b \in Nat, a < b,
         \A i \in a .. b : q[i] = p[i]
  PROVE  Part(q, a, b) = Part(p, a, b)
<1>1. ASSUME NEW k \in 1 .. b - a + 1
      PROVE  LET i == IF a + k - 1 = b - 1 THEN b ELSE IF a + k - 1 = b THEN b - 1 ELSE a + k - 1
             IN  q[i] = p[i]
  <2> DEFINE i == IF a + k - 1 = b - 1 THEN b ELSE IF a + k - 1 = b THEN b - 1 ELSE a + k - 1
  <2>1. i \in a .. b
    OBVIOUS
  <2> HIDE DEF i
  <2>2. q[i] = p[i]
    BY <2>1
  <2> QED BY <2>2 DEF i
<1> QED BY <1>1 DEF Part

\* A round of the refill loop writes the time and its CRC, and leaves the rest.
LEMMA LoadedIs ==
  ASSUME NEW gw, Supported(gw), NEW p, SpecificPart(gw, p), NEW time \in Nat
  PROVE  /\ SpecificPart(gw, Loaded(gw, p, time))
         /\ CommonPart(gw, Loaded(gw, p, time), time)
<1> DEFINE sf == gw["beacon_datarate"]
           at == RFU1[sf]
           m == Size(gw)
           B == 0 .. 255
           b == Bytes(time, 4)
           t == Put(p, at, b)
           q == Loaded(gw, p, time)
<1>1. RFU1[sf] \in Nat /\ RFU2[sf] \in Nat
  BY SizesAre
<1>2. m \in Nat /\ at \in Nat /\ m >= at + 15 /\ m >= at + 6 + 2
  BY <1>1 DEF Size
<1>3. p \in [0 .. m - 1 -> B]
  BY DEF SpecificPart
<1>4. q = Put(t, at + 4, Bytes(crc16(t, 0, at + 4), 2))
  BY DEF Loaded
<1>5. Filled(b, 4, B)
  <2>1. time \in Int /\ 4 \in 2 .. 4
    OBVIOUS
  <2>2. \A k \in 1 .. 4 : b[k] \in B
    BY Zenon, <2>1, BytesAre
  <2>3. DOMAIN b = 1 .. 4
    BY DEF Bytes
  <2> QED BY Zenon, <2>2, <2>3 DEF Filled
<1> HIDE DEF b, at, m, B, q
<1>6. Written(t, p, m, B, at, b, 4)
  <2>1. 4 \in Nat
    OBVIOUS
  <2> QED BY <1>2, <1>3, <1>5, <2>1, PutIs
<1> HIDE DEF t
<1>7. Completed(q, t, m, 0, at + 4)
  <2>1. at + 4 \in Nat /\ 0 \in Nat /\ 0 + (at + 4) + 2 <= m /\ 0 + (at + 4) = at + 4
    BY <1>2
  <2>2. t \in [0 .. m - 1 -> 0 .. 255]
    BY <1>6 DEF Written, B
  <2>3. q = Put(t, 0 + (at + 4), Bytes(crc16(t, 0, at + 4), 2))
    BY <1>4, <2>1
  <2> QED BY <1>2, <2>1, <2>2, <2>3, CrcPut
<1>8. ASSUME NEW i \in at + 6 .. m - 1 PROVE q[i] = p[i]
  <2>1. i \in 0 .. m - 1 /\ i >= 0 + (at + 4) + 2 /\ i >= at + 4
    BY <1>2
  <2>2. q[i] = t[i]
    BY <1>7, <2>1 DEF Completed
  <2>3. t[i] = p[i]
    BY <1>6, <2>1 DEF Written
  <2> QED BY <2>2, <2>3
<1>9. ASSUME NEW k \in 1 .. 4 PROVE q[at + k - 1] = b[k]
  <2>1. at + k - 1 \in 0 .. m - 1 /\ at + k - 1 < m /\ at + k - 1 < 0 + (at + 4)
    BY <1>2
  <2>2. q[at + k - 1] = t[at + k - 1]
    BY <1>7, <2>1 DEF Completed
  <2>3. t[at + k - 1] = b[k]
    BY <1>6, <2>1 DEF Written
  <2> QED BY <2>2, <2>3
<1>10. CommonPart(gw, q, time)
  <2>1. Divisible(Part(q, 0, at + 5))
    <3>1. 0 + (at + 4) + 1 = at + 5
      BY <1>2
    <3> QED BY <1>7, <3>1 DEF Completed
  <2>2. ASSUME time < K32 PROVE Unsigned(q, at, 4) = time
    BY <1>2, <1>9, <2>2, TimeBack DEF b
  <2> QED BY <2>1, <2>2 DEF CommonPart, at
<1>11. SpecificPart(gw, q)
  <2> DEFINE f == at + 6
  <2>1. f \in Nat /\ m - 1 \in Nat /\ f < m - 1 /\ f \in f .. m - 1
    BY <1>2
  <2>2. \A i \in f .. m - 1 : q[i] = p[i]
    BY <1>8
  <2>3. /\ f + 1 \in f .. m - 1 /\ f + 2 \in f .. m - 1 /\ f + 3 \in f .. m - 1
        /\ f + 4 \in f .. m - 1 /\ f + 5 \in f .. m - 1 /\ f + 6 \in f .. m - 1
        /\ f + 1 + 1 = f + 2 /\ f + 1 + 2 = f + 3 /\ f + 4 + 1 = f + 5 /\ f + 4 + 2 = f + 6
    BY <1>2
  <2>4. q \in [0 .. m - 1 -> 0 .. 255]
    BY <1>7 DEF Completed
  <2>5. /\ p[f] = gw["beacon_infodesc"]
        /\ Near(Coordinate(p, f + 1), gw["ref_latitude"], 90)
        /\ Near(Coordinate(p, f + 4), gw["ref_longitude"], 180)
        /\ Divisible(Part(p, f, m - 1))
    BY DEF SpecificPart, at, m
  <2>6. SpecificPart(gw, q) <=>
          /\ q \in [0 .. m - 1 -> 0 .. 255]
          /\ q[f] = gw["beacon_infodesc"]
          /\ Near(Coordinate(q, f + 1), gw["ref_latitude"], 90)
          /\ Near(Coordinate(q, f + 4), gw["ref_longitude"], 180)
          /\ Divisible(Part(q, f, m - 1))
    BY DEF SpecificPart, at, m
  <2> HIDE DEF f
  <2>7. Part(q, f, m - 1) = Part(p, f, m - 1)
    BY <2>1, <2>2, PartSame
  <2>8. Unsigned(q, f + 1, 3) = Unsigned(p, f + 1, 3)
    BY SMT, <2>2, <2>3 DEF Unsigned
  <2>9. Unsigned(q, f + 4, 3) = Unsigned(p, f + 4, 3)
    BY SMT, <2>2, <2>3 DEF Unsigned
  <2>10. Coordinate(q, f + 1) = Coordinate(p, f + 1) /\ Coordinate(q, f + 4) = Coordinate(p, f + 4)
    BY SMT, <2>8, <2>9 DEF Coordinate
  <2>11. q[f] = p[f]
    BY <2>1, <2>2
  <2> QED BY <2>4, <2>5, <2>6, <2>7, <2>10, <2>11
<1> QED BY <1>10, <1>11 DEF q

-----------------------------------------------------------------------------
(* The theorems.                                                            *)

\* The inductive invariant.
ConfInv == ConfTyped /\ Produced /\ WinsInv /\ FieldsFit

\* It holds from the first start on (main, parse_SX1301_configuration and
\* parse_gateway_configuration of lora_pkt_fwd.c).
LEMMA ConfInvariant == Spec => []ConfInv
<1>1. Init => ConfInv
  <2>1. ASSUME Init PROVE WinsInv /\ FieldsFit
    <3>1. mpc = "off" /\ prog.gw = Default /\ last.prog.gw = Default
      BY <2>1 DEF Init, Compiled
    <3>2. Default["beacon_period"] = 0 /\ Default["beacon_infodesc"] = 0
      BY DEF Default, Params, Late
    <3> QED BY <3>1, <3>2 DEF WinsInv, LocalWins, FieldsFit
  <2> QED BY <2>1, ConfInitTyped, ProducedInit DEF ConfInv
<1>2. ConfInv /\ [Next]_vars => ConfInv'
  BY ConfStepTyped, ProducedStep, WinsStep, FieldsStep DEF ConfInv
<1> QED BY <1>1, <1>2, PTL DEF Spec

\* The settings have their types: a table of powers has no more entries than there is
\* room for, and main makes at most four calls a start.
THEOREM ConfTypeInvariance == Spec => []TypeOK
<1>1. ConfTyped => TypeOK
  <2> SUFFICES ASSUME ConfTyped PROVE TypeOK
    OBVIOUS
  <2>1. prog \in Prog /\ hal \in Hal /\ refused \subseteq {"txlut"} \cup Radios
    BY DEF ConfTyped, Cur, St
  <2>2. /\ prog.antenna_gain \in Int /\ prog.txlut \in Tables /\ prog.range \in [Radios -> Nat]
        /\ prog.gw \in [Params -> Int] /\ hal.txlut \in Tables /\ hal.chan \in [Channels -> BOOLEAN]
    BY <2>1 DEF Prog, Hal
  <2>3. prog.txlut.size \in 0 .. TX_GAIN_LUT_SIZE_MAX /\ prog.txlut.power \in [Lut -> Int]
        /\ hal.txlut.size \in 0 .. TX_GAIN_LUT_SIZE_MAX
    BY <2>2 DEF Tables
  <2> QED BY <2>1, <2>2, <2>3 DEF TypeOK, ConfTyped
<1> QED BY <1>1, ConfInvariant, PTL DEF ConfInv

\* A setting of gateway_conf is what the local file says, if the directory has no debug
\* file; else what the debug or global file says; else what the start before has left.
\* A start that fails stores only what the file that has to be right says (main,
\* lora_pkt_fwd.c:1065-1103).
THEOREM GatewayLocalWins == Spec => []LocalWins
  BY ConfInvariant, PTL DEF ConfInv, WinsInv

\* A downlink is checked with the table of powers and the range that the HAL sends it
\* with, unless the HAL has refused them (parse_SX1301_configuration).
THEOREM HalAgreement == Spec => []AgreesWithHal
<1>1. ConfTyped => AgreesWithHal
  BY DEF ConfTyped, Agrees, AgreesWithHal, Cur
<1> QED BY <1>1, ConfInvariant, PTL DEF ConfInv

\* The start after one with the same directory finds, and leaves, the settings that one
\* has left, whichever files it read and wherever it failed (start of lora_comms.cc).
THEOREM StartsRepeatable == Spec => []Repeatable
  BY ProducedRepeats, ConfInvariant, PTL DEF ConfInv

\* The beacons change no setting: what is proved of the settings holds with thread_down
\* running beside main.
THEOREM BeaconsKeepSettings == BeaconSpec => Spec
<1>1. BeaconInit => Init
  BY DEF BeaconInit
<1>2. [BeaconNext]_<<vars, beacon_vars>> => [Next]_vars
  <2> SUFFICES ASSUME [BeaconNext]_<<vars, beacon_vars>> PROVE [Next]_vars
    OBVIOUS
  <2>1. CASE MainNext
    BY <2>1 DEF MainNext
  <2>2. CASE BeaconSetup \/ BeaconUnsupported \/ BeaconLoad
    BY <2>2 DEF BeaconSetup, BeaconUnsupported, BeaconLoad
  <2>3. CASE UNCHANGED <<vars, beacon_vars>>
    BY <2>3
  <2> QED BY <2>1, <2>2, <2>3 DEF BeaconNext
<1> QED BY <1>1, <1>2, PTL DEF BeaconSpec, Spec

-----------------------------------------------------------------------------
(* The beacons.                                                             *)

\* The settings a beacon is made of fit into their fields, whichever file they are from.
LEMMA BeaconSettings ==
  ASSUME ConfInv
  PROVE  /\ prog.gw \in [Params -> Int]
         /\ prog.gw["beacon_period"] \in Nat
         /\ prog.gw["beacon_infodesc"] \in 0 .. 255
  BY DEF ConfInv, ConfTyped, Cur, St, Prog, FieldsFit

\* The packet of thread_down: the part behind the time is complete when the thread
\* starts to load it, and stays so; the time and its CRC are those of the last round.
\* main leaves the settings alone for as long as the thread runs.
BeaconInv ==
  /\ bpc \in {"none", "ready", "loaded", "exited"}
  /\ bpc # "none" => mpc = "running"
  /\ bpc \in {"ready", "loaded"} =>
       /\ Supported(prog.gw)
       /\ DOMAIN beacon_pkt = {"size", "freq_hz", "payload"}
       /\ beacon_pkt = [f \in DOMAIN beacon_pkt |-> beacon_pkt[f]]
       /\ beacon_pkt.size = Size(prog.gw)
       /\ SpecificPart(prog.gw, beacon_pkt.payload)
  /\ bpc = "loaded" => CommonPart(prog.gw, beacon_pkt.payload, beacon_time)

\* Every step.
LEMMA BeaconStep == ConfInv /\ BeaconInv /\ [BeaconNext]_<<vars, beacon_vars>> => BeaconInv'
<1> SUFFICES ASSUME ConfInv, BeaconInv, [BeaconNext]_<<vars, beacon_vars>> PROVE BeaconInv'
  OBVIOUS
<1>1. /\ prog.gw \in [Params -> Int] /\ prog.gw["beacon_period"] \in Nat
      /\ prog.gw["beacon_infodesc"] \in 0 .. 255
  BY BeaconSettings
<1>2. CASE MainNext
  <2>1. bpc' = "none" \/ (bpc' = bpc /\ mpc' # "off")
    BY <1>2 DEF MainNext, beacon_vars
  <2>2. CASE bpc = "none"
    <3>1. bpc' = "none"
      BY <2>1, <2>2
    <3> QED BY <3>1 DEF BeaconInv
  <2>3. CASE bpc # "none"
    <3>1. mpc = "running"
      BY <2>3 DEF BeaconInv
    <3>2. mpc' = "off"
      BY <1>2, <3>1 DEF MainNext, Next, Start, NotJson, ReadSX1301, ReadGateway, Return
    <3>3. bpc' = "none"
      BY <1>2, <3>2 DEF MainNext
    <3> QED BY <3>3 DEF BeaconInv
  <2> QED BY <2>2, <2>3
<1>3. CASE BeaconSetup
  <2> DEFINE gw == prog.gw
  <2>1. Supported(gw) /\ bpc' = "ready" /\ mpc = "running" /\ mpc' = mpc /\ prog' = prog
    BY <1>3 DEF BeaconSetup, vars
  <2>2. PICK junk \in JUNK :
          beacon_pkt' = [size |-> Size(gw), freq_hz |-> 0,
                         payload |-> Prepared(gw, [i \in 0 .. Size(gw) - 1 |-> junk])]
    BY <1>3 DEF BeaconSetup, Size
  <2>3. junk \in 0 .. 255
    BY <2>2, BeaconConstants
  <2>4. SpecificPart(gw, Prepared(gw, [i \in 0 .. Size(gw) - 1 |-> junk]))
    BY <1>1, <2>1, <2>3, PreparedIs
  <2>5. /\ DOMAIN beacon_pkt' = {"size", "freq_hz", "payload"} /\ beacon_pkt'.size = Size(gw)
        /\ beacon_pkt' = [f \in DOMAIN beacon_pkt' |-> beacon_pkt'[f]]
        /\ beacon_pkt'.payload = Prepared(gw, [i \in 0 .. Size(gw) - 1 |-> junk])
    BY <2>2
  <2> QED BY <2>1, <2>4, <2>5 DEF BeaconInv
<1>4. CASE BeaconUnsupported
  BY <1>4 DEF BeaconUnsupported, BeaconInv, vars
<1>5. CASE BeaconLoad
  <2> DEFINE gw == prog.gw
  <2>1. /\ bpc' = "loaded" /\ mpc = "running" /\ mpc' = mpc /\ prog' = prog
        /\ Supported(gw) /\ SpecificPart(gw, beacon_pkt.payload)
        /\ DOMAIN beacon_pkt = {"size", "freq_hz", "payload"}
        /\ beacon_pkt = [f \in DOMAIN beacon_pkt |-> beacon_pkt[f]]
        /\ beacon_pkt.size = Size(gw)
    BY <1>5 DEF BeaconLoad, BeaconInv, vars
  <2>2. PICK k \in SLOTS :
          LET time == k * gw["beacon_period"]
          IN  /\ beacon_time' = time
              /\ beacon_pkt' = [beacon_pkt EXCEPT !.freq_hz = Frequency(gw, time),
                                                  !.payload = Loaded(gw, @, time)]
    BY <1>5 DEF BeaconLoad
  <2> DEFINE time == k * gw["beacon_period"]
             freq == Frequency(gw, time)
             payload == Loaded(gw, beacon_pkt.payload, time)
  <2>3. time \in Nat
    <3>1. k \in Nat
      BY BeaconConstants
    <3> DEFINE period == gw["beacon_period"]
    <3>2. period \in Nat
      BY <1>1
    <3> HIDE DEF period
    <3> QED BY <3>1, <3>2 DEF period
  <2>4. SpecificPart(gw, payload) /\ CommonPart(gw, payload, time)
    <3> HIDE DEF time, gw
    <3> QED BY <2>1, <2>3, LoadedIs
  <2>5. beacon_time' = time /\ beacon_pkt' = [beacon_pkt EXCEPT !.freq_hz = freq, !.payload = payload]
    BY <2>2
  <2> HIDE DEF freq, payload, time, gw
  <2>6. /\ DOMAIN beacon_pkt' = {"size", "freq_hz", "payload"} /\ beacon_pkt'.size = Size(gw)
        /\ beacon_pkt' = [f \in DOMAIN beacon_pkt' |-> beacon_pkt'[f]]
        /\ beacon_pkt'.payload = payload
    BY <2>1, <2>5
  <2>7. prog'.gw = gw
    BY <2>1 DEF gw
  <2> QED BY <2>1, <2>4, <2>5, <2>6, <2>7 DEF BeaconInv
<1>6. CASE UNCHANGED <<vars, beacon_vars>>
  BY <1>6 DEF vars, beacon_vars, BeaconInv
<1> QED BY <1>2, <1>3, <1>4, <1>5, <1>6 DEF BeaconNext

\* What a device finds in a beacon that is loaded.
LEMMA ReadableIs == BeaconInv => (beacon_time < K32 => BeaconReadable)
<1> SUFFICES ASSUME BeaconInv, beacon_time < K32, bpc = "loaded" PROVE BeaconReadable
  BY DEF BeaconReadable
<1> DEFINE gw == prog.gw
           p == beacon_pkt.payload
           sf == gw["beacon_datarate"]
           r1 == RFU1[sf]
           size == beacon_pkt.size
<1>1. /\ Supported(gw) /\ size = Size(gw) /\ SpecificPart(gw, p)
      /\ CommonPart(gw, p, beacon_time)
  BY DEF BeaconInv
<1>2. /\ r1 \in Nat /\ r1 = sf - 7
      /\ <<sf, size>> \in {<<8, 19>>, <<9, 17>>, <<10, 19>>, <<12, 23>>}
  BY <1>1, SizesAre DEF Size
<1>3. /\ p[r1 + 6] = gw["beacon_infodesc"]
      /\ Near(Coordinate(p, r1 + 6 + 1), gw["ref_latitude"], 90)
      /\ Near(Coordinate(p, r1 + 6 + 4), gw["ref_longitude"], 180)
      /\ Divisible(Part(p, r1 + 6, size - 1))
  BY <1>1 DEF SpecificPart
<1>4. Divisible(Part(p, 0, r1 + 5)) /\ Unsigned(p, r1, 4) = beacon_time
  BY <1>1 DEF CommonPart
<1>5. /\ sf - 2 = r1 + 5 /\ sf - 2 + 1 = r1 + 6 /\ sf - 2 + 2 = r1 + 6 + 1
      /\ sf - 2 + 5 = r1 + 6 + 4 /\ sf - 2 - 5 = r1
  <2>1. sf \in Int
    BY <1>2
  <2> HIDE DEF sf, r1
  <2> QED BY <1>2, <2>1
<1>6. BeaconReadable <=>
        /\ <<sf, size>> \in {<<8, 19>>, <<9, 17>>, <<10, 19>>, <<12, 23>>}
        /\ Divisible(Part(p, 0, sf - 2))
        /\ Divisible(Part(p, sf - 2 + 1, size - 1))
        /\ Unsigned(p, sf - 2 - 5, 4) = beacon_time
        /\ p[sf - 2 + 1] = gw["beacon_infodesc"]
        /\ Near(Coordinate(p, sf - 2 + 2), gw["ref_latitude"], 90)
        /\ Near(Coordinate(p, sf - 2 + 5), gw["ref_longitude"], 180)
  BY DEF BeaconReadable
<1> HIDE DEF gw, p, sf, r1, size
<1> QED BY <1>2, <1>3, <1>4, <1>5, <1>6

\* A beacon that is handed to the JiT queue can be read, with whatever settings a
\* file has, and whatever was in the memory of the packet, as long as the seconds of
\* GPS fit the four bytes of the field, which is until 2116 (thread_down).
THEOREM BeaconsReadable == BeaconSpec => [](beacon_time < K32 => BeaconReadable)
<1>1. BeaconInit => BeaconInv
  BY DEF BeaconInit, BeaconInv
<1>2. ConfInv /\ BeaconInv /\ [BeaconNext]_<<vars, beacon_vars>> => BeaconInv'
  BY BeaconStep
<1>3. BeaconInv => (beacon_time < K32 => BeaconReadable)
  BY ReadableIs
<1>4. BeaconSpec => []ConfInv
  BY BeaconsKeepSettings, ConfInvariant, PTL
<1> QED BY <1>1, <1>2, <1>3, <1>4, PTL DEF BeaconSpec
=============================================================================
