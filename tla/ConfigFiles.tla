---------------------------- MODULE ConfigFiles ----------------------------
(***************************************************************************)
(* The configuration files of Gateway/main/src/rak831_api.c and the static *)
(* configuration of the HAL they are turned into.  A file that is there is *)
(* a record: valid JSON or not, its SX1301_conf as the sequence of the     *)
(* objects parse_SX1301_configuration looks for, in its order (a radio or  *)
(* a channel that is not in the file has no element), and its gateway_ID.  *)
(***************************************************************************)
EXTENDS Integers, Sequences, FiniteSets

CONSTANTS
  RfChain,   \* radios
  Multi,     \* LoRa multi-SF chains
  LutMax     \* TX_GAIN_LUT_SIZE_MAX

(* The chain of the LoRa standard modem and the one of the FSK modem.      *)
Std == 8
Fsk == 9
Chains == Multi \cup {Std, Fsk}

Words == 0 .. 255

Absent  == [kind |-> "absent"]
Invalid == [kind |-> "invalid"]

(* The objects of a SX1301_conf: the board section, which is always        *)
(* submitted and first, whether or not it names the kind of network; the   *)
(* entries of the gain table by their index; radios and channels.          *)
RadioTypes == {"none", "SX1255", "SX1257"}
NoEntry == -1
BoardObjects == [section : {"board"}, named : BOOLEAN, public : BOOLEAN, clksrc : Words]
LutObjects   == [section : {"tx_lut"},
                 objects : {t \in [0 .. LutMax - 1 -> Words \cup {NoEntry}] : \E i \in DOMAIN t : t[i] # NoEntry}]
RadioObjects == [section : {"radio"}, chain : RfChain,
                 conf : [enable : BOOLEAN, type : RadioTypes, freq : Nat, tx : BOOLEAN, notch : Nat]]
ChanObjects  == [section : {"chan"}, chain : Chains,
                 conf : [enable : BOOLEAN, rf : Words, freq : Int, bw : Nat, dr : Nat]]
Objects == BoardObjects \cup LutObjects \cup RadioObjects \cup ChanObjects

Files == [kind : {"file"}, gateway_ID : Nat,
          objects : {s \in Seq(Objects) : \A i \in DOMAIN s : s[i].section = "board" <=> i = 1}]

(* The statics of loragw_hal.c before any _setconf: the gain table has two *)
(* entries of the program's own.                                           *)
RfOff == [enable |-> FALSE, type |-> "none", freq |-> 0, tx |-> FALSE, notch |-> 0]
IfOff == [enable |-> FALSE, rf |-> 0, freq |-> 0]
HalOff ==
  [public |-> FALSE, clkout |-> 0, lut |-> <<186, 254>>,
   rf  |-> [c \in RfChain |-> RfOff],
   ifc |-> [c \in Chains |-> IfOff],
   std |-> [bw |-> 0, dr |-> 0],
   fsk |-> [bw |-> 0, dr |-> 0]]

(* The gain table of the file: as many entries as the file has objects,    *)
(* but each at the index of its name, the ones between being 0.            *)
Entries(objects) == {i \in DOMAIN objects : objects[i] # NoEntry}

TxLut_OneMore(objects) ==   \* mutant: the size counts one object too many
  [i \in 1 .. Cardinality(Entries(objects)) + 1 |->
     IF i - 1 \in Entries(objects) THEN objects[i - 1] ELSE 0]

TxLut(objects) ==
  [i \in 1 .. Cardinality(Entries(objects)) |->
     IF i - 1 \in Entries(objects) THEN objects[i - 1] ELSE 0]

(* mix_gain is 8 to 15 and dac_gain 3, the two lower digits of an entry.   *)
GoodGain(g) == (g % 64) \in 56 .. 63

(* A radio that the file disables is submitted without a type, and a notch *)
(* frequency is read for one that transmits only.                          *)
RadioConf(conf) ==
  IF ~conf.enable THEN RfOff ELSE IF conf.tx THEN conf ELSE [conf EXCEPT !.notch = 0]

(* A channel of the file: bandwidths in Hz and datarates by value, 0 where *)
(* the HAL has its UNDEFINED.  Nothing is read of a disabled channel, and  *)
(* an FSK bandwidth is rounded up to one the HAL has a name for.           *)
FskDatarates  == 500 .. 250000
FskBandwidths == {7800, 15600, 31200, 62500, 125000, 250000, 500000}
FskBandwidth(bw) ==
  LET wider == {w \in FskBandwidths : bw <= w}
  IN IF wider = {} THEN 0 ELSE CHOOSE w \in wider : \A v \in wider : w <= v

ChanConf(o) ==
  LET c == o.conf
      bw == IF o.chain \in Multi THEN 0
            ELSE IF o.chain = Std THEN IF c.bw \in {125000, 250000, 500000} THEN c.bw ELSE 0
            ELSE FskBandwidth(c.bw)
      dr == IF o.chain \in Multi \/ (o.chain = Std /\ c.dr \notin 7 .. 12) THEN 0 ELSE c.dr
  IN IF c.enable THEN [enable |-> TRUE, rf |-> c.rf, freq |-> c.freq, bw |-> bw, dr |-> dr]
     ELSE [enable |-> FALSE, rf |-> 0, freq |-> 0, bw |-> 0, dr |-> 0]

(* The channel lies in the band its radio receives, which is wider for the *)
(* wider bandwidths; an undefined one counts as 125 kHz.                   *)
RfRxBandwidth(bw) == IF bw = 500000 THEN 1100000 ELSE IF bw = 250000 THEN 1000000 ELSE 925000
InBand(c) ==
  LET half == (IF c.bw = 0 THEN 125000 ELSE c.bw) \div 2
      edge == RfRxBandwidth(c.bw) \div 2
  IN -edge <= c.freq - half /\ c.freq + half <= edge

(* Then undefined values are replaced, by the defaults of each modem.      *)
WithDefaults(chain, c) ==
  LET bw == IF chain \in Multi THEN 125000 ELSE 250000
      dr == IF chain = Std THEN 9 ELSE 64000
  IN [bw |-> IF c.bw = 0 THEN bw ELSE c.bw, dr |-> IF c.dr = 0 THEN dr ELSE c.dr]

ChanAccepted(chain, c) ==
  \/ ~c.enable
  \/ c.rf \in RfChain /\ InBand(c) /\ (chain = Fsk => WithDefaults(chain, c).dr \in FskDatarates)

(* What each _setconf requires; lgw_board_setconf requires nothing while   *)
(* the concentrator is stopped.                                            *)
Accepts(o) ==
  CASE o.section = "board" -> TRUE
    [] o.section = "tx_lut" -> \A g \in {TxLut(o.objects)[i] : i \in DOMAIN TxLut(o.objects)} : GoodGain(g)
    [] o.section = "radio" -> RadioConf(o.conf).type \in {"SX1255", "SX1257"}
    [] o.section = "chan" -> ChanAccepted(o.chain, ChanConf(o))

(* The notch frequency a transmitting radio asks for, or 0 when it is out  *)
(* of range.                                                               *)
NotchFreqs == {freq \in Nat : 126000 <= freq /\ freq <= 250000}
Stored(conf) ==
  IF conf.tx /\ conf.notch \notin NotchFreqs THEN [conf EXCEPT !.notch = 0] ELSE conf

ChanStored(hal, chain, c) ==
  IF ~c.enable THEN [hal EXCEPT !.ifc[chain] = [enable |-> FALSE, rf |-> @.rf, freq |-> 0]]
  ELSE [hal EXCEPT !.ifc[chain] = [enable |-> TRUE, rf |-> c.rf, freq |-> c.freq],
                   !.std = IF chain = Std THEN WithDefaults(chain, c) ELSE @,
                   !.fsk = IF chain = Fsk THEN WithDefaults(chain, c) ELSE @]

(* A board section without lorawan_public makes the network private.       *)
Public(o) == o.named /\ o.public

(* What it stores.  Of a table with a bad entry, the size and the entries  *)
(* before it; the others stay as they were, those past the old size as they*)
(* were to begin with, since at most two files are read.                   *)
Applied(hal, o) ==
  CASE o.section = "board" -> [hal EXCEPT !.public = Public(o), !.clkout = o.clksrc]
    [] o.section = "tx_lut" ->
         LET new == TxLut(o.objects)
         IN [hal EXCEPT !.lut =
              [i \in DOMAIN new |-> IF \A j \in 1 .. i : GoodGain(new[j]) THEN new[i]
                                    ELSE IF i \in DOMAIN hal.lut THEN hal.lut[i]
                                    ELSE IF i \in DOMAIN HalOff.lut THEN HalOff.lut[i] ELSE 0]]
    [] o.section = "radio" ->
         IF Accepts(o) THEN [hal EXCEPT !.rf[o.chain] = Stored(RadioConf(o.conf))] ELSE hal
    [] o.section = "chan" -> IF Accepts(o) THEN ChanStored(hal, o.chain, ChanConf(o)) ELSE hal

(* An object a _setconf rejects ends the file; nobody asks whether it did. *)
parse_SX1301_configuration(hal, file) ==
  LET upto[i \in 0 .. Len(file.objects)] ==
        IF i = 0 THEN [hal |-> hal, ok |-> TRUE]
        ELSE IF ~upto[i-1].ok THEN upto[i-1]
        ELSE [hal |-> Applied(upto[i-1].hal, file.objects[i]), ok |-> Accepts(file.objects[i])]
  IN upto[Len(file.objects)].hal

(* 0 when the file has no gateway_ID.                                      *)
parse_gateway_configuration(lgwm, file) == IF file.gateway_ID = 0 THEN lgwm ELSE file.gateway_ID

(* The files rak831_config reads, in this order.                           *)
Read(debug, global, local) ==
  IF debug # Absent THEN <<debug>>
  ELSE (IF global # Absent THEN <<global>> ELSE <<>>) \o (IF local # Absent THEN <<local>> ELSE <<>>)

(* Whether a file that cannot be parsed ends the program, and otherwise    *)
(* what the files leave behind.                                            *)
Broken(files) == \E i \in DOMAIN files : files[i].kind = "invalid"

Configured(files) ==
  LET upto[i \in 0 .. Len(files)] ==
        IF i = 0 THEN [hal |-> HalOff, lgwm |-> 0]
        ELSE [hal  |-> parse_SX1301_configuration(upto[i-1].hal, files[i]),
              lgwm |-> parse_gateway_configuration(upto[i-1].lgwm, files[i])]
  IN upto[Len(files)]
=============================================================================
