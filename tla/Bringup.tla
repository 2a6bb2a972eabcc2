------------------------------ MODULE Bringup ------------------------------
(***************************************************************************)
(* From the configuration files to a running concentrator, and again after *)
(* every failure: main.c reads the files once and calls rak831_start until *)
(* it succeeds.  One action per part of lgw_start that can fail, in the    *)
(* order of the code: the FPGA (loragw_fpga.c), the two radios and the     *)
(* scanning radio (loragw_radio.c), listen before talk (Lbt), calibration, *)
(* registers, firmware and the hand-shake with the AGC firmware.  Of many  *)
(* transfers nobody looks at the result (every lgw_reg_w of lgw_start, and *)
(* sx125x_write): one that fails is lost, and the start goes on.           *)
(* LgwHal has the same function in a few steps, among everything else a    *)
(* caller may do; here it is on its own, and its parts are not.            *)
(***************************************************************************)
EXTENDS ConfigFiles, Lbt, FiniteSetsExt

CONSTANTS
  Debugs, Globals, Locals,   \* what each file may be, or Absent
  LbtConfs,                  \* calls of lgw_lbt_setconf
  Boards,                    \* the hardware
  Packets, Frees, Starts,    \* packets to send, when their channels were free,
                             \* how long after that they are to start
  PLL_LOCK_MAX_ATTEMPTS,
  MaxFaults                  \* bound: steps that fail or lose transfers although
                             \* nothing is wrong

Board == [fpga : BOOLEAN, lbt : BOOLEAN, notch : BOOLEAN, initial : 0 .. 2,
          sx127x : {"SX1272", "SX1276", "none"}, locks : [RfChain -> BOOLEAN]]

LbtConf == [enable : BOOLEAN, channels : Seq([freq_hz : Nat, scan_time_us : Nat])]

(* Which radio each chain listens to, as a word: a bit for each chain.     *)
Select(chains) == MapThenSumSet(LAMBDA i : 2^i, chains)

ASSUME BringupAssumption ==
  /\ RfChain = {0, 1} /\ Multi \subseteq 0 .. 7
  /\ LutMax \in Nat /\ LutMax >= 2
  /\ LutMax # 4    \* the code has 16: of 4 the last status is that of the next word
  /\ LbtChannels \in Nat \ {0}
  /\ Boards \subseteq Board
  /\ PLL_LOCK_MAX_ATTEMPTS \in Nat \ {0} /\ MaxFaults \in Nat

ASSUME FilesAssumption == Debugs \cup Globals \cup Locals \subseteq Files \cup {Absent, Invalid}

ASSUME LbtAssumption ==
  /\ LbtConfs \subseteq LbtConf
  /\ Frees \subseteq Nat /\ Starts \subseteq Nat
  /\ \A pkt \in Packets : AirTime(pkt) \in Nat

ASSUME SelectAssumption == \A chains \in SUBSET Multi : Select(chains) \in Words

VARIABLES
  pc,        \* how far the program is
  hal,       \* static configuration of loragw_hal.c
  lgwm,      \* the gateway's identity
  lbt,       \* static configuration of loragw_lbt.c
  board,     \* which hardware it runs on
  attempts,  \* cpt_attempts of lgw_setup_sx125x
  fpga,      \* registers of the FPGA
  radio,     \* state of each radio
  chip,      \* state of the SX1301
  agc,       \* state of its AGC firmware
  step,      \* next word of the hand-shake with it
  faults,    \* steps that failed, or lost transfers, for no lasting reason
  lost,      \* history: what this attempt has lost transfers of
  wanted,    \* what the files say, by the documented precedence
  asked      \* verdict on the last packet

program  == <<hal, lgwm, lbt>>
hardware == <<fpga, radio, chip, agc>>
failures == <<faults, lost>>
vars == <<pc, program, board, attempts, hardware, step, failures, wanted, asked>>

FpgaReset == [scan |-> [i \in Slots |-> 0], offset |-> [i \in Slots |-> 0],
              notch |-> 0, fsm |-> FALSE, level |-> 0, receiving |-> FALSE]
ChipReset == [clock |-> FALSE, peaks |-> [modem \in {"multi", "std", "tx"} |-> <<1, 2>>], ifc |-> [c \in Chains |-> IfOff],
              std |-> [bw |-> 0, dr |-> 0], fsk |-> [bw |-> 0, dr |-> 0], agc |-> "none", arb |-> "none", drift |-> FALSE]
AgcBoot   == [phase |-> "boot", lut |-> <<>>, msb |-> 0, option |-> 0, select |-> 0]
RadioOff  == [state |-> "off", clock |-> FALSE, freq |-> 0]
Torn      == 1        \* the frequency of bytes of two frequencies
NotAsked  == [verdict |-> "none", known |-> FALSE, overdue |-> FALSE]

Init ==
  /\ pc = "config"
  /\ hal = HalOff /\ lgwm = 0 /\ lbt = NoLbt
  /\ board \in Boards
  /\ attempts = 0 /\ step = 1 /\ faults = 0 /\ lost = {}
  /\ fpga = FpgaReset /\ chip = ChipReset /\ agc = AgcBoot
  /\ radio = [c \in RfChain |-> RadioOff]
  /\ wanted = [public |-> FALSE, hidden |-> FALSE, lgwm |-> 0]
  /\ asked = NotAsked

-----------------------------------------------------------------------------
(* The files. *)

(* What the files say, read by hand: a debug file hides the others, and    *)
(* the local file overwrites what is defined in both (439).  A section of  *)
(* the local file that does not define the network hides the global one's. *)
HasSection(f) == f # Absent /\ f.kind # "invalid" /\ f.objects # <<>>
Says(f, what) ==
  IF what = "public" THEN HasSection(f) /\ f.objects[1].named
  ELSE f # Absent /\ f.kind # "invalid" /\ f.gateway_ID # 0
Decides(debug, global, local, what) ==
  IF debug # Absent THEN debug ELSE IF Says(local, what) THEN local ELSE global
Hidden(debug, global, local) ==
  debug = Absent /\ Says(global, "public") /\ HasSection(local) /\ ~Says(local, "public")

Wanted(debug, global, local) ==
  LET kind == Decides(debug, global, local, "public")
      id == Decides(debug, global, local, "id")
  IN [public |-> Says(kind, "public") /\ kind.objects[1].public,
      hidden |-> Hidden(debug, global, local),
      lgwm   |-> IF Says(id, "id") THEN id.gateway_ID ELSE 0]

(* The result is not looked at: without a file the program goes on too.    *)
rak831_config ==
  /\ pc = "config"
  /\ \E debug \in Debugs, global \in Globals, local \in Locals :
       LET files == Read(debug, global, local)
       IN IF Broken(files)
          THEN pc' = "exited" /\ UNCHANGED <<hal, lgwm, wanted>>
          ELSE /\ pc' = "configured"
               /\ hal' = Configured(files).hal
               /\ lgwm' = Configured(files).lgwm
               /\ wanted' = Wanted(debug, global, local)
  /\ UNCHANGED <<lbt, board, attempts, hardware, step, failures, asked>>

(* Only while the concentrator is stopped; the gateway program never does. *)
lgw_lbt_setconf(conf) ==
  /\ pc \in {"configured", "failed", "stopped"}
  /\ lbt_setconf_accepts(conf)
  /\ lbt' = conf
  /\ UNCHANGED <<pc, hal, lgwm, board, attempts, hardware, step, failures, wanted, asked>>

-----------------------------------------------------------------------------
(* lgw_start. *)

configuration == <<hal, lgwm, lbt, board, wanted, asked>>

rak831_start ==
  /\ pc \in {"configured", "failed", "stopped"}
  /\ pc' = "connect"
  /\ UNCHANGED <<configuration, attempts, hardware, step, failures>>

(* A transfer, a check or a firmware fails this once, and it is noticed.   *)
Fault == faults < MaxFaults /\ faults' = faults + 1 /\ pc' = "failed" /\ UNCHANGED lost

(* Transfers fail this once, and it is not.                                *)
Lose(part) == faults < MaxFaults /\ faults' = faults + 1 /\ lost' = lost \cup {part}

(* The offset of the notch filter, in a register of six bits; a frequency  *)
(* out of range is replaced by the default.                                *)
NotchOffset(freq) ==
  (32000000 \div (2 * (IF freq \in NotchFreqs THEN freq ELSE 129000)) - 64) % 64
NotchFreq == hal.rf[IF hal.rf[1].tx THEN 1 ELSE 0].notch

lgw_fpga_configure(regs) ==
  [regs EXCEPT !.notch = IF board.notch THEN NotchOffset(NotchFreq) ELSE @]

AfterReset(regs) == [FpgaReset EXCEPT !.receiving = regs.receiving /\ board.sx127x = "SX1272"]

(* lgw_connect: the FPGA is reset, which holds an SX1276 in reset too, and *)
(* configured; then the SX1301 is reset and with it everything it drives.  *)
(* Lost may be the reset of the FPGA or its features, the reset of the     *)
(* SX1301, whose counter then goes on where it was, or that of the radios. *)
Losable == {"clock", "radios"} \cup (IF board.fpga THEN {"fpga", "features"} ELSE {})

lgw_connect ==
  /\ pc = "connect"
  /\ \/ /\ faults < MaxFaults /\ faults' = faults + 1 /\ lost' = {} /\ pc' = "failed"
        /\ fpga' \in {fpga} \cup (IF board.fpga THEN {AfterReset(fpga)} ELSE {})
        /\ UNCHANGED <<radio, chip, agc>>
     \/ \E parts \in SUBSET Losable :
        /\ pc' = "setup0" /\ lost' = parts
        /\ IF parts = {} THEN UNCHANGED faults ELSE faults < MaxFaults /\ faults' = faults + 1
        /\ LET regs == IF board.fpga /\ "fpga" \notin parts THEN AfterReset(fpga) ELSE fpga
           IN fpga' = IF board.fpga /\ "features" \notin parts THEN lgw_fpga_configure(regs) ELSE regs
        /\ chip' = IF "clock" \in parts THEN [chip EXCEPT !.clock = FALSE, !.drift = TRUE] ELSE ChipReset
        /\ agc' = IF "clock" \in parts THEN agc ELSE AgcBoot
        /\ radio' = IF "radios" \in parts THEN radio ELSE [c \in RfChain |-> RadioOff]
  /\ UNCHANGED <<configuration, attempts, step>>

(* lgw_setup_sx125x writes a radio's clock and frequency, by transfers of  *)
(* which any may be lost.  A radio that was reset is then in standby.      *)
RadioA == "radio A"
RadioB == "radio B"
Part(c)  == IF c = 0 THEN RadioA ELSE RadioB
Lock(c)  == IF c = 0 THEN "pll0" ELSE "pll1"
After(c) == IF c = 0 THEN "setup1" ELSE "lbt"

Freq(c) == IF hal.rf[c].enable THEN hal.rf[c].freq ELSE radio[c].freq
Tuned(c, clock, freq) ==
  [state |-> IF radio[c].state = "off" THEN "standby" ELSE radio[c].state,
   clock |-> clock, freq |-> freq]

lgw_setup_sx125x(c) ==
  /\ pc = (IF c = 0 THEN "setup0" ELSE "setup1")
  /\ pc' = IF hal.rf[c].enable THEN Lock(c) ELSE After(c)
  /\ \/ /\ radio' = [radio EXCEPT ![c] = Tuned(c, hal.clkout = c, Freq(c))]
        /\ UNCHANGED failures
     \/ /\ Lose(Part(c))
        /\ \E clock \in {radio[c].clock, hal.clkout = c}, freq \in {radio[c].freq, Torn, Freq(c)} :
             radio' = [radio EXCEPT ![c] = Tuned(c, clock, freq)]
  /\ UNCHANGED <<configuration, attempts, fpga, chip, agc, step>>

(* Then an enabled radio's PLL is to lock, in at most PLL_LOCK_MAX_ATTEMPTS*)
(* attempts.  Lost, the question for the lock is answered by the register  *)
(* written last, in which the bit of the lock is set.                      *)
Attempt_Uncounted(n) == n          \* mutant: the attempt is not counted
Attempt(n) == n + 1

Switched(c, state) == radio' = [radio EXCEPT ![c].state = state]

lock_pll(c) ==
  /\ pc = Lock(c)
  /\ \/ /\ attempts >= PLL_LOCK_MAX_ATTEMPTS
        /\ pc' = "failed" /\ attempts' = 0
        /\ UNCHANGED <<radio, failures>>
     \/ /\ attempts < PLL_LOCK_MAX_ATTEMPTS /\ board.locks[c]
        /\ Switched(c, "locked")
        /\ pc' = After(c) /\ attempts' = 0 /\ UNCHANGED failures
     \/ /\ attempts < PLL_LOCK_MAX_ATTEMPTS
        /\ IF board.locks[c] THEN faults < MaxFaults /\ faults' = faults + 1
                             ELSE UNCHANGED faults
        /\ Switched(c, "unlocked")
        /\ attempts' = Attempt(attempts) /\ UNCHANGED <<pc, lost>>
     \/ /\ attempts < PLL_LOCK_MAX_ATTEMPTS
        /\ Lose(Part(c)) /\ Switched(c, "unlocked")
        /\ pc' = After(c) /\ attempts' = 0
  /\ UNCHANGED <<configuration, fpga, chip, agc, step>>

(* The scanning radio: each type is reset its own way and asked for its    *)
(* version; a radio in reset has none.  If neither answers, the loop, whose*)
(* bound is the size of the table in bytes, goes on behind it, where the   *)
(* build finds no type it can reset.                                       *)
Probes == <<[type |-> "SX1272", level |-> 0], [type |-> "SX1276", level |-> 1]>>
Found(type) == {i \in 1 .. 2 : Probes[i].type = type}

(* setup_sx1272_FSK, setup_sx1276_FSK: from reset to sleep, standby and    *)
(* continuous reception, unless a transfer fails or the radio is not ready.*)
setup_FSK(regs) == [regs EXCEPT !.receiving = TRUE]

(* lbt_setup up to slot n of the FPGA.                                     *)
ScanRegisters(n, level) ==
  LET start == lbt_start_freq(board.initial)
  IN [setup_FSK(fpga) EXCEPT
        !.level = level,
        !.offset = [i \in Slots |-> IF i <= n THEN OffsetsWritten(lbt, start)[i] ELSE fpga.offset[i]],
        !.scan = [i \in Slots |-> IF i <= n THEN ScansWritten(lbt, start, fpga.scan)[i] ELSE fpga.scan[i]]]

LbtSupported ==
  /\ board.fpga /\ board.lbt /\ board.initial \in {0, 1}
  /\ Found(board.sx127x) # {}

lbt_setup ==
  /\ pc = "lbt"
  /\ \/ /\ ~lbt.enable
        /\ pc' = "clock" /\ UNCHANGED <<fpga, failures>>
     \/ /\ lbt.enable /\ ~LbtSupported
        /\ pc' = "failed" /\ UNCHANGED <<fpga, failures>>
     \/ /\ lbt.enable /\ LbtSupported /\ Fault
        /\ \E i \in 1 .. 2 : fpga' = [fpga EXCEPT !.level = Probes[i].level, !.receiving = FALSE]
     \/ /\ lbt.enable /\ LbtSupported
        /\ \E i \in Found(board.sx127x), n \in {0} \cup Accepted(lbt, lbt_start_freq(board.initial)) :
             /\ fpga' = ScanRegisters(n, Probes[i].level)
             /\ \/ Fault
                \/ /\ n = LbtChannels
                   /\ pc' = "fsm" /\ UNCHANGED failures
                \/ /\ n < LbtChannels /\ n + 1 \notin Accepted(lbt, lbt_start_freq(board.initial))
                   /\ pc' = "failed" /\ UNCHANGED failures
  /\ UNCHANGED <<configuration, attempts, radio, chip, agc, step>>

lbt_start ==
  /\ pc = "fsm"
  /\ \/ Fault /\ UNCHANGED fpga
     \/ pc' = "clock" /\ fpga' = [fpga EXCEPT !.fsm = TRUE] /\ UNCHANGED failures
  /\ UNCHANGED <<configuration, attempts, radio, chip, agc, step>>

(* The counter of the SX1301 starts.  With a gate or an enable of its clock*)
(* lost (726, 749, 757, 769) it starts at another time than the scan, or   *)
(* not at all.                                                             *)
Clock ==
  /\ pc = "clock"
  /\ pc' = "calibrate"
  /\ \/ chip' = [chip EXCEPT !.clock = TRUE] /\ UNCHANGED failures
     \/ Lose("clock") /\ \E on \in BOOLEAN : chip' = [chip EXCEPT !.clock = on, !.drift = TRUE]
  /\ UNCHANGED <<configuration, attempts, fpga, radio, agc, step>>

(* load_firmware finds a program that was not read back as written, and    *)
(* nobody looks at what it returns: only a wrong version is noticed.       *)
Programs(fw) == {fw} \cup (IF faults < MaxFaults THEN {"damaged"} ELSE {})

(* Two seconds in which a scan and a counter that are not both running     *)
(* drift apart.                                                            *)
Calibrate ==
  /\ pc = "calibrate"
  /\ \E fw \in Programs("cal") :
       chip' = [chip EXCEPT !.agc = fw, !.drift = chip.drift \/ (lbt.enable /\ fpga.fsm # chip.clock)]
  /\ Fault \/ (pc' = "modems" /\ UNCHANGED failures)
  /\ UNCHANGED <<configuration, attempts, fpga, radio, agc, step>>

(* lgw_constant_adjust and the registers of the modems; without a frequency*)
(* for radio 0 only the first.  The standard modem has registers for three *)
(* bandwidths and six spreading factors only.                              *)
lgw_constant_adjust ==
  [modem \in {"multi", "std", "tx"} |-> IF hal.public THEN <<3, 4>> ELSE <<1, 2>>]

StdFits == hal.ifc[Std].enable => hal.std.bw \in {125000, 250000, 500000} /\ hal.std.dr \in 7 .. 12

Kept == {"peaks", "ifc", "std", "fsk"}
Written(kept) ==
  [peaks |-> IF "peaks" \in kept THEN chip.peaks ELSE lgw_constant_adjust,
   ifc   |-> IF "ifc" \in kept THEN chip.ifc ELSE hal.ifc,
   std   |-> IF "std" \in kept \/ ~hal.ifc[Std].enable THEN chip.std ELSE hal.std,
   fsk   |-> IF "fsk" \in kept \/ ~hal.ifc[Fsk].enable THEN chip.fsk ELSE hal.fsk]

Modems ==
  /\ pc = "modems"
  /\ LET whole == hal.rf[0].freq # 0 /\ StdFits
         none  == IF whole THEN {} ELSE Kept \ {"peaks"}
     IN /\ pc' = IF whole THEN "load" ELSE "failed"
        /\ \E kept \in SUBSET Kept :
             /\ none \subseteq kept
             /\ IF kept = none THEN UNCHANGED failures ELSE Lose("modems")
             /\ chip' = [chip EXCEPT !.peaks = Written(kept).peaks, !.ifc = Written(kept).ifc,
                                     !.std = Written(kept).std, !.fsk = Written(kept).fsk]
  /\ UNCHANGED <<configuration, attempts, fpga, radio, agc, step>>

load_firmware ==
  /\ pc = "load"
  /\ \E arb \in Programs("arb"), fw \in Programs("agc") :
       chip' = [chip EXCEPT !.arb = arb, !.agc = fw]
  /\ agc' = AgcBoot
  /\ \/ Fault /\ UNCHANGED step
     \/ pc' = "agc" /\ step' = 1 /\ UNCHANGED failures
  /\ UNCHANGED <<configuration, attempts, fpga, radio>>

(* The words sent to the AGC firmware, each with the status that must come *)
(* back: the gain table, an abort when it is not full, the upper bits of   *)
(* the frequency, an option, and which radio each chain listens to.        *)
RadioSelect == Select({i \in Multi : hal.ifc[i].rf = 1})

Abort == 17
Script_Short(size) ==     \* mutant: the table ends one entry early
  [i \in 1 .. size - 1 |-> [word |-> hal.lut[i], status |-> 47 + i]]
  \o <<[word |-> Abort, status |-> 48], [word |-> 3, status |-> 51],
       [word |-> 0, status |-> 48], [word |-> RadioSelect, status |-> 64]>>

Script(size) ==
  [i \in 1 .. size |-> [word |-> hal.lut[i], status |-> 47 + i]]
  \o (IF size < LutMax THEN <<[word |-> Abort, status |-> 48]>> ELSE <<>>)
  \o <<[word |-> 3, status |-> 51], [word |-> 0, status |-> 48],
       [word |-> RadioSelect, status |-> 64]>>

(* How the firmware takes a word, and its status afterwards.               *)
Taken(word) ==
  CASE agc.phase = "boot" -> IF word = Abort THEN [agc EXCEPT !.phase = "msb"]
                             ELSE [agc EXCEPT !.lut = Append(agc.lut, word),
                                              !.phase = IF Len(agc.lut) + 1 = LutMax THEN "msb" ELSE "boot"]
    [] agc.phase = "msb" -> [agc EXCEPT !.msb = word, !.phase = "option"]
    [] agc.phase = "option" -> [agc EXCEPT !.option = word, !.phase = "select"]
    [] agc.phase = "select" -> [agc EXCEPT !.select = word, !.phase = "run"]
    [] agc.phase = "run" -> agc

Status(word) ==
  CASE agc.phase = "boot" -> IF word = Abort THEN 48 ELSE 48 + Len(agc.lut)
    [] agc.phase \in {"msb", "option"} -> 48 + word
    [] agc.phase \in {"select", "run"} -> 64

(* The status to be read when a word is lost: that after the word before,  *)
(* or that of a firmware that has just started.  A status that is not read *)
(* is 0, which is none of them.                                            *)
StatusBefore(words) == IF step = 1 THEN 16 ELSE words[step - 1].status

Compare(status, words) ==
  IF status # words[step].status THEN pc' = "failed" /\ UNCHANGED step
  ELSE IF step = Len(words) THEN pc' = "started" /\ step' = 1
  ELSE UNCHANGED pc /\ step' = step + 1

AgcInit ==
  /\ pc = "agc"
  /\ LET words == Script(Len(hal.lut))
         sent == words[step]
     IN \/ /\ agc' = Taken(sent.word)
           /\ \/ Fault /\ UNCHANGED step
              \/ Compare(Status(sent.word), words) /\ UNCHANGED failures
        \/ /\ faults < MaxFaults /\ faults' = faults + 1
           /\ Compare(StatusBefore(words), words)
           /\ UNCHANGED <<agc, lost>>
  /\ UNCHANGED <<configuration, attempts, fpga, radio, chip>>

-----------------------------------------------------------------------------
(* Running. *)

(* The FPGA goes on scanning, and if the reset is lost all the rest too.   *)
lgw_stop ==
  /\ pc = "started"
  /\ pc' = "stopped"
  /\ \/ /\ chip' = ChipReset /\ agc' = AgcBoot
        /\ radio' = [c \in RfChain |-> RadioOff]
        /\ UNCHANGED faults
     \/ /\ faults < MaxFaults /\ faults' = faults + 1
        /\ UNCHANGED <<chip, agc, radio>>
  /\ asked' = NotAsked
  /\ UNCHANGED <<hal, lgwm, lbt, board, wanted, attempts, fpga, step, lost>>

(* tx_notch_support: an FPGA whose features were not read has no filter.   *)
tx_notch_support == board.notch /\ "features" \notin lost

(* When a packet starts: at its timestamp, or a second and the delay of the*)
(* transmitter after the last pulse.                                       *)
Start(pkt, t) ==
  IF pkt.tx_mode = "ON_GPS"
  THEN t + lgw_get_tx_start_delay(IF tx_notch_support THEN lgw_fpga_get_tx_notch_delay(fpga.notch) ELSE 0, pkt.bw) + 1000000
  ELSE t

(* Whether the counters can tell: the packet ends within a turn of them    *)
(* after its channels were free, which was in one turn of the stamps, and  *)
(* the channels have the same limit.                                       *)
Comparable(pkt, start, free) ==
  LET channels == Decoded(lbt, pkt)
  IN \A i, j \in channels :
       /\ start + AirTime(pkt) - free[i] < Turn
       /\ free[i] \div LbtTurn = free[j] \div LbtTurn
       /\ lbt.channels[i].scan_time_us = lbt.channels[j].scan_time_us

(* Whether it was asked for the right channels, at the right time: a lost  *)
(* selection or trigger count is not noticed.                              *)
Heard(pkt, free, shown) ==
  \A i \in Decoded(lbt, pkt) : shown[i] \in {0, Stamp(free[i])}

Overdue(pkt, start, free) ==
  \E i \in Decoded(lbt, pkt) :
    start + AirTime(pkt) - free[i] >= TxMaxTime(lbt.channels[i].scan_time_us, pkt.bw) + Slack

(* A packet is asked for at a time or after the pulse at that time, which  *)
(* reads as 0 when lost.                                                   *)
lgw_send ==
  /\ pc = "started" /\ lbt.enable
  /\ \E pkt \in Packets, odd \in Frees, even \in Frees, wait \in Starts :
       LET free == [i \in Slots |-> IF i % 2 = 1 THEN odd ELSE even]
           time == odd + wait
           start == Start(pkt, time)
       IN \E read \in {time} \cup (IF pkt.tx_mode = "ON_GPS" THEN {0} ELSE {}),
             shown \in [Decoded(lbt, pkt) -> Shown(free)] :
            asked' = [verdict |-> Verdict(lbt, pkt, Start(pkt, read), shown),
                      known   |-> read = time /\ Heard(pkt, free, shown) /\ Comparable(pkt, start, free),
                      overdue |-> Overdue(pkt, start, free)]
  /\ UNCHANGED <<pc, hal, lgwm, lbt, board, attempts, hardware, step, failures, wanted>>

lgw_start ==
  \/ lgw_connect
  \/ \E c \in RfChain : lgw_setup_sx125x(c) \/ lock_pll(c)
  \/ lbt_setup \/ lbt_start \/ Clock \/ Calibrate \/ Modems \/ load_firmware \/ AgcInit

Next ==
  \/ rak831_config \/ rak831_start \/ lgw_start \/ lgw_stop \/ lgw_send
  \/ \E conf \in LbtConfs : lgw_lbt_setconf(conf)

Spec == Init /\ [][Next]_vars

(* The program runs on; nobody has to stop it, configure it or send.       *)
FairSpec == Spec /\ WF_vars(rak831_config \/ rak831_start \/ lgw_start)

-----------------------------------------------------------------------------
(* Properties. *)

Chain == [enable : BOOLEAN, rf : RfChain, freq : Int]
Demodulator == [bw : Nat, dr : Nat]

RadioSettings ==
  [enable : BOOLEAN, type : RadioTypes, freq : Nat, tx : BOOLEAN, notch : {0} \cup NotchFreqs]
Hals ==
  [public : BOOLEAN, clkout : Words, lut : Seq(Words),
   rf : [RfChain -> RadioSettings],
   ifc : [Chains -> Chain], std : Demodulator, fsk : Demodulator]
Fpgas ==
  [scan : [Slots -> {0, 1}], offset : [Slots -> Words], notch : 0 .. 63,
   fsm : BOOLEAN, level : {0, 1}, receiving : BOOLEAN]
Radios == [state : {"off", "standby", "unlocked", "locked"}, clock : BOOLEAN, freq : Nat]
Chips ==
  [clock : BOOLEAN, peaks : [{"multi", "std", "tx"} -> {<<1, 2>>, <<3, 4>>}],
   ifc : [Chains -> Chain], std : Demodulator, fsk : Demodulator, agc : {"none", "cal", "agc", "damaged"},
   arb : {"none", "arb", "damaged"}, drift : BOOLEAN]
Agcs ==
  [phase : {"boot", "msb", "option", "select", "run"}, lut : Seq(Words),
   msb : Words, option : Words, select : Words]

Parts == {"fpga", "features", "clock", "radios", RadioA, RadioB, "modems"}

(* Types; an attempt that is under way has faulted less often than allowed,*)
(* never counts more than PLL_LOCK_MAX_ATTEMPTS locks (446-470), the       *)
(* frequency of the crystal is never divided by a datarate of 0 (971), the *)
(* hand-shake never gives the firmware a table longer than its own.        *)
ControlOK ==
  /\ pc \in {"config", "configured", "connect", "setup0", "pll0", "setup1", "pll1", "lbt",
             "fsm", "clock", "calibrate", "modems", "load", "agc", "started", "failed",
             "stopped", "exited"}
  /\ attempts \in 0 .. PLL_LOCK_MAX_ATTEMPTS
  /\ faults \in 0 .. MaxFaults
  /\ lost \subseteq Parts
ConfigurationOK ==
  /\ hal \in Hals /\ Len(hal.lut) \in 1 .. LutMax
  /\ hal.ifc[Fsk].enable => hal.fsk.bw \in FskBandwidths /\ hal.fsk.dr \in FskDatarates
  /\ lgwm \in Nat /\ wanted \in [public : BOOLEAN, hidden : BOOLEAN, lgwm : Nat]
  /\ lbt \in LbtConf /\ Len(lbt.channels) \in 0 .. LbtChannels
  /\ board \in Board
HardwareOK ==
  fpga \in Fpgas /\ radio \in [RfChain -> Radios] /\ chip \in Chips
FirmwareOK ==
  /\ agc \in Agcs /\ Len(agc.lut) <= LutMax /\ (agc.phase = "boot" => Len(agc.lut) < LutMax)
  /\ step \in 1 .. LutMax + 3 /\ (pc = "agc" => step <= Len(Script(Len(hal.lut))))
AskedOK ==
  asked \in [verdict : {"none", "allowed", "busy", "error"}, known : BOOLEAN, overdue : BOOLEAN]

TypeOK == ControlOK /\ ConfigurationOK /\ HardwareOK /\ FirmwareOK /\ AskedOK

(* The files: an identity by the documented precedence, and a kind of      *)
(* network, unless a local section without one hid it.                     *)
AsTheFilesSay ==
  /\ ~wanted.hidden => \A modem \in DOMAIN chip.peaks :
       chip.peaks[modem] = IF wanted.public THEN <<3, 4>> ELSE <<1, 2>>
  /\ lgwm = wanted.lgwm

(* The modems: the channels of the configuration, and its demodulators.    *)
ModemsRun ==
  /\ chip.ifc = hal.ifc
  /\ hal.ifc[Std].enable => chip.std = hal.std
  /\ hal.ifc[Fsk].enable => chip.fsk = hal.fsk

(* The firmware took every word of the hand-shake for what it was meant.   *)
AsTheScriptSays ==
  agc = [phase |-> "run", lut |-> hal.lut, msb |-> 3, option |-> 0, select |-> RadioSelect]

(* Enabled radios run, on their frequency; one radio clocks the other.     *)
RadioRuns(c) ==
  /\ radio[c].state = IF hal.rf[c].enable THEN "locked" ELSE "standby"
  /\ hal.rf[c].enable => radio[c].freq = hal.rf[c].freq
  /\ radio[c].clock <=> c = hal.clkout

(* What a radio's state can be taken from: its own transfers, and its reset*)
(* if it is not used.                                                      *)
RadioTold(c) ==
  Part(c) \notin lost /\ ("radios" \in lost => hal.rf[c].enable)
RadiosRun == \A c \in RfChain : RadioTold(c) => RadioRuns(c)

(* The FPGA scans the configured channels with the configured times on a   *)
(* radio that receives, and its counter is in step with the concentrator's;*)
(* or it does not scan.                                                    *)
SlotsSet ==
  LET start == lbt_start_freq(board.initial)
  IN \A i \in Slots :
       LET ch == Filled(lbt, start)[i]
       IN /\ fpga.scan[i] = IF ch.scan_time_us = 5000 THEN 1 ELSE 0
          /\ ch.freq_hz < start + 25600000 => start + 100000 * fpga.offset[i] <= ch.freq_hz
ReadyToScan ==
  fpga.receiving /\ Probes[fpga.level + 1].type = board.sx127x /\ SlotsSet
ScansAsConfigured ==
  /\ fpga.fsm = lbt.enable
  /\ lbt.enable => ReadyToScan
InStep == lbt.enable => ~chip.drift

(* A concentrator that lgw_start reported as started (1087) is what the    *)
(* present configuration says, in each of its parts whose transfers in this*)
(* attempt all arrived, and whatever earlier attempts, stops and other     *)
(* configurations left behind.  The firmware's part needs no such excuse:  *)
(* its hand-shake notices every word that is lost.                         *)
Coherent ==
  pc = "started" =>
    /\ lgwm = wanted.lgwm
    /\ "modems" \notin lost => AsTheFilesSay /\ ModemsRun
    /\ AsTheScriptSays
    /\ RadiosRun
    /\ "fpga" \notin lost => ScansAsConfigured
    /\ lost \cap {"fpga", "clock"} = {} => InStep

(* Why: every part of lgw_start leaves what it is responsible for as it    *)
(* must be, whatever it finds, and no later part of the same attempt spoils*)
(* it.  The parts that are done, by where the attempt is:                  *)
PeaksDone     == {"load", "agc", "started"}
CalibrateDone == {"modems"} \cup PeaksDone
ClockDone     == {"calibrate"} \cup CalibrateDone
ScanDone      == {"clock"} \cup ClockDone
LbtDone       == {"fsm"} \cup ScanDone
Pll1Done      == {"lbt"} \cup LbtDone
Setup1Done    == {"pll1"} \cup Pll1Done
Pll0Done      == {"setup1"} \cup Setup1Done
Setup0Done    == {"pll0"} \cup Pll0Done
ConnectDone   == {"setup0"} \cup Setup0Done

(* The files were read as documented, and no gain of the table is the word *)
(* that ends it early.                                                     *)
FilesRead ==
  /\ ~wanted.hidden => hal.public = wanted.public
  /\ lgwm = wanted.lgwm
  /\ \A i \in DOMAIN hal.lut : hal.lut[i] # Abort

(* A radio that was reset is off until it is set up, and has its clock and *)
(* its frequency before its PLL is to lock.                                *)
RadioSet(c) ==
  /\ hal.rf[c].enable => radio[c].freq = hal.rf[c].freq
  /\ radio[c].clock <=> c = hal.clkout
RadiosSet ==
  /\ pc \in ConnectDone \ Setup0Done /\ "radios" \notin lost => radio[0] = RadioOff
  /\ pc \in ConnectDone \ Setup1Done /\ "radios" \notin lost => radio[1] = RadioOff
  /\ pc \in ConnectDone \ Setup0Done => RadioA \notin lost
  /\ pc \in ConnectDone \ Setup1Done => RadioB \notin lost
  /\ pc = "pll0" => hal.rf[0].enable /\ (RadioA \notin lost => RadioSet(0))
  /\ pc = "pll1" => hal.rf[1].enable /\ (RadioB \notin lost => RadioSet(1))
  /\ pc \in Pll0Done /\ RadioTold(0) => RadioRuns(0)
  /\ pc \in Pll1Done /\ RadioTold(1) => RadioRuns(1)

(* An FPGA that was reset does not scan, and scans as configured once it is*)
(* told to; one that is not there never did.                               *)
Quiet == ~fpga.fsm /\ \A i \in Slots : fpga.scan[i] = 0
ScanSet ==
  /\ ~board.fpga => Quiet
  /\ pc = "fsm" => lbt.enable /\ board.fpga
  /\ "fpga" \notin lost =>
       /\ pc \in ConnectDone \ LbtDone => Quiet
       /\ pc \in LbtDone /\ lbt.enable => ReadyToScan
       /\ pc \in ScanDone => fpga.fsm = lbt.enable
  /\ pc \in ClockDone /\ "clock" \notin lost => chip.clock
  /\ lost \cap {"fpga", "clock"} = {} /\ pc \in ConnectDone /\ lbt.enable => ~chip.drift

PeaksSet ==
  pc \in PeaksDone /\ "modems" \notin lost =>
    /\ \A modem \in DOMAIN chip.peaks : chip.peaks[modem] = lgw_constant_adjust[modem]
    /\ ModemsRun

(* What the firmware has been told before the word of a step: the table    *)
(* and the word that ends a short one, then one word of each kind.         *)
TableWords == Len(hal.lut) + (IF Len(hal.lut) < LutMax THEN 1 ELSE 0)
Told(s) ==
  [phase  |-> IF s <= TableWords THEN "boot" ELSE IF s = TableWords + 1 THEN "msb"
              ELSE IF s = TableWords + 2 THEN "option" ELSE "select",
   lut    |-> SubSeq(hal.lut, 1, IF s <= Len(hal.lut) THEN s - 1 ELSE Len(hal.lut)),
   msb    |-> IF s >= TableWords + 2 THEN 3 ELSE 0,
   option |-> 0, select |-> 0]

(* The one loss that is not noticed at once is that of the word that ends a*)
(* table of one entry, whose status is the entry's; the next word shows it.*)
EndLost == Len(hal.lut) = 1 /\ step = 3 /\ agc = Told(2)
Understood ==
  /\ pc = "agc" => agc = Told(step) \/ EndLost
  /\ pc = "started" => AsTheScriptSays

CoherentInv == FilesRead /\ RadiosSet /\ ScanSet /\ PeaksSet /\ Understood

(* A packet lbt_is_channel_free lets pass (218-360) does not end later     *)
(* after any of its channels was last free than the limit of the channel,  *)
(* up to the rounding of the code, where the counters can tell at all and  *)
(* it was told of the right channels: a stamp that was not read lets none  *)
(* pass.                                                                   *)
ClearAir == asked.verdict = "allowed" /\ asked.known => ~asked.overdue

(* Nothing lasting is in the way of a start.                               *)
Startable ==
  /\ hal.rf[0].freq # 0
  /\ \A c \in RfChain : hal.rf[c].enable => board.locks[c]
  /\ lbt.enable => LbtSupported /\ LbtChannels \in Accepted(lbt, lbt_start_freq(board.initial))

(* Every lgw_start returns, with a radio that never locks too; and the     *)
(* retries of configAndStartConcentrator (main.c 121-127) overcome what    *)
(* does not last.                                                          *)
Settles ==
  /\ pc = "connect" ~> pc \in {"failed", "started"}
  /\ (pc = "connect" /\ Startable) ~> (pc = "started" \/ ~Startable)
=============================================================================
