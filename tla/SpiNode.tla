------------------------------ MODULE SpiNode ------------------------------
(***************************************************************************)
(* A lamp node (Node_SX1278/spiNode1, spiNode2) and the SX1278 driver it   *)
(* uses (Node_SX1278/src/LoRa/LoRa.cpp): loop() reports the lamp to the    *)
(* gateway, and the DIO0 interrupt reads a command and switches the lamp.  *)
(* There is no lock; LoRa.idle() .. LoRa.receive() keeps the radio from    *)
(* receiving, hence from interrupting, while loop() uses lamp and radio.   *)
(* beginTransaction .. endTransaction mask the interrupt but SS is low     *)
(* longer than that, so a transfer of loop() is three steps: SS low, the   *)
(* masked bytes, SS high.  Transfers that follow each other without        *)
(* touching the mode (header mode, FIFO bytes) are taken together.         *)
(***************************************************************************)
EXTENDS Integers, FiniteSets

CONSTANTS
  Commands,  \* what packets may carry: [mine, lamp, mode]
  MaxReports \* reports of three bytes that fit MAX_PKT_LENGTH

Chars == {"1", "2", "x"}               \* "x": any other byte, or none (-1)
Lamps == {"on", "half", "off", "none"} \* "none": neither 02, 01 nor 00

ASSUME NodeAssumption ==
  /\ Commands \subseteq [mine : BOOLEAN, lamp : Lamps, mode : Chars \X Chars]
  /\ MaxReports \in Nat \ {0}

VARIABLES
  \* the SX1278
  mode,       \* REG_OP_MODE
  irq,        \* REG_IRQ_FLAGS
  last,       \* the packet REG_FIFO_RX_CURRENT_ADDR designates
  ptr,        \* the packet REG_FIFO_ADDR_PTR is at, NoPacket for address 0
  txbuf,      \* the status byte at the transmit base, Junk if overwritten
  len,        \* REG_PAYLOAD_LENGTH, in reports
  \* the processor
  pend,       \* the interrupt of DIO0 is latched
  pc,         \* where loop() is
  ss,         \* slave select: "low" before the bytes of loop()'s transfer,
              \* "lost" if the handler raised it then, "tail" after them
  isr,        \* where handleDio0Rise is
  flags,      \* its irqFlags
  \* the sketch
  mode_auto, dark, M0, M1, status_led, pack,
  \* history: nothing above depends on it
  lost,       \* what of this pass of loop() went to no chip: "none" of its
              \* transfers, the one of "idle", or only "later" ones
  garbled,    \* the last handler read its flags at the end of a transfer
              \* of loop(), not from REG_IRQ_FLAGS
  overrun     \* such a handler may have written into the registers after
              \* the one loop() wrote

radioVars == <<mode, irq, last, ptr, txbuf, len>>
lampVars  == <<mode_auto, dark, M0, M1, status_led, pack>>
history   == <<lost, garbled, overrun>>
vars == <<radioVars, pend, pc, ss, isr, flags, lampVars, history>>

NoPacket == [mine |-> FALSE, lamp |-> "none", mode |-> <<"x", "x">>, crcOk |-> FALSE]
Packet(c, ok) == [mine |-> c.mine, lamp |-> c.lamp, mode |-> c.mode, crcOk |-> ok]
Packets == {Packet(c, ok) : c \in Commands, ok \in BOOLEAN} \cup {NoPacket}
Flags == {"RxDone", "CrcErr", "TxDone"}
Junk == -1

(* After setup(). *)
Init ==
  /\ mode = "rx" /\ irq = {} /\ last = NoPacket /\ ptr = NoPacket
  /\ txbuf = Junk /\ len = 0
  /\ pend = FALSE /\ pc = "delay" /\ ss = "high" /\ isr = "off" /\ flags = {}
  /\ mode_auto = TRUE /\ dark = FALSE
  /\ M0 = FALSE /\ M1 = FALSE /\ status_led = 0 /\ pack = 0
  /\ lost = "none" /\ garbled = FALSE /\ overrun = FALSE

-----------------------------------------------------------------------------
(* The radio by itself. A packet raises RxDone, with CrcErr when it is     *)
(* damaged; DIO0 follows RxDone, and its rising edge latches the interrupt.*)
(* Receive and transmit bases are both 0.                                  *)

Receive(c, ok) ==
  /\ mode = "rx"
  /\ last' = Packet(c, ok)
  /\ irq' = irq \cup {"RxDone"} \cup (IF ok THEN {} ELSE {"CrcErr"})
  /\ pend' = (pend \/ "RxDone" \notin irq)
  /\ txbuf' = Junk
  /\ UNCHANGED <<mode, ptr, len, pc, ss, isr, flags, lampVars, history>>

Transmitted ==
  /\ mode = "tx"
  /\ mode' = "standby"
  /\ irq' = irq \cup {"TxDone"}
  /\ UNCHANGED <<last, ptr, txbuf, len, pend, pc, ss, isr, flags, lampVars, history>>

-----------------------------------------------------------------------------
(* handleDio0Rise, with interrupts disabled: loop() does not move.         *)

IsrEnter ==
  /\ pend
  /\ isr = "off"
  /\ pend' = FALSE
  /\ isr' = "flags"
  /\ UNCHANGED <<radioVars, pc, ss, flags, lampVars, history>>

(* An interrupt that came during the bytes of a transfer of loop() is      *)
(* served right after endTransaction: SS is still low, the two bytes of    *)
(* the handler's first transfer continue the burst from the register after *)
(* loop()'s, and what it takes for the flags is some other register.  It   *)
(* leaves SS high, so the rest of the handler is as ever.  When loop() was *)
(* writing, these two bytes are written: after REG_OP_MODE and the FIFO    *)
(* that does nothing, after the registers of beginPacket and write it      *)
(* changes the modem, the transmit base or the longest payload.            *)
IsrFlags ==
  /\ isr = "flags"
  /\ IF ss = "tail"
     THEN flags' \in SUBSET Flags /\ ss' = "high"
     ELSE flags' = irq /\ UNCHANGED ss
  /\ garbled' = (ss = "tail")
  /\ overrun' = (overrun \/ (ss = "tail" /\ pc \in {"write", "txmode"}))
  /\ isr' = "clear"
  /\ UNCHANGED <<radioVars, pend, pc, lampVars, lost>>

(* The transfers of the handler end with SS high. *)
Deselected == IF ss = "low" THEN "lost" ELSE ss

Cleared_GoodOnly == IF "CrcErr" \in flags THEN {} ELSE flags  \* mutant
Cleared == flags                     \* the flags written back as ones

IsrClear ==
  /\ isr = "clear"
  /\ irq' = irq \ Cleared
  /\ isr' = IF "CrcErr" \in flags THEN "off" ELSE "point"
  /\ ss' = IF "CrcErr" \in flags THEN Deselected ELSE ss
  /\ flags' = {}
  /\ UNCHANGED <<mode, last, ptr, txbuf, len, pend, pc, lampVars, history>>

IsrPoint ==
  /\ isr = "point"
  /\ ptr' = last
  /\ isr' = "act"
  /\ UNCHANGED <<mode, irq, last, txbuf, len, pend, pc, ss, flags, lampVars, history>>

(* SPILoRaCheckPacket: bytes 4 and 5 switch the lamp, 6 and 7 the mode.    *)
StatusOf_Half3(lamp) ==                  \* mutant: half is reported as 3
  IF lamp = "on" THEN 1 ELSE IF lamp = "half" THEN 3 ELSE 0
StatusOf(lamp) == IF lamp = "on" THEN 1 ELSE IF lamp = "half" THEN 2 ELSE 0

Lit(s) ==                               \* M0 and M1 for a status
  IF s = 1 THEN <<TRUE, TRUE>> ELSE IF s = 2 THEN <<FALSE, TRUE>> ELSE <<FALSE, FALSE>>

FlagAuto(m)   == \A i \in 1 .. 2 : m[i] = "1"
FlagManual(m) == \A i \in 1 .. 2 : ~(m[i] = "1" /\ m[i] # "2")

ModeAfter(m) ==
  IF FlagAuto(m) /\ ~FlagManual(m) THEN TRUE
  ELSE IF ~FlagAuto(m) /\ FlagManual(m) THEN FALSE
  ELSE mode_auto

IsrAct ==
  /\ isr = "act"
  /\ IF ptr.mine
     THEN mode_auto' = ModeAfter(ptr.mode)
     ELSE UNCHANGED mode_auto
  /\ IF ptr.mine /\ ptr.lamp # "none"
     THEN /\ status_led' = StatusOf(ptr.lamp)
          /\ M0' = Lit(StatusOf(ptr.lamp))[1]
          /\ M1' = Lit(StatusOf(ptr.lamp))[2]
     ELSE UNCHANGED <<status_led, M0, M1>>
  /\ ptr' = NoPacket
  /\ isr' = "off"
  /\ ss' = Deselected
  /\ UNCHANGED <<mode, irq, last, txbuf, len, pend, pc, flags, dark, pack, history>>

-----------------------------------------------------------------------------
(* loop(). A latched interrupt is served before its next step; a transfer  *)
(* masks it from beginTransaction to endTransaction.                       *)

At(p) == pc = p /\ isr = "off" /\ ~pend /\ ss = "high"

TransferPcs == {"idle", "begin", "standby", "fifo", "write", "txmode", "poll", "receive"}

Select ==
  /\ pc \in TransferPcs
  /\ At(pc)
  /\ ss' = "low"
  /\ UNCHANGED <<radioVars, pend, pc, isr, flags, lampVars, history>>

Reached == ss = "low"
(* Of several transfers taken together any may be the one an interrupt met. *)
Clean == Reached /\ ~pend

(* The bytes of a transfer of loop(): they reach the chip when SS is still *)
(* low, and no chip when the handler raised it.                            *)
Transfer(p) ==
  /\ pc = p
  /\ isr = "off"
  /\ ss \in {"low", "lost"}
  /\ ss' = IF Reached THEN "tail" ELSE "high"
  /\ lost' = CASE Reached \/ lost = "idle" -> lost
               [] OTHER -> IF p = "idle" THEN "idle" ELSE "later"
  /\ UNCHANGED <<garbled, overrun>>

Deselect ==
  /\ ss = "tail"
  /\ isr = "off" /\ ~pend
  /\ ss' = "high"
  /\ UNCHANGED <<radioVars, pend, pc, isr, flags, lampVars, history>>

Wakes ==                             \* delay(5000) is over
  /\ At("delay")
  /\ pc' = "idle"
  /\ lost' = "none"
  /\ UNCHANGED <<radioVars, pend, ss, isr, flags, lampVars, garbled, overrun>>

IdleMode_Rx == "rx"                  \* mutant: loop() does not stop receiving
IdleMode == "standby"

idle ==
  /\ Transfer("idle")
  /\ mode' = IF Reached THEN IdleMode ELSE mode
  /\ pc' = "sense"
  /\ UNCHANGED <<irq, last, ptr, txbuf, len, pend, isr, flags, lampVars>>

GetLightIntensity ==
  /\ At("sense")
  /\ IF mode_auto THEN pc' = "pin0" /\ dark' \in BOOLEAN
                  ELSE pc' = "copy" /\ UNCHANGED dark
  /\ UNCHANGED <<radioVars, pend, ss, isr, flags, mode_auto, M0, M1, status_led, pack, history>>

WritePin0 ==
  /\ At("pin0")
  /\ M0' = dark
  /\ pc' = "pin1"
  /\ UNCHANGED <<radioVars, pend, ss, isr, flags, mode_auto, dark, M1, status_led, pack, history>>

WritePin1 ==
  /\ At("pin1")
  /\ M1' = dark
  /\ pc' = "status"
  /\ UNCHANGED <<radioVars, pend, ss, isr, flags, mode_auto, dark, M0, status_led, pack, history>>

SetStatus ==
  /\ At("status")
  /\ status_led' = IF dark THEN 1 ELSE 0
  /\ pc' = "copy"
  /\ UNCHANGED <<radioVars, pend, ss, isr, flags, mode_auto, dark, M0, M1, pack, history>>

CopyStatus ==
  /\ At("copy")
  /\ pack' = status_led
  /\ pc' = "begin"
  /\ UNCHANGED <<radioVars, pend, ss, isr, flags, mode_auto, dark, M0, M1, status_led, history>>

(* isTransmitting: while the radio sends, beginPacket returns 0, which     *)
(* SPILoRaSendPackets does not look at; a lost transfer reads any mode.    *)
isTransmitting ==
  /\ Transfer("begin")
  /\ irq' \in IF Clean THEN {IF mode # "tx" THEN irq \ {"TxDone"} ELSE irq}
              ELSE {irq, irq \ {"TxDone"}}
  /\ pc' \in IF Clean THEN {IF mode = "tx" THEN "write" ELSE "standby"}
             ELSE {"standby", "write"}
  /\ UNCHANGED <<mode, last, ptr, txbuf, len, pend, isr, flags, lampVars>>

beginPacket_idle ==
  /\ Transfer("standby")
  /\ mode' = IF Reached THEN "standby" ELSE mode
  /\ pc' = "fifo"
  /\ UNCHANGED <<irq, last, ptr, txbuf, len, pend, isr, flags, lampVars>>

LengthReset_Missing == len           \* mutant: the length is not reset
LengthReset == 0

beginPacket_fifo ==
  /\ Transfer("fifo")
  /\ ptr' \in {NoPacket} \cup (IF Clean THEN {} ELSE {ptr})
  /\ len' \in {LengthReset} \cup (IF Clean THEN {} ELSE {len})
  /\ pc' = "write"
  /\ UNCHANGED <<mode, irq, last, txbuf, pend, isr, flags, lampVars>>

write ==
  /\ Transfer("write")
  /\ txbuf' \in IF Clean THEN {IF ptr = NoPacket THEN pack ELSE txbuf}
                ELSE {txbuf, pack, Junk}
  /\ len' \in {IF len < MaxReports THEN len + 1 ELSE len}
               \cup (IF Clean THEN {} ELSE {len})
  /\ pc' = "txmode"
  /\ UNCHANGED <<mode, irq, last, ptr, pend, isr, flags, lampVars>>

endPacket_tx ==
  /\ Transfer("txmode")
  /\ mode' = IF Reached THEN "tx" ELSE mode
  /\ pc' = "poll"
  /\ UNCHANGED <<irq, last, ptr, txbuf, len, pend, isr, flags, lampVars>>

DoneFlag_Rx == "RxDone"              \* mutant: the wrong mask is polled
DoneFlag == "TxDone"

(* One turn of the poll, and TxDone cleared when it was seen.              *)
endPacket_poll ==
  /\ Transfer("poll")
  /\ pc' \in IF Clean THEN {IF DoneFlag \in irq THEN "receive" ELSE "poll"}
             ELSE {"poll", "receive"}
  /\ irq' \in IF Clean /\ DoneFlag \notin irq THEN {irq}
              ELSE {irq \ {"TxDone"}} \cup (IF Clean THEN {} ELSE {irq})
  /\ UNCHANGED <<mode, last, ptr, txbuf, len, pend, isr, flags, lampVars>>

receive ==
  /\ Transfer("receive")
  /\ mode' = IF Reached THEN "rx" ELSE mode
  /\ pc' = "delay"
  /\ UNCHANGED <<irq, last, ptr, txbuf, len, pend, isr, flags, lampVars>>

-----------------------------------------------------------------------------
Air == \/ \E c \in Commands, ok \in BOOLEAN : Receive(c, ok)
       \/ Transmitted

Handler == IsrEnter \/ IsrFlags \/ IsrClear \/ IsrPoint \/ IsrAct

Report == \/ isTransmitting \/ beginPacket_idle \/ beginPacket_fifo \/ write
          \/ endPacket_tx \/ endPacket_poll

Loop == \/ Wakes \/ Select \/ Deselect \/ idle \/ GetLightIntensity
        \/ WritePin0 \/ WritePin1 \/ SetStatus \/ CopyStatus
        \/ Report \/ receive

Next == Air \/ Handler \/ Loop

(* The handler runs to its end, the radio ends a transmission, and loop()  *)
(* moves whenever interrupts leave it time again and again.                *)
Fairness == WF_vars(Transmitted) /\ WF_vars(Handler) /\ SF_vars(Loop)

Spec == Init /\ [][Next]_vars
FairSpec == Spec /\ Fairness

-----------------------------------------------------------------------------
(* Properties. *)

LoopPcs == {"delay", "idle", "sense", "pin0", "pin1", "status", "copy", "begin",
            "standby", "fifo", "write", "txmode", "poll", "receive"}

TypeOK ==
  /\ mode \in {"rx", "standby", "tx"}
  /\ irq \subseteq Flags
  /\ last \in Packets /\ ptr \in Packets
  /\ txbuf \in {Junk} \cup 0 .. 2 /\ len \in 0 .. MaxReports
  /\ pend \in BOOLEAN /\ pc \in LoopPcs /\ ss \in {"high", "low", "lost", "tail"}
  /\ isr \in {"off", "flags", "clear", "point", "act"}
  /\ flags \subseteq Flags
  /\ mode_auto \in BOOLEAN /\ dark \in BOOLEAN /\ M0 \in BOOLEAN /\ M1 \in BOOLEAN
  /\ status_led \in 0 .. 2 /\ pack \in 0 .. 2
  /\ lost \in {"none", "idle", "later"} /\ garbled \in BOOLEAN /\ overrun \in BOOLEAN

(* What status_led tells the gateway is what the pins M0 and M1 do.  They  *)
(* only come apart in a pass of loop() whose idle() went to no chip (an    *)
(* interrupt between SS low and beginTransaction, LoRa.cpp:669): then the  *)
(* handler may fall into the three statements that switch the lamp.  An    *)
(* interrupt anywhere else, also at the end of a transfer, does not do it, *)
(* and the next pass under automatic control brings them together again.   *)
Agree == pc \notin {"pin1", "status"} => <<M0, M1>> = Lit(status_led)
LampAsReported == [][Agree /\ lost # "idle" => Agree']_vars

(* What the radio sends is one report, and of the lamp as it is, in every  *)
(* pass of loop() none of whose transfers went to no chip, whatever went   *)
(* to no chip in the passes before, as long as no handler has written into *)
(* the radio's other registers.                                            *)
SendsStatus ==
  mode = "tx" /\ pc = "poll" /\ lost = "none" /\ ~overrun => txbuf = status_led /\ len = 1

(* Under manual control only a command changes the lamp, but for a pass of *)
(* loop() whose idle() went to no chip.                                    *)
ManualSticks ==
  [][~mode_auto /\ <<M0, M1, status_led>>' # <<M0, M1, status_led>>
       => isr = "act" \/ lost = "idle"]_vars

(* DIO0 only interrupts when it rises: when RxDone is up, the interrupt is *)
(* latched or the handler is about to clear the flag. Otherwise the node   *)
(* never hears a command again. There is one way to that: a handler that   *)
(* was served between endTransaction and SS high (LoRa.cpp:674-676), which *)
(* did not see the flags it should write back.                             *)
NotDeaf == "RxDone" \in irq => pend \/ isr \in {"flags", "clear"} \/ garbled

(* Why: a latched interrupt and a handler that starts both mean RxDone is  *)
(* up, and a handler that has not cleared it sees no new edge.             *)
DioInv ==
  /\ TypeOK
  /\ pend => "RxDone" \in irq
  /\ isr \in {"flags", "clear"} => "RxDone" \in irq /\ ~pend
  /\ isr = "clear" => "RxDone" \in flags \/ garbled
  /\ NotDeaf

(* Why the lamp is as reported: once idle() has reached the radio only the *)
(* interrupt latched before is served, and that before the sensor is read. *)
Quiet == {"pin0", "pin1", "status", "copy", "begin", "standby", "fifo", "write",
          "txmode", "poll", "receive"}

LoopInv ==
  /\ lost # "idle" =>
       /\ mode = "rx" => pc \in {"delay", "idle"}
       /\ pc \in Quiet => ~pend /\ isr = "off"
       /\ pc \in {"pin0", "pin1", "status"} => mode_auto
       /\ pc \in {"pin1", "status"} => M0 = dark
       /\ pc = "status" => M1 = dark
  /\ lost = "none" =>
       /\ pc \in {"sense", "pin0", "pin1", "status", "copy", "begin", "standby", "fifo",
                 "write", "txmode"} => mode = "standby"
       /\ pc \in {"begin", "standby", "fifo", "write"} => pack = status_led
       /\ pc = "write" => ptr = NoPacket /\ len = 0
       /\ pc \in {"txmode", "poll"} => txbuf = status_led /\ len = 1

(* A packet that arrived is looked at, unless the node went deaf that way. *)
Answered == "RxDone" \in irq ~> ("RxDone" \notin irq \/ garbled)

(* Unless packets follow each other so closely that every handler finds    *)
(* the next one latched, the node goes on reporting: a pass of loop() that *)
(* lost no transfer ends its poll, and one that hangs there has lost one,  *)
(* or the radio's registers were written over.                             *)
Reports  == []<>(isr = "off" /\ ~pend) => []<>(mode = "tx" \/ lost # "none" \/ overrun)

(* "put in standby mode" (LoRa.cpp:156): from idle() to receive() the      *)
(* radio does not receive.                                                 *)
IdleHolds == pc \notin {"delay", "idle"} => mode # "rx"
=============================================================================
