-------------------------------- MODULE Lbt --------------------------------
(***************************************************************************)
(* Listen before talk (libloragw/src/loragw_lbt.c) as functions of what    *)
(* they are given: the configuration of the channels, the registers of the *)
(* FPGA that scans them, and the verdict of lbt_is_channel_free on a       *)
(* packet.  Bringup keeps the state and calls them.  Times are in          *)
(* microseconds and frequencies in Hz, as in the code.                     *)
(***************************************************************************)
EXTENDS Integers, Sequences

CONSTANT LbtChannels   \* LBT_CHANNEL_FREQ_NB

Least(a, b) == IF a < b THEN a ELSE b
LOCAL Distance(a, b) == IF a < b THEN b - a ELSE a - b
LOCAL Ceil(a, b) == -((-a) \div b)

Slots == 1 .. LbtChannels

-----------------------------------------------------------------------------
(* Configuration: lbt_setconf and lbt_setup. *)

NoLbt == [enable |-> FALSE, channels |-> <<>>]

lbt_setconf_accepts(conf) == Len(conf.channels) \in Slots

(* The FPGA image fixes the lowest frequency.                              *)
lbt_start_freq(initial) == IF initial = 0 THEN 915000000 ELSE 863000000

(* The inactive slots are scanned too, at the lowest frequency.            *)
Filled(conf, start) ==
  [i \in Slots |-> IF i <= Len(conf.channels) THEN conf.channels[i]
                   ELSE [freq_hz |-> start, scan_time_us |-> 128]]

SlotAccepted(conf, start, i) ==
  LET ch == Filled(conf, start)[i]
  IN ch.freq_hz >= start /\ ch.scan_time_us \in {128, 5000}

(* The slots before the first that is refused.                             *)
Accepted(conf, start) ==
  {i \in Slots : \A j \in 1 .. i : SlotAccepted(conf, start, j)}

(* What lbt_setup writes: offsets in 100 kHz, in registers of 8 bits, and  *)
(* a bit for a long scan; a short scan is not written, as after the reset  *)
(* of the FPGA the bit is 0.                                               *)
OffsetsWritten(conf, start) ==
  [i \in Slots |-> ((Filled(conf, start)[i].freq_hz - start) \div 100000) % 256]
ScansWritten(conf, start, bits) ==
  [i \in Slots |-> IF Filled(conf, start)[i].scan_time_us = 5000 THEN 1 ELSE bits[i]]

-----------------------------------------------------------------------------
(* The time a packet is on the air. *)

(* lgw_bw_getval in kHz, lgw_sf_getval: a LoRa packet names both by value. *)
Symbol_us(pkt) == (2^pkt.sf * 1000) \div pkt.bw

PayloadSymbols(pkt) ==
  LET low == IF pkt.sf >= 11 THEN 1 ELSE 0
      bits == 8 * pkt.size - 4 * pkt.sf + 28 + 16 - 20 * (IF pkt.no_header THEN 1 ELSE 0)
  IN 8 + Ceil(bits, 4 * (pkt.sf - 2 * low)) * (pkt.coderate + 4)

AirTime(pkt) ==
  (Symbol_us(pkt) * (4 * pkt.preamble + 17)) \div 4 + PayloadSymbols(pkt) * Symbol_us(pkt)

(* In whole milliseconds.                                                  *)
lgw_time_on_air(pkt) == AirTime(pkt) \div 1000

(* Between the trigger and the first symbol; the notch filter of the FPGA  *)
(* delays by 31.25 ns times half its length.  In tenths of a microsecond.  *)
lgw_fpga_get_tx_notch_delay(offset) == (3125 * ((64 + offset) \div 2)) \div 10000
lgw_get_tx_start_delay(notch, bw) ==
  (14970 - (IF bw = 125 THEN 15 ELSE 0) - notch) \div 10

-----------------------------------------------------------------------------
(* The verdict of lbt_is_channel_free. *)

Turn == 8388608        \* 2^23: the times of a packet are compared in 23 bits
Step == 4096           \* LBT_TIMESTAMP_MASK keeps the upper 11
MASK == Turn - Step
Masked(t) == (t % Turn) - (t % Step)

(* When a channel was free has 24: 16 of LBT_TIMESTAMP_CH, of 256 us each. *)
LbtTurn == 2 * Turn
Stamp(t) == ((t \div 256) % 65536) * 256

is_equal_freq(a, b) == Distance(a, b) <= 10000

(* The channels a packet needs: one for 125 kHz, for 250 kHz two that are  *)
(* neighbours; the first that fits.                                        *)
Fits(conf, pkt, i) ==
  \/ pkt.bw = 125 /\ i <= Len(conf.channels)
     /\ is_equal_freq(pkt.freq_hz, conf.channels[i].freq_hz)
  \/ pkt.bw = 250 /\ i < Len(conf.channels)
     /\ conf.channels[i+1].freq_hz - conf.channels[i].freq_hz = 200000
     /\ is_equal_freq(pkt.freq_hz, (conf.channels[i].freq_hz + conf.channels[i+1].freq_hz) \div 2)

Decoded(conf, pkt) ==
  LET fit == {i \in Slots : Fits(conf, pkt, i)}
  IN IF fit = {} THEN {}
     ELSE LET i == CHOOSE j \in fit : \A k \in fit : j <= k
          IN IF pkt.bw = 125 THEN {i} ELSE {i, i + 1}

First(channels) == CHOOSE i \in channels : \A j \in channels : i <= j

(* How long after its channel was last free a packet may end.              *)
TxMaxTime(scan_time_us, bw) ==
  IF scan_time_us = 5000 THEN 4000000 ELSE IF bw = 125 THEN 400000 ELSE 200000

(* What is read for a channel, when free[i] is when channel i was last     *)
(* free: its stamp; 0 if the read is lost; the stamp of whichever channel  *)
(* was selected before, if the selection is lost.                          *)
Shown(free) == {0} \cup {Stamp(free[i]) : i \in Slots}

LbtTime(channels, shown) ==
  LET first == shown[First(channels)]
  IN IF First(channels) + 1 \in channels
     THEN Least(first, shown[First(channels) + 1])
     ELSE first

TxEnd(pkt, start) == Masked(Masked(start) + lgw_time_on_air(pkt) * 1000)

(* mutant: past the end of the counter the time before it is not counted   *)
Delta_FromZero(lbt_time, tx_end) ==
  IF lbt_time < tx_end THEN tx_end - lbt_time ELSE tx_end

Delta(lbt_time, tx_end) ==
  IF lbt_time < tx_end THEN tx_end - lbt_time ELSE (MASK - lbt_time) + tx_end

(* A difference below zero, which a stamp in the upper half of LbtTurn can *)
(* give, is a very large one, of 32 bits without a sign.                   *)
Within(delta, limit) == 0 <= delta /\ delta < limit - 2048

(* A packet on no channel is refused whatever the limit, as then lbt_time  *)
(* is 0; so is one of whose channels a read was lost.                      *)
Verdict(conf, pkt, start, shown) ==
  IF ~conf.enable THEN "allowed"
  ELSE IF pkt.modulation # "lora" THEN "busy"
  ELSE IF pkt.tx_mode = "IMMEDIATE" THEN "error"
  ELSE LET channels == Decoded(conf, pkt)
       IN IF channels = {} THEN "busy"
          ELSE LET lbt_time == LbtTime(channels, shown)
                   tx_max_time == TxMaxTime(conf.channels[First(channels)].scan_time_us, pkt.bw)
               IN IF Within(Delta(lbt_time, TxEnd(pkt, start)), tx_max_time) /\ lbt_time # 0
                  THEN "allowed" ELSE "busy"

(* How much later than its limit a packet can end, by the rounding of its  *)
(* start and of its end to Step, by the milliseconds of lgw_time_on_air,   *)
(* and by the Step a turn of the counter loses in Delta, less the margin   *)
(* of 2048.                                                                *)
Slack == 2 * Step + 1000 + Step - 2048
=============================================================================
