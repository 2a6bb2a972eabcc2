------------------------------- MODULE LgwHal -------------------------------
(***************************************************************************)
(* The concentrator HAL (Gateway/libloragw/src/loragw_hal.c) as the        *)
(* gateway programs drive it through Gateway/main/src/rak831_api.c: the    *)
(* static configuration the _setconf functions write, its transfer to the  *)
(* SX1301 by lgw_start, the packet fetch loop of lgw_receive and the       *)
(* transmit-then-poll loop of rak831_send.  The chip (receive FIFO, modems,*)
(* AGC firmware, transmit state machine) is external and modelled from how *)
(* the HAL uses it.                                                        *)
(***************************************************************************)
EXTENDS Integers, Sequences, FiniteSets

CONSTANTS
  RfChain,    \* radios of the board; radio 0 must have a frequency to start
  IfChain,    \* IF + modem chains
  BadChain,   \* a chain number outside IfChain found in FIFO metadata
  RfConfs,    \* radio configurations the caller passes to lgw_rxrf_setconf
  IfConfs,    \* chain configurations passed to lgw_rxif_setconf
  LutConfs,   \* TX gain tables passed to lgw_txgain_setconf
  Powers,     \* transmit powers asked of lgw_send
  HalfSpan,   \* largest |IF| a radio's bandwidth leaves to a channel
  LutMax,     \* TX_GAIN_LUT_SIZE_MAX
  FifoMax,    \* LGW_PKT_FIFO_SIZE, also the size of the array rxpkt
  MaxId,      \* bound: packets the air delivers in one behaviour
  Restarts,   \* the caller may call lgw_start on a started concentrator
  LiveGain,   \* the caller may call lgw_txgain_setconf on a started one
  Corrupt     \* FIFO metadata may name a chain that does not exist

LutIndex == 0 .. LutMax - 1
Gain     == [power : Int, ok : BOOLEAN]
RfConf   == [enable : BOOLEAN, freq : Nat, tx_enable : BOOLEAN]
IfConf   == [enable : BOOLEAN, rf : RfChain, freq : Int]
Lut      == [size : 1 .. LutMax, lut : [LutIndex -> Gain]]

ASSUME HalAssumption ==
  /\ 0 \in RfChain
  /\ BadChain \notin IfChain
  /\ RfConfs \subseteq RfConf
  /\ IfConfs \subseteq IfConf
  /\ LutConfs \subseteq Lut
  /\ Powers \subseteq Int
  /\ HalfSpan \in Nat
  /\ LutMax \in Nat /\ LutMax >= 2
  /\ FifoMax \in Nat \ {0}
  /\ MaxId \in Nat
  /\ Restarts \in BOOLEAN /\ LiveGain \in BOOLEAN /\ Corrupt \in BOOLEAN

VARIABLES
  started,  \* lgw_is_started
  link,     \* lgw_spi_target: "none" (NULL), "open", or "stale" (closed fd)
  loading,  \* lgw_start has configured the chip and is starting its firmware
  rf,       \* rf_enable, rf_rx_freq, rf_tx_enable
  ifc,      \* if_enable, if_rf_chain, if_freq
  lut,      \* txgain_lut
  chip,     \* what the SX1301 holds: phase, loaded configuration, calibration
  fifo,     \* its receive FIFO
  tx,       \* its transmitter
  rx,       \* the lgw_receive call in progress and the array it fills
  txpc,     \* rak831_send: "idle", or "poll" while it waits for TX_FREE
  nextId    \* identity of the next packet on the air

vars == <<started, link, loading, rf, ifc, lut, chip, fifo, tx, rx, txpc, nextId>>

-----------------------------------------------------------------------------
(* Initial values of the statics. *)

RfOff  == [enable |-> FALSE, freq |-> 0, tx_enable |-> FALSE]
IfOff  == [enable |-> FALSE, rf |-> 0, freq |-> 0]
NoGain == [power |-> 0, ok |-> FALSE]      \* a zeroed entry: mix_gain < 8

DefaultLut ==
  [size |-> 2,
   lut  |-> [i \in LutIndex |-> IF i = 0 THEN [power |-> 14, ok |-> TRUE]
                               ELSE IF i = 1 THEN [power |-> 27, ok |-> TRUE]
                               ELSE NoGain]]

(* The registers after a soft reset. *)
ChipReset == [phase |-> "reset",
              rf    |-> [c \in RfChain |-> RfOff],
              ifc   |-> [c \in IfChain |-> IfOff],
              lut   |-> DefaultLut,
              cal   |-> {}]

TxFree == [state |-> "free", chain |-> 0, asked |-> 0, power |-> 0]

Init ==
  /\ started = FALSE
  /\ link = "none"
  /\ loading = FALSE
  /\ rf = [c \in RfChain |-> RfOff]
  /\ ifc = [c \in IfChain |-> IfOff]
  /\ lut = DefaultLut
  /\ rx = [pc |-> "idle", buf |-> <<>>]
  /\ txpc = "idle"
  /\ chip = ChipReset
  /\ fifo = <<>>
  /\ tx = TxFree
  /\ nextId = 1

-----------------------------------------------------------------------------
(* Configuration.  A call the HAL rejects before its first assignment      *)
(* changes nothing and is not an action of its own.                        *)

(* The control calls come from the thread that neither receives nor sends. *)
Quiet == rx.pc = "idle" /\ txpc = "idle" /\ ~loading

(* The chains and radios are only configured while the HAL is stopped. *)
Configurable_Anytime == Quiet     \* mutant: no "is running" check
Configurable == Quiet /\ ~started

lgw_rxrf_setconf(c, conf) ==
  /\ Configurable
  /\ rf' = [rf EXCEPT ![c] = conf]
  /\ UNCHANGED <<started, link, loading, ifc, lut, chip, fifo, tx, rx, txpc, nextId>>

(* Disabling a chain leaves its radio alone; enabling one is refused when  *)
(* the channel would leave the radio's bandwidth.                          *)
InBand(f) == -HalfSpan <= f /\ f <= HalfSpan

lgw_rxif_setconf(c, conf) ==
  /\ Configurable
  /\ \/ /\ ~conf.enable
        /\ ifc' = [ifc EXCEPT ![c] = [enable |-> FALSE, rf |-> ifc[c].rf, freq |-> 0]]
     \/ /\ conf.enable
        /\ InBand(conf.freq)
        /\ ifc' = [ifc EXCEPT ![c] = conf]
  /\ UNCHANGED <<started, link, loading, rf, lut, chip, fifo, tx, rx, txpc, nextId>>

(* The size is stored first, then entries are checked and stored one by    *)
(* one up to the first invalid one; there is no "is running" check.        *)
Stored(conf, i) == \A j \in 0 .. i : conf.lut[j].ok

(* mutant: the size counts one entry too many *)
TxGainTable_OffByOne(conf) ==
  [size |-> conf.size + 1,
   lut  |-> [i \in LutIndex |-> IF Stored(conf, i) THEN conf.lut[i] ELSE lut.lut[i]]]

TxGainTable(conf) ==
  [size |-> conf.size,
   lut  |-> [i \in LutIndex |->
               IF i < conf.size /\ Stored(conf, i) THEN conf.lut[i]
                                                   ELSE lut.lut[i]]]

lgw_txgain_setconf(conf) ==
  /\ Quiet
  /\ started => LiveGain
  /\ lut' = TxGainTable(conf)
  /\ UNCHANGED <<started, link, loading, rf, ifc, chip, fifo, tx, rx, txpc, nextId>>

-----------------------------------------------------------------------------
(* lgw_start, by the point it reaches.  lgw_connect closes and frees an    *)
(* open link before it opens a new one, so a failed open leaves a stale    *)
(* handle behind: it is not NULL, what it points to is no descriptor, and  *)
(* every transfer through it fails; closing it again either does nothing   *)
(* or aborts the program (Killed), as the allocator decides.               *)
(* lgw_is_started is only ever set, at the very end.                       *)

StartAllowed == Quiet /\ (started => Restarts)

(* mutant: the handle is cleared together with the link *)
Start_OpenFails_Nulls ==
  /\ StartAllowed
  /\ link' = "none"
  /\ UNCHANGED <<started, loading, rf, ifc, lut, chip, fifo, tx, rx, txpc, nextId>>

Start_OpenFails ==
  /\ StartAllowed
  /\ link' = IF link = "none" THEN "none" ELSE "stale"
  /\ UNCHANGED <<started, loading, rf, ifc, lut, chip, fifo, tx, rx, txpc, nextId>>

(* The version or FPGA check of lgw_connect fails. *)
Start_CheckFails ==
  /\ StartAllowed
  /\ link' = "open"
  /\ UNCHANGED <<started, loading, rf, ifc, lut, chip, fifo, tx, rx, txpc, nextId>>

(* Soft reset done, then radio setup, calibration or the sanity check on   *)
(* rf_rx_freq[0] fails.                                                    *)
Start_SetupFails ==
  /\ StartAllowed
  /\ link' = "open"
  /\ chip' = ChipReset
  /\ fifo' = <<>>
  /\ tx' = TxFree
  /\ UNCHANGED <<started, loading, rf, ifc, lut, rx, txpc, nextId>>

(* The configuration transferred once the sanity check has passed.  Two    *)
(* parts of it wait for the firmware: RADIO_SELECT carries commands to it  *)
(* until its very last word, the map of chains to radios, and the gain     *)
(* table is told to it entry by entry.  Until then the chip is "partial".  *)
Loaded(phase) ==
  [phase |-> phase, rf |-> rf, ifc |-> ifc, lut |-> lut,
   cal   |-> {c \in RfChain : rf[c].enable /\ rf[c].tx_enable}]

Start_Load ==
  /\ StartAllowed
  /\ rf[0].freq # 0
  /\ link' = "open"
  /\ loading' = TRUE
  /\ chip' = Loaded("partial")
  /\ fifo' = <<>>
  /\ tx' = TxFree
  /\ UNCHANGED <<started, rf, ifc, lut, rx, txpc, nextId>>

(* A firmware version or an AGC status is not the one expected: what the   *)
(* chip was told so far stays, and so does lgw_is_started.                 *)
Start_LoadFails ==
  /\ loading
  /\ loading' = FALSE
  /\ UNCHANGED <<started, link, rf, ifc, lut, chip, fifo, tx, rx, txpc, nextId>>

(* The map of the chains is loaded last; what was heard before it is still *)
(* in the FIFO.                                                            *)
Start_Succeeds ==
  /\ loading
  /\ loading' = FALSE
  /\ chip' = Loaded("running")
  /\ started' = TRUE
  /\ UNCHANGED <<link, rf, ifc, lut, fifo, tx, rx, txpc, nextId>>

lgw_start == \/ Start_OpenFails \/ Start_CheckFails \/ Start_SetupFails
             \/ Start_Load \/ Start_LoadFails \/ Start_Succeeds

(* A soft reset through whatever link there is, then disconnect. *)
lgw_stop ==
  /\ Quiet
  /\ IF link = "open"
     THEN chip' = ChipReset /\ fifo' = <<>> /\ tx' = TxFree
     ELSE UNCHANGED <<chip, fifo, tx>>
  /\ link' = "none"
  /\ started' = FALSE
  /\ UNCHANGED <<loading, rf, ifc, lut, rx, txpc, nextId>>

(* The programs loop for ever and are ended by a signal, and free() aborts  *)
(* them when lgw_connect or lgw_disconnect closes a stale handle a second  *)
(* time.  Whoever starts the program again finds the statics as they were  *)
(* first and the chip as it was left.                                      *)
Killed ==
  /\ started' = FALSE
  /\ link' = "none"
  /\ loading' = FALSE
  /\ rf' = [c \in RfChain |-> RfOff]
  /\ ifc' = [c \in IfChain |-> IfOff]
  /\ lut' = DefaultLut
  /\ rx' = [pc |-> "idle", buf |-> <<>>]
  /\ txpc' = "idle"
  /\ UNCHANGED <<chip, fifo, tx, nextId>>

-----------------------------------------------------------------------------
(* Receiving. *)

(* The chip: a packet heard on an enabled chain of an enabled radio enters *)
(* the FIFO with the frequency it was really heard on; it is lost when the *)
(* FIFO is full.  Nothing is heard while the transmitter emits.  A chain   *)
(* of a partial chip listens through whatever radio the last word left in  *)
(* RADIO_SELECT gives it.                                                  *)
Radios(c) == IF chip.phase = "running" THEN {chip.ifc[c].rf} ELSE RfChain

Listening(c, r) ==
  /\ chip.phase \in {"partial", "running"}
  /\ chip.ifc[c].enable
  /\ r \in Radios(c)
  /\ chip.rf[r].enable
  /\ tx.state # "emitting"

Heard(c, r) == chip.rf[r].freq + chip.ifc[c].freq

Air(c, r) ==
  /\ nextId <= MaxId
  /\ Listening(c, r)
  /\ nextId' = nextId + 1
  /\ \E tag \in {c} \cup (IF Corrupt THEN {BadChain} ELSE {}) :
       fifo' = IF Len(fifo) < FifoMax
               THEN Append(fifo, [id |-> nextId, chain |-> tag,
                                  freq |-> Heard(c, r),
                                  whole |-> chip.phase = "running"])
               ELSE fifo
  /\ UNCHANGED <<started, link, loading, rf, ifc, lut, chip, tx, rx, txpc>>

(* The frequency lgw_receive reports, from the software's configuration. *)
Reported_RadioA(c) == rf[0].freq + ifc[c].freq    \* mutant: rf_chain ignored

Reported(c) == rf[ifc[c].rf].freq + ifc[c].freq

lgw_receive_call ==
  /\ rx.pc = "idle"
  /\ started /\ ~loading
  /\ rx' = [pc |-> "fetch", buf |-> <<>>]
  /\ UNCHANGED <<started, link, loading, rf, ifc, lut, chip, fifo, tx, txpc, nextId>>

(* One turn of the fetch loop: metadata, payload, then advance the FIFO. *)
CanFetch ==
  /\ Len(rx.buf) < FifoMax
  /\ link = "open"
  /\ fifo # <<>>
  /\ Head(fifo).chain # BadChain

AdvanceFifo_Missing == UNCHANGED fifo      \* mutant: the FIFO is not advanced
AdvanceFifo == fifo' = Tail(fifo)

lgw_receive_fetch ==
  /\ rx.pc = "fetch"
  /\ CanFetch
  /\ rx' = [rx EXCEPT !.buf =
              Append(@, [id       |-> Head(fifo).id,
                         reported |-> Reported(Head(fifo).chain),
                         heard    |-> Head(fifo).freq,
                         whole    |-> Head(fifo).whole])]
  /\ AdvanceFifo
  /\ UNCHANGED <<started, link, loading, rf, ifc, lut, chip, tx, txpc, nextId>>

(* The array is full, the FIFO empty or its head unusable: return. *)
lgw_receive_return ==
  /\ rx.pc = "fetch"
  /\ ~CanFetch
  /\ rx' = [rx EXCEPT !.pc = "idle"]
  /\ UNCHANGED <<started, link, loading, rf, ifc, lut, chip, fifo, tx, txpc, nextId>>

-----------------------------------------------------------------------------
(* Sending: rak831_send calls lgw_send, then polls lgw_status. *)

(* The index the search loop stops at: the last entry of the table that    *)
(* does not exceed the power asked for, or the first entry.                *)
(* mutant: the first entry at or above the power asked for *)
IsPowIndex_Above(p, i) ==
  /\ i < lut.size
  /\ i = lut.size - 1 \/ lut.lut[i].power >= p
  /\ \A j \in 0 .. i - 1 : lut.lut[j].power < p

IsPowIndex(p, i) ==
  /\ i < lut.size
  /\ i = 0 \/ lut.lut[i].power <= p
  /\ \A j \in i + 1 .. lut.size - 1 : lut.lut[j].power > p

(* The power the firmware's entry stands for: of a table that was not told *)
(* to the end, any.                                                        *)
Gains(i) ==
  IF chip.phase = "running" THEN {chip.lut.lut[i].power}
  ELSE {NoGain.power} \cup {chip.lut.lut[j].power : j \in LutIndex}

(* A triggered transmission; a chip without firmware sends nothing.        *)
Triggered(c, p, g) ==
  IF chip.phase = "reset" THEN TxFree
  ELSE [state |-> "scheduled", chain |-> c, asked |-> p, power |-> g]

TxAllowed_AnyRadio(c) == rf[c].enable           \* mutant: tx_enable unchecked
TxAllowed(c) == rf[c].enable /\ rf[c].tx_enable

lgw_send(c, p) ==
  /\ txpc = "idle"
  /\ started /\ ~loading
  /\ TxAllowed(c)
  /\ \E i \in LutIndex :
       /\ IsPowIndex(p, i)
       /\ \E g \in Gains(i) :
            tx' = IF link = "open" THEN Triggered(c, p, g) ELSE tx
  /\ txpc' = "poll"
  /\ UNCHANGED <<started, link, loading, rf, ifc, lut, chip, fifo, rx, nextId>>

(* lgw_status reads zero, hence TX_FREE, when the transfer itself fails. *)
StatusFree_NotEmitting == tx.state # "emitting" \/ link # "open"  \* mutant
StatusFree_Emitting    == tx.state = "emitting" \/ link # "open"  \* mutant
StatusFree             == tx.state = "free" \/ link # "open"

lgw_status_free ==
  /\ txpc = "poll"
  /\ StatusFree
  /\ txpc' = "idle"
  /\ UNCHANGED <<started, link, loading, rf, ifc, lut, chip, fifo, tx, rx, nextId>>

(* The chip's transmitter. *)
TxEmit ==
  /\ tx.state = "scheduled"
  /\ tx' = [tx EXCEPT !.state = "emitting"]
  /\ UNCHANGED <<started, link, loading, rf, ifc, lut, chip, fifo, rx, txpc, nextId>>

TxDone ==
  /\ tx.state = "emitting"
  /\ tx' = TxFree
  /\ UNCHANGED <<started, link, loading, rf, ifc, lut, chip, fifo, rx, txpc, nextId>>

-----------------------------------------------------------------------------
Configure ==
  \/ \E c \in RfChain, conf \in RfConfs : lgw_rxrf_setconf(c, conf)
  \/ \E c \in IfChain, conf \in IfConfs : lgw_rxif_setconf(c, conf)
  \/ \E conf \in LutConfs : lgw_txgain_setconf(conf)

Receive == lgw_receive_call \/ lgw_receive_fetch \/ lgw_receive_return

Send == \E c \in RfChain, p \in Powers : lgw_send(c, p)

Next ==
  \/ Configure
  \/ lgw_start
  \/ lgw_stop
  \/ Killed
  \/ \E c \in IfChain, r \in RfChain : Air(c, r)
  \/ Receive
  \/ Send
  \/ lgw_status_free
  \/ TxEmit
  \/ TxDone

Spec == Init /\ [][Next]_vars

(* lgw_start returns, the listen loop keeps calling lgw_receive,           *)
(* rak831_send keeps polling every 5 ms, and a chip that runs its firmware *)
(* finishes what it sends.                                                 *)
Fairness ==
  /\ WF_vars(Start_LoadFails \/ Start_Succeeds)
  /\ WF_vars(Receive)
  /\ WF_vars(lgw_status_free)
  /\ WF_vars(chip.phase = "running" /\ TxEmit)
  /\ WF_vars(TxDone)

FairSpec == Spec /\ Fairness

-----------------------------------------------------------------------------
(* Properties. *)

Chip    == [phase : {"reset", "partial", "running"},
            rf : [RfChain -> RfConf], ifc : [IfChain -> IfConf],
            lut : Lut, cal : SUBSET RfChain]
Packet  == [id : Nat, chain : IfChain \cup {BadChain}, freq : Int,
            whole : BOOLEAN]
Tx      == [state : {"free", "scheduled", "emitting"}, chain : RfChain,
            asked : Int, power : Int]
Fetched == [id : Nat, reported : Int, heard : Int, whole : BOOLEAN]

TypeOK ==
  /\ started \in BOOLEAN
  /\ link \in {"none", "open", "stale"}
  /\ loading \in BOOLEAN
  /\ rf \in [RfChain -> RfConf]
  /\ ifc \in [IfChain -> IfConf]
  /\ lut \in Lut
  /\ chip \in Chip
  /\ fifo \in Seq(Packet)
  /\ tx \in Tx
  /\ rx \in [pc : {"idle", "fetch"}, buf : Seq(Fetched)]
  /\ txpc \in {"idle", "poll"}
  /\ nextId \in Nat

(* lgw_receive computes a packet's frequency from the static configuration *)
(* (loragw_hal.c:1179) although the chip tuned to the one transferred by   *)
(* an earlier lgw_start.  They never differ for a packet heard by a wholly *)
(* started chip, even after failed starts and restarts and for packets     *)
(* that waited in the FIFO meanwhile.  One heard while lgw_start was still *)
(* starting the firmware, or after a restart that failed there, may have   *)
(* come through the other radio.                                           *)
FreqTruthful ==
  \A i \in DOMAIN rx.buf : rx.buf[i].whole => rx.buf[i].reported = rx.buf[i].heard

(* Why it holds: while started, what the chip was loaded with is what the  *)
(* _setconf functions still hold (they refuse a started concentrator), and *)
(* a start or a stop leaves nothing heard before it in the FIFO.           *)
Frozen    == (started \/ loading) /\ chip.phase # "reset" => chip.rf = rf /\ chip.ifc = ifc
LoadPhase == loading => link = "open" /\ chip.phase = "partial" /\ tx.state = "free"
FifoTruth == started \/ loading => \A i \in DOMAIN fifo :
               fifo[i].chain # BadChain /\ fifo[i].whole => fifo[i].freq = Reported(fifo[i].chain)
RxStarted == rx.pc = "fetch" => started
FreqInv   == TypeOK /\ Frozen /\ LoadPhase /\ FifoTruth /\ RxStarted /\ FreqTruthful

(* The fetch loop hands packets over in the order they were heard and none *)
(* of them a second time: whatever is still in the FIFO is newer than all  *)
(* that was fetched.                                                       *)
Rising(s) == \A i, j \in DOMAIN s : i < j => s[i].id < s[j].id

NeverTwice ==
  /\ Rising(rx.buf)
  /\ \A i \in DOMAIN rx.buf, k \in DOMAIN fifo : rx.buf[i].id < fifo[k].id

(* Why it holds: the FIFO is in order too, and the next packet is newer    *)
(* than all of them.                                                       *)
Below(s, n) == \A i \in DOMAIN s : s[i].id < n
OrderInv == TypeOK /\ NeverTwice /\ Rising(fifo) /\ Below(fifo, nextId) /\ Below(rx.buf, nextId)

(* The index lgw_send computes from the software's gain table selects the  *)
(* AGC firmware's copy of that table: the packet never leaves with more    *)
(* power than asked for unless every entry exceeds it (or only the first   *)
(* one, the fallback, is there to choose).  A firmware that was not told   *)
(* its whole table, after a restart that failed, is another matter.        *)
NoOverpower ==
  tx.state # "free" /\ chip.phase = "running" =>
    \/ tx.power <= tx.asked
    \/ \A i \in 1 .. chip.lut.size - 1 : chip.lut.lut[i].power > tx.asked

(* lgw_send only uses a radio whose TX offset the last calibration of      *)
(* lgw_start corrected, the check being made on the configuration as it is *)
(* now and the calibration on the one at start.                            *)
CalibratedTx == tx.state # "free" => tx.chain \in chip.cal

(* Why these two hold: a started chip that was not reset was calibrated    *)
(* for, and loaded with, what the software still has.                      *)
CalFresh == (started \/ loading) /\ chip.phase # "reset" => chip.cal = {c \in RfChain : TxAllowed(c)}
LutFresh == (started \/ loading) /\ chip.phase # "reset" => chip.lut = lut
TxInv    == TypeOK /\ LoadPhase /\ CalFresh /\ LutFresh /\ CalibratedTx /\ NoOverpower

(* rak831_send waits for TX_FREE, so a packet is never handed to lgw_send  *)
(* while a previous one is being sent, which would cut it (readme.md 5.2). *)
NoAbort ==
  [][tx' # tx /\ tx'.state = "scheduled" => tx.state = "free"]_vars

(* Why it holds when nobody restarts a started concentrator: then there is *)
(* a link to poll through, and between two calls nothing is being sent.    *)
PollInv == started => link = "open" /\ (txpc = "idle" => tx.state = "free")

(* A started concentrator has an SPI handle: lgw_status never returns a    *)
(* code computed from a register it could not even try to read.            *)
StartedHasLink == started => link # "none"

(* With the listen loop running every packet is handed over in its turn,   *)
(* unless the FIFO names a chain that does not exist before it (the fetch  *)
(* loop then breaks without advancing the FIFO, for ever,                  *)
(* loragw_hal.c:1171) or the FIFO is flushed or the concentrator lost.     *)
Reachable(n) == \E i \in DOMAIN fifo :
                  fifo[i].id = n /\ \A j \in 1 .. i : fifo[j].chain # BadChain
HandedOver(n) == \E i \in DOMAIN rx.buf : rx.buf[i].id = n
Drained == \A n \in 1 .. MaxId :
  started /\ Reachable(n) ~> (HandedOver(n) \/ fifo = <<>> \/ ~started \/ link # "open")

(* rak831_send returns: the poll for TX_FREE ends.                         *)
SendReturns == txpc = "poll" ~> txpc = "idle"
=============================================================================
