---------------------------- MODULE LgwHalProofs ----------------------------
(***************************************************************************)
(* Proofs about the concentrator HAL, for every set of radios, chains,     *)
(* configurations and gain tables and every FIFO size.                     *)
(***************************************************************************)
EXTENDS LgwHal, SequenceTheorems, TLAPS

-----------------------------------------------------------------------------
(* Typing of the values lgw_start writes into the chip. *)

LEMMA Defaults ==
  /\ DefaultLut \in Lut
  /\ RfOff \in RfConf
  /\ IfOff \in IfConf
  /\ ChipReset \in Chip
  /\ TxFree \in Tx
<1> USE HalAssumption
<1>1. DefaultLut \in Lut
  BY DEF DefaultLut, Lut, LutIndex, Gain, NoGain
<1>2. RfOff \in RfConf /\ IfOff \in IfConf
  BY DEF RfOff, IfOff, RfConf, IfConf
<1>3. ChipReset \in Chip
  BY <1>1, <1>2 DEF ChipReset, Chip
<1>4. TxFree \in Tx
  BY DEF TxFree, Tx
<1>5. QED
  BY <1>1, <1>2, <1>3, <1>4

LEMMA LoadedType ==
  ASSUME TypeOK, NEW ph \in {"partial", "running"}
  PROVE  Loaded(ph) \in Chip
BY DEF TypeOK, Loaded, Chip

LEMMA GainTableType ==
  ASSUME TypeOK, NEW conf \in LutConfs
  PROVE  TxGainTable(conf) \in Lut
<1> USE HalAssumption
<1>1. conf \in Lut /\ lut \in Lut
  BY DEF TypeOK
<1>2. QED
  BY <1>1 DEF TxGainTable, Lut

-----------------------------------------------------------------------------
(* The type invariant. *)

LEMMA TypeInit == Init => TypeOK
BY Defaults, HalAssumption DEF Init, TypeOK, Chip, Tx

LEMMA TypeStep == TypeOK /\ [Next]_vars => TypeOK'
<1> USE HalAssumption
<1> SUFFICES ASSUME TypeOK, [Next]_vars
             PROVE  TypeOK'
  OBVIOUS
<1>1. ASSUME NEW c \in RfChain, NEW conf \in RfConfs, lgw_rxrf_setconf(c, conf)
      PROVE  TypeOK'
  BY <1>1 DEF lgw_rxrf_setconf, Configurable, TypeOK
<1>2. ASSUME NEW c \in IfChain, NEW conf \in IfConfs, lgw_rxif_setconf(c, conf)
      PROVE  TypeOK'
  <2>1. [enable |-> FALSE, rf |-> ifc[c].rf, freq |-> 0] \in IfConf /\ conf \in IfConf
    BY DEF TypeOK, IfConf
  <2>2. ifc' \in [IfChain -> IfConf]
    BY <1>2, <2>1 DEF lgw_rxif_setconf, TypeOK
  <2>3. QED
    BY <1>2, <2>2 DEF lgw_rxif_setconf, TypeOK
<1>3. ASSUME NEW conf \in LutConfs, lgw_txgain_setconf(conf)
      PROVE  TypeOK'
  BY <1>3, GainTableType DEF lgw_txgain_setconf, TypeOK
<1>4. CASE lgw_start
  <2>1. CASE Start_OpenFails
    BY <2>1 DEF Start_OpenFails, TypeOK
  <2>2. CASE Start_CheckFails
    BY <2>2 DEF Start_CheckFails, TypeOK
  <2>3. CASE Start_SetupFails
    BY <2>3, Defaults DEF Start_SetupFails, TypeOK, Chip, Tx
  <2>4. CASE Start_Load
    BY <2>4, Defaults, LoadedType DEF Start_Load, TypeOK, Chip, Tx
  <2>5. CASE Start_LoadFails
    BY <2>5 DEF Start_LoadFails, TypeOK
  <2>6. CASE Start_Succeeds
    BY <2>6, LoadedType DEF Start_Succeeds, TypeOK
  <2>7. QED
    BY <1>4, <2>1, <2>2, <2>3, <2>4, <2>5, <2>6 DEF lgw_start
<1>5. CASE lgw_stop
  <2>1. chip' \in Chip /\ fifo' \in Seq(Packet) /\ tx' \in Tx
    <3>1. CASE link = "open"
      BY <1>5, <3>1, Defaults DEF lgw_stop
    <3>2. CASE link # "open"
      BY <1>5, <3>2 DEF lgw_stop, TypeOK
    <3>3. QED
      BY <3>1, <3>2
  <2>2. QED
    BY <1>5, <2>1 DEF lgw_stop, TypeOK
<1>6. ASSUME NEW c \in IfChain, NEW r \in RfChain, Air(c, r)
      PROVE  TypeOK'
  <2>1. chip \in Chip
    BY DEF TypeOK
  <2>2. Heard(c, r) \in Int
    BY <2>1 DEF Heard, Chip, RfConf, IfConf
  <2>3. PICK tag \in IfChain \cup {BadChain} :
           fifo' = IF Len(fifo) < FifoMax
                   THEN Append(fifo, [id |-> nextId, chain |-> tag,
                                      freq |-> Heard(c, r),
                                      whole |-> chip.phase = "running"])
                   ELSE fifo
    BY <1>6 DEF Air
  <2>4. [id |-> nextId, chain |-> tag, freq |-> Heard(c, r),
         whole |-> chip.phase = "running"] \in Packet
    BY <2>2 DEF Packet, TypeOK
  <2>5. fifo' \in Seq(Packet)
    BY <2>3, <2>4, AppendProperties DEF TypeOK
  <2>6. QED
    BY <1>6, <2>5 DEF Air, TypeOK
<1>7. CASE Receive
  <2>1. CASE lgw_receive_call
    BY <2>1 DEF lgw_receive_call, TypeOK
  <2>2. CASE lgw_receive_fetch
    <3>1. fifo \in Seq(Packet) /\ fifo # <<>> /\ Head(fifo).chain # BadChain
      BY <2>2 DEF lgw_receive_fetch, CanFetch, TypeOK
    <3>2. Head(fifo) \in Packet /\ Tail(fifo) \in Seq(Packet)
      BY <3>1, HeadTailProperties
    <3>3. Head(fifo).chain \in IfChain
      BY <3>1, <3>2 DEF Packet
    <3>4. Reported(Head(fifo).chain) \in Int
      BY <3>3 DEF Reported, TypeOK, RfConf, IfConf
    <3> DEFINE p == [id       |-> Head(fifo).id,
                     reported |-> Reported(Head(fifo).chain),
                     heard    |-> Head(fifo).freq,
                     whole    |-> Head(fifo).whole]
    <3>5. p \in Fetched
      BY <3>2, <3>4 DEF Packet, Fetched
    <3>6. Append(rx.buf, p) \in Seq(Fetched)
      BY <3>5, AppendProperties DEF TypeOK
    <3>7. rx' = [rx EXCEPT !.buf = Append(rx.buf, p)]
      BY <2>2 DEF lgw_receive_fetch
    <3> HIDE DEF p
    <3>8. rx' \in [pc : {"idle", "fetch"}, buf : Seq(Fetched)]
      BY <3>6, <3>7 DEF TypeOK
    <3>9. QED
      BY <2>2, <3>2, <3>8 DEF lgw_receive_fetch, AdvanceFifo, TypeOK
  <2>3. CASE lgw_receive_return
    BY <2>3 DEF lgw_receive_return, TypeOK
  <2>4. QED
    BY <1>7, <2>1, <2>2, <2>3 DEF Receive
<1>8. ASSUME NEW c \in RfChain, NEW p \in Powers, lgw_send(c, p)
      PROVE  TypeOK'
  <2>1. PICK i \in LutIndex : \E g \in Gains(i) :
           tx' = IF link = "open" THEN Triggered(c, p, g) ELSE tx
    BY <1>8 DEF lgw_send
  <2>0. PICK g \in Gains(i) :
           tx' = IF link = "open" THEN Triggered(c, p, g) ELSE tx
    BY <2>1
  <2>2. Triggered(c, p, g) \in Tx
    <3>1. chip.lut \in Lut
      BY DEF TypeOK, Chip
    <3>2. g \in Int /\ p \in Int
      BY <3>1 DEF Gains, Lut, Gain, NoGain
    <3>3. CASE chip.phase = "reset"
      BY <3>3, Defaults DEF Triggered
    <3>4. CASE chip.phase # "reset"
      BY <3>2, <3>4 DEF Triggered, Tx
    <3>5. QED
      BY <3>3, <3>4
  <2>3. tx' \in Tx
    <3>1. tx \in Tx
      BY DEF TypeOK
    <3>2. CASE link = "open"
      BY <2>0, <2>2, <3>2
    <3>3. CASE link # "open"
      BY <2>0, <3>1, <3>3
    <3>4. QED
      BY <3>2, <3>3
  <2>4. QED
    BY <1>8, <2>3 DEF lgw_send, TypeOK
<1>9. CASE lgw_status_free
  BY <1>9 DEF lgw_status_free, TypeOK
<1>10. CASE TxEmit
  <2>1. tx' \in Tx
    BY <1>10 DEF TxEmit, TypeOK, Tx
  <2>2. QED
    BY <1>10, <2>1 DEF TxEmit, TypeOK
<1>11. CASE TxDone
  BY <1>11, Defaults DEF TxDone, TypeOK, Tx
<1>12. CASE UNCHANGED vars
  BY <1>12 DEF vars, TypeOK
<1>13. CASE Killed
  <2>1. rf' \in [RfChain -> RfConf] /\ ifc' \in [IfChain -> IfConf] /\ lut' \in Lut
    BY <1>13, Defaults DEF Killed
  <2>2. rx' \in [pc : {"idle", "fetch"}, buf : Seq(Fetched)]
    BY <1>13 DEF Killed
  <2>3. QED
    BY <1>13, <2>1, <2>2 DEF Killed, TypeOK
<1>14. QED
  BY <1>1, <1>2, <1>3, <1>4, <1>5, <1>6, <1>7, <1>8, <1>9, <1>10, <1>11, <1>12,
     <1>13 DEF Next, Configure, Send

(* Every state variable of the HAL keeps its type. *)
THEOREM TypeCorrect == Spec => []TypeOK
  BY TypeInit, TypeStep, PTL DEF Spec

-----------------------------------------------------------------------------
(* While lgw_start starts the firmware nothing is being sent.              *)

LEMMA LoadStep == LoadPhase /\ [Next]_vars => LoadPhase'
<1> SUFFICES ASSUME LoadPhase, [Next]_vars
             PROVE  LoadPhase'
  OBVIOUS
<1> USE DEF LoadPhase
<1>1. CASE Configure
  BY <1>1 DEF Configure, lgw_rxrf_setconf, lgw_rxif_setconf, lgw_txgain_setconf
<1>2. CASE lgw_start
  <2>1. CASE Start_OpenFails \/ Start_CheckFails \/ Start_SetupFails
    BY <2>1 DEF StartAllowed, Quiet, Start_OpenFails, Start_CheckFails, Start_SetupFails
  <2>2. CASE Start_Load
    BY <2>2 DEF Start_Load, Loaded, TxFree
  <2>3. CASE Start_LoadFails \/ Start_Succeeds
    BY <2>3 DEF Start_LoadFails, Start_Succeeds
  <2>4. QED
    BY <1>2, <2>1, <2>2, <2>3 DEF lgw_start
<1>3. CASE lgw_stop \/ Killed
  BY <1>3 DEF lgw_stop, Quiet, Killed
<1>4. CASE \E c \in IfChain, r \in RfChain : Air(c, r)
  BY <1>4 DEF Air
<1>5. CASE Receive
  BY <1>5 DEF Receive, lgw_receive_call, lgw_receive_fetch, lgw_receive_return
<1>6. CASE Send
  BY <1>6 DEF Send, lgw_send
<1>7. CASE lgw_status_free
  BY <1>7 DEF lgw_status_free
<1>8. CASE TxEmit \/ TxDone
  BY <1>8 DEF TxEmit, TxDone
<1>9. CASE UNCHANGED vars
  BY <1>9 DEF vars
<1>10. QED
  BY <1>1, <1>2, <1>3, <1>4, <1>5, <1>6, <1>7, <1>8, <1>9 DEF Next

-----------------------------------------------------------------------------
(* Frequencies.  FreqTruthful speaks of packets already handed over; what  *)
(* makes it hold is that, while the concentrator is started or starting,   *)
(* the chip and the software hold the same configuration, and every packet *)
(* waiting in the FIFO that a whole chip heard was heard under it.         *)

LEMMA FreqInit == Init => FreqInv
BY TypeInit DEF Init, FreqInv, LoadPhase, Frozen, FifoTruth, RxStarted, FreqTruthful

LEMMA FreqStep == FreqInv /\ [Next]_vars => FreqInv'
<1> USE HalAssumption
<1> SUFFICES ASSUME FreqInv, [Next]_vars
             PROVE  (Frozen /\ FifoTruth /\ RxStarted /\ FreqTruthful)'
  BY TypeStep, LoadStep DEF FreqInv
<1> USE DEF FreqInv
<1>1. ASSUME NEW c \in RfChain, NEW conf \in RfConfs, lgw_rxrf_setconf(c, conf)
      PROVE  (Frozen /\ FifoTruth /\ RxStarted /\ FreqTruthful)'
  BY <1>1 DEF lgw_rxrf_setconf, Configurable, Quiet, Frozen, FifoTruth, RxStarted, FreqTruthful
<1>2. ASSUME NEW c \in IfChain, NEW conf \in IfConfs, lgw_rxif_setconf(c, conf)
      PROVE  (Frozen /\ FifoTruth /\ RxStarted /\ FreqTruthful)'
  BY <1>2 DEF lgw_rxif_setconf, Configurable, Quiet, Frozen, FifoTruth, RxStarted, FreqTruthful
<1>3. ASSUME NEW conf \in LutConfs, lgw_txgain_setconf(conf)
      PROVE  (Frozen /\ FifoTruth /\ RxStarted /\ FreqTruthful)'
  BY <1>3 DEF lgw_txgain_setconf, Frozen, FifoTruth, Reported, RxStarted, FreqTruthful
<1>4. CASE lgw_start
  <2>1. CASE Start_OpenFails
    BY <2>1 DEF Start_OpenFails, Frozen, FifoTruth, Reported, RxStarted, FreqTruthful
  <2>2. CASE Start_CheckFails
    BY <2>2 DEF Start_CheckFails, Frozen, FifoTruth, Reported, RxStarted, FreqTruthful
  <2>3. CASE Start_SetupFails
    BY <2>3 DEF Start_SetupFails, ChipReset, Frozen, FifoTruth, RxStarted, FreqTruthful
  <2>4. CASE Start_Load
    BY <2>4 DEF Start_Load, Loaded, Frozen, FifoTruth, RxStarted, FreqTruthful
  <2>5. CASE Start_LoadFails
    BY <2>5 DEF Start_LoadFails, Frozen, FifoTruth, Reported, RxStarted, FreqTruthful
  <2>6. CASE Start_Succeeds
    BY <2>6 DEF Start_Succeeds, Loaded, Frozen, FifoTruth, Reported, RxStarted, FreqTruthful
  <2>7. QED
    BY <1>4, <2>1, <2>2, <2>3, <2>4, <2>5, <2>6 DEF lgw_start
<1>5. CASE lgw_stop
  BY <1>5 DEF lgw_stop, Quiet, Frozen, FifoTruth, RxStarted, FreqTruthful
<1>6. ASSUME NEW c \in IfChain, NEW r \in RfChain, Air(c, r)
      PROVE  (Frozen /\ FifoTruth /\ RxStarted /\ FreqTruthful)'
  <2>1. UNCHANGED <<started, loading, rf, ifc, chip, rx>>
    BY <1>6 DEF Air
  <2>2. FifoTruth'
    <3>1. SUFFICES ASSUME started \/ loading, NEW k \in DOMAIN fifo',
                          fifo'[k].chain # BadChain, fifo'[k].whole
                   PROVE  fifo'[k].freq = Reported(fifo'[k].chain)
      BY <2>1 DEF FifoTruth, Reported
    <3>2. PICK tag \in {c} \cup {BadChain} :
             fifo' = IF Len(fifo) < FifoMax
                     THEN Append(fifo, [id |-> nextId, chain |-> tag,
                                        freq |-> Heard(c, r),
                                        whole |-> chip.phase = "running"])
                     ELSE fifo
      BY <1>6 DEF Air
    <3>3. fifo \in Seq(Packet) /\ Len(fifo) \in Nat
      BY DEF TypeOK
    <3>4. chip.phase = "running" => Heard(c, r) = Reported(c)
      BY <1>6, <3>1 DEF Air, Listening, Radios, Frozen, Heard, Reported
    <3> DEFINE p == [id |-> nextId, chain |-> tag, freq |-> Heard(c, r),
                     whole |-> chip.phase = "running"]
    <3>5. p \in Packet
      <4>1. Heard(c, r) \in Int
        BY DEF Heard, TypeOK, Chip, RfConf, IfConf
      <4>2. QED
        BY <4>1 DEF Packet, TypeOK
    <3>6. p.chain # BadChain /\ p.whole => p.freq = Reported(p.chain)
      BY <3>4
    <3>7. CASE Len(fifo) < FifoMax
      <4>1. fifo' = Append(fifo, p)
        BY <3>2, <3>7
      <4> HIDE DEF p
      <4>2. k = Len(fifo) + 1 => fifo'[k] = p
        BY <3>3, <3>5, <4>1, AppendProperties
      <4>3. k # Len(fifo) + 1 => k \in DOMAIN fifo /\ fifo'[k] = fifo[k]
        BY <3>3, <3>5, <4>1, AppendProperties
      <4>4. QED
        BY <3>1, <3>6, <4>2, <4>3 DEF FifoTruth
    <3>8. CASE ~(Len(fifo) < FifoMax)
      BY <3>1, <3>2, <3>8 DEF FifoTruth
    <3>9. QED
      BY <3>7, <3>8
  <2>3. QED
    BY <2>1, <2>2 DEF Frozen, RxStarted, FreqTruthful
<1>7. CASE Receive
  <2>1. CASE lgw_receive_call
    BY <2>1 DEF lgw_receive_call, Frozen, FifoTruth, Reported, RxStarted, FreqTruthful
  <2>2. CASE lgw_receive_fetch
    <3>1. UNCHANGED <<started, loading, rf, ifc, chip>> /\ rx.pc = "fetch" /\ started
      BY <2>2 DEF lgw_receive_fetch, RxStarted
    <3>2. fifo \in Seq(Packet) /\ fifo # <<>> /\ Head(fifo).chain # BadChain
      BY <2>2 DEF lgw_receive_fetch, CanFetch, TypeOK
    <3>3. Head(fifo) = fifo[1] /\ 1 \in DOMAIN fifo /\ fifo' = Tail(fifo)
      BY <2>2, <3>2 DEF lgw_receive_fetch, AdvanceFifo
    <3>4. Head(fifo).whole => Head(fifo).freq = Reported(Head(fifo).chain)
      BY <3>1, <3>2, <3>3 DEF FifoTruth
    <3>5. FifoTruth'
      <4>1. ASSUME NEW k \in DOMAIN Tail(fifo)
            PROVE  k + 1 \in DOMAIN fifo /\ Tail(fifo)[k] = fifo[k + 1]
        BY <3>2, HeadTailProperties
      <4>2. QED
        BY <3>1, <3>3, <4>1 DEF FifoTruth, Reported
    <3> DEFINE p == [id       |-> Head(fifo).id,
                     reported |-> Reported(Head(fifo).chain),
                     heard    |-> Head(fifo).freq,
                     whole    |-> Head(fifo).whole]
    <3>6. p.whole => p.reported = p.heard
      BY <3>4
    <3>7. rx' = [rx EXCEPT !.buf = Append(rx.buf, p)]
      BY <2>2 DEF lgw_receive_fetch
    <3>8. p \in Fetched
      <4>1. Head(fifo) \in Packet
        BY <3>2, HeadTailProperties
      <4>2. Head(fifo).chain \in IfChain
        BY <3>2, <4>1 DEF Packet
      <4>3. Reported(Head(fifo).chain) \in Int
        BY <4>2 DEF Reported, TypeOK, RfConf, IfConf
      <4>4. QED
        BY <4>1, <4>3 DEF Packet, Fetched
    <3> HIDE DEF p
    <3>9. rx'.pc = rx.pc /\ rx'.buf = Append(rx.buf, p) /\ rx.buf \in Seq(Fetched)
      BY <3>7 DEF TypeOK
    <3>10. FreqTruthful'
      <4>1. SUFFICES ASSUME NEW k \in DOMAIN Append(rx.buf, p), Append(rx.buf, p)[k].whole
                     PROVE  Append(rx.buf, p)[k].reported = Append(rx.buf, p)[k].heard
        BY <3>9 DEF FreqTruthful
      <4>2. k = Len(rx.buf) + 1 => Append(rx.buf, p)[k] = p
        BY <3>8, <3>9, AppendProperties
      <4>3. k # Len(rx.buf) + 1 =>
              k \in DOMAIN rx.buf /\ Append(rx.buf, p)[k] = rx.buf[k]
        BY <3>8, <3>9, AppendProperties
      <4>4. QED
        BY <3>6, <4>1, <4>2, <4>3 DEF FreqTruthful
    <3>11. QED
      BY <3>1, <3>5, <3>9, <3>10 DEF Frozen, RxStarted
  <2>3. CASE lgw_receive_return
    <3>1. rx'.pc = "idle" /\ rx'.buf = rx.buf
      BY <2>3 DEF lgw_receive_return, TypeOK
    <3>2. QED
      BY <2>3, <3>1
         DEF lgw_receive_return, Frozen, FifoTruth, Reported, RxStarted, FreqTruthful
  <2>4. QED
    BY <1>7, <2>1, <2>2, <2>3 DEF Receive
<1>8. ASSUME NEW c \in RfChain, NEW p \in Powers, lgw_send(c, p)
      PROVE  (Frozen /\ FifoTruth /\ RxStarted /\ FreqTruthful)'
  BY <1>8 DEF lgw_send, Frozen, FifoTruth, Reported, RxStarted, FreqTruthful
<1>9. CASE lgw_status_free \/ TxEmit \/ TxDone
  BY <1>9 DEF lgw_status_free, TxEmit, TxDone, Frozen, FifoTruth, Reported,
              RxStarted, FreqTruthful
<1>10. CASE UNCHANGED vars
  BY <1>10 DEF vars, Frozen, FifoTruth, Reported, RxStarted, FreqTruthful
<1>11. CASE Killed
  BY <1>11 DEF Killed, Frozen, FifoTruth, RxStarted, FreqTruthful
<1>12. QED
  BY <1>1, <1>2, <1>3, <1>4, <1>5, <1>6, <1>7, <1>8, <1>9, <1>10, <1>11
     DEF Next, Configure, Send

(* The frequency lgw_receive computes from the software's configuration is *)
(* the one the packet was heard on, whatever the callers configure, fail   *)
(* to start, restart, stop and fetch, and whatever the FIFO still holds.   *)
THEOREM FrequencyCorrect == Spec => []FreqTruthful
<1>1. FreqInv => FreqTruthful
  BY DEF FreqInv
<1>2. QED
  BY <1>1, FreqInit, FreqStep, PTL DEF Spec

-----------------------------------------------------------------------------
(* Transmission, when no caller replaces the gain table of a started       *)
(* concentrator (the readme's usage rule).                                 *)

LEMMA TxInit == Init => TxInv
BY TypeInit DEF Init, TxInv, LoadPhase, TxFree, CalFresh, LutFresh, CalibratedTx, NoOverpower

(* What lgw_send leaves in the transmitter. *)
LEMMA SendOk ==
  ASSUME TxInv, NEW c \in RfChain, NEW p \in Powers, lgw_send(c, p), tx' # tx,
         tx'.state # "free"
  PROVE  /\ tx'.chain \in chip.cal
         /\ chip.phase = "running" =>
            \/ tx'.power <= tx'.asked
            \/ \A j \in 1 .. chip.lut.size - 1 : chip.lut.lut[j].power > tx'.asked
<1> USE HalAssumption
<1>1. PICK i \in LutIndex :
         /\ IsPowIndex(p, i)
         /\ \E g \in Gains(i) : tx' = IF link = "open" THEN Triggered(c, p, g) ELSE tx
  BY DEF lgw_send
<1>2. PICK g \in Gains(i) : tx' = Triggered(c, p, g)
  BY <1>1
<1>3. chip.phase # "reset" /\ started
  BY <1>2 DEF Triggered, TxFree, lgw_send
<1>4. tx'.chain = c /\ tx'.asked = p /\ tx'.power = g
  BY <1>2, <1>3 DEF Triggered
<1>5. c \in chip.cal
  BY <1>3 DEF TxInv, CalFresh, lgw_send
<1>6. chip.lut = lut
  BY <1>3 DEF TxInv, LutFresh
<1>7. i = 0 \/ lut.lut[i].power <= p
  BY <1>1 DEF IsPowIndex
<1>8. i = 0 => \A j \in 1 .. lut.size - 1 : lut.lut[j].power > p
  BY <1>1 DEF IsPowIndex
<1>9. chip.phase = "running" => g = lut.lut[i].power
  BY <1>6 DEF Gains
<1>10. QED
  BY <1>4, <1>5, <1>6, <1>7, <1>8, <1>9

LEMMA TxStep ==
  ASSUME ~LiveGain
  PROVE  TxInv /\ [Next]_vars => TxInv'
<1> USE HalAssumption
<1> SUFFICES ASSUME TxInv, [Next]_vars
             PROVE  (CalFresh /\ LutFresh /\ CalibratedTx /\ NoOverpower)'
  BY TypeStep, LoadStep DEF TxInv
<1> USE DEF TxInv
<1>1. ASSUME NEW c \in RfChain, NEW conf \in RfConfs, lgw_rxrf_setconf(c, conf)
      PROVE  (CalFresh /\ LutFresh /\ CalibratedTx /\ NoOverpower)'
  BY <1>1 DEF lgw_rxrf_setconf, Configurable, Quiet, CalFresh, LutFresh, CalibratedTx, NoOverpower
<1>2. ASSUME NEW c \in IfChain, NEW conf \in IfConfs, lgw_rxif_setconf(c, conf)
      PROVE  (CalFresh /\ LutFresh /\ CalibratedTx /\ NoOverpower)'
  BY <1>2 DEF lgw_rxif_setconf, Configurable, Quiet, CalFresh, LutFresh, CalibratedTx, NoOverpower
<1>3. ASSUME NEW conf \in LutConfs, lgw_txgain_setconf(conf)
      PROVE  (CalFresh /\ LutFresh /\ CalibratedTx /\ NoOverpower)'
  BY <1>3 DEF lgw_txgain_setconf, Quiet, CalFresh, TxAllowed, LutFresh, CalibratedTx, NoOverpower
<1>4. CASE lgw_start
  <2>1. CASE Start_OpenFails \/ Start_CheckFails
    BY <2>1 DEF Start_OpenFails, Start_CheckFails, CalFresh, TxAllowed, LutFresh,
                CalibratedTx, NoOverpower
  <2>2. CASE Start_SetupFails
    BY <2>2 DEF Start_SetupFails, ChipReset, TxFree, CalFresh, LutFresh, CalibratedTx,
                NoOverpower
  <2>3. CASE Start_Load
    BY <2>3 DEF Start_Load, Loaded, TxAllowed, TxFree, CalFresh, LutFresh,
                CalibratedTx, NoOverpower
  <2>4. CASE Start_LoadFails
    BY <2>4 DEF Start_LoadFails, TxAllowed, CalFresh, LutFresh, CalibratedTx, NoOverpower
  <2>5. CASE Start_Succeeds
    BY <2>5 DEF Start_Succeeds, LoadPhase, Loaded, TxAllowed, CalFresh, LutFresh,
                CalibratedTx, NoOverpower
  <2>6. QED
    BY <1>4, <2>1, <2>2, <2>3, <2>4, <2>5 DEF lgw_start
<1>5. CASE lgw_stop
  BY <1>5 DEF lgw_stop, Quiet, TxFree, CalFresh, LutFresh, CalibratedTx, NoOverpower
<1>6. ASSUME NEW c \in IfChain, NEW r \in RfChain, Air(c, r)
      PROVE  (CalFresh /\ LutFresh /\ CalibratedTx /\ NoOverpower)'
  BY <1>6 DEF Air, CalFresh, TxAllowed, LutFresh, CalibratedTx, NoOverpower
<1>7. CASE Receive
  BY <1>7 DEF Receive, lgw_receive_call, lgw_receive_fetch, lgw_receive_return, CalFresh,
              TxAllowed, LutFresh, CalibratedTx, NoOverpower
<1>8. ASSUME NEW c \in RfChain, NEW p \in Powers, lgw_send(c, p)
      PROVE  (CalFresh /\ LutFresh /\ CalibratedTx /\ NoOverpower)'
  <2>1. UNCHANGED <<started, loading, chip, rf, lut>>
    BY <1>8 DEF lgw_send
  <2>2. (CalFresh /\ LutFresh)'
    BY <2>1 DEF CalFresh, TxAllowed, LutFresh
  <2>3. CASE tx' = tx
    BY <2>1, <2>2, <2>3 DEF CalibratedTx, NoOverpower
  <2>4. CASE tx' # tx
    BY <1>8, <2>1, <2>2, <2>4, SendOk DEF CalibratedTx, NoOverpower
  <2>5. QED
    BY <2>3, <2>4
<1>9. CASE lgw_status_free
  BY <1>9 DEF lgw_status_free, CalFresh, TxAllowed, LutFresh, CalibratedTx, NoOverpower
<1>10. CASE TxEmit
  <2>1. tx'.chain = tx.chain /\ tx'.asked = tx.asked /\ tx'.power = tx.power
    BY <1>10 DEF TxEmit, TypeOK, Tx
  <2>2. tx.state # "free" /\ UNCHANGED <<started, loading, chip, rf, lut>>
    BY <1>10 DEF TxEmit
  <2>3. QED
    BY <2>1, <2>2 DEF CalFresh, TxAllowed, LutFresh, CalibratedTx, NoOverpower
<1>11. CASE TxDone
  BY <1>11 DEF TxDone, TxFree, CalFresh, TxAllowed, LutFresh, CalibratedTx, NoOverpower
<1>12. CASE UNCHANGED vars
  BY <1>12 DEF vars, CalFresh, TxAllowed, LutFresh, CalibratedTx, NoOverpower
<1>13. CASE Killed
  BY <1>13 DEF Killed, CalFresh, LutFresh, CalibratedTx, NoOverpower
<1>14. QED
  BY <1>1, <1>2, <1>3, <1>4, <1>5, <1>6, <1>7, <1>8, <1>9, <1>10, <1>11, <1>12,
     <1>13 DEF Next, Configure, Send

(* A packet only leaves through a radio whose TX offset was calibrated by  *)
(* the lgw_start that configured the chip.                                 *)
THEOREM CalibrationCorrect ==
  ASSUME ~LiveGain
  PROVE  Spec => []CalibratedTx
<1>1. TxInv => CalibratedTx
  BY DEF TxInv
<1>2. TxInv /\ [Next]_vars => TxInv'
  BY TxStep
<1>3. QED
  BY <1>1, <1>2, TxInit, PTL DEF Spec

(* The power a packet leaves with does not exceed the power asked for      *)
(* unless the gain table has no other entry to offer than the first,       *)
(* provided the firmware was told the whole table.                         *)
THEOREM PowerCorrect ==
  ASSUME ~LiveGain
  PROVE  Spec => []NoOverpower
<1>1. TxInv => NoOverpower
  BY DEF TxInv
<1>2. TxInv /\ [Next]_vars => TxInv'
  BY TxStep
<1>3. QED
  BY <1>1, <1>2, TxInit, PTL DEF Spec

-----------------------------------------------------------------------------
(* The SPI handle. *)

LEMMA LinkStep == StartedHasLink /\ LoadPhase /\ [Next]_vars => StartedHasLink'
<1> SUFFICES ASSUME StartedHasLink, LoadPhase, [Next]_vars
             PROVE  StartedHasLink'
  OBVIOUS
<1> USE DEF StartedHasLink, LoadPhase
<1>1. CASE Configure
  BY <1>1 DEF Configure, lgw_rxrf_setconf, lgw_rxif_setconf, lgw_txgain_setconf
<1>2. CASE lgw_start
  BY <1>2 DEF lgw_start, Start_OpenFails, Start_CheckFails, Start_SetupFails,
              Start_Load, Start_LoadFails, Start_Succeeds
<1>3. CASE lgw_stop \/ Killed
  BY <1>3 DEF lgw_stop, Killed
<1>4. CASE \E c \in IfChain, r \in RfChain : Air(c, r)
  BY <1>4 DEF Air
<1>5. CASE Receive
  BY <1>5 DEF Receive, lgw_receive_call, lgw_receive_fetch, lgw_receive_return
<1>6. CASE Send
  BY <1>6 DEF Send, lgw_send
<1>7. CASE lgw_status_free \/ TxEmit \/ TxDone
  BY <1>7 DEF lgw_status_free, TxEmit, TxDone
<1>8. CASE UNCHANGED vars
  BY <1>8 DEF vars
<1>9. QED
  BY <1>1, <1>2, <1>3, <1>4, <1>5, <1>6, <1>7, <1>8 DEF Next

(* Whatever fails, a concentrator that counts as started has a handle for  *)
(* the functions that only check lgw_is_started.                           *)
THEOREM LinkCorrect == Spec => []StartedHasLink
<1>1. Init => StartedHasLink /\ LoadPhase
  BY DEF Init, StartedHasLink, LoadPhase
<1>2. QED
  BY <1>1, LinkStep, LoadStep, PTL DEF Spec

-----------------------------------------------------------------------------
(* Order.  A packet is fetched once because it is only moved, from the     *)
(* head of a rising FIFO to the end of a rising array.                     *)

LEMMA AppendRising ==
  ASSUME NEW S, \A x \in S : x.id \in Nat,
         NEW s \in Seq(S), NEW e \in S, Rising(s), Below(s, e.id)
  PROVE  Rising(Append(s, e))
<1>1. SUFFICES ASSUME NEW i \in DOMAIN Append(s, e), NEW j \in DOMAIN Append(s, e), i < j
               PROVE  Append(s, e)[i].id < Append(s, e)[j].id
  BY DEF Rising
<1>2. Len(s) \in Nat /\ DOMAIN s = 1 .. Len(s) /\ DOMAIN Append(s, e) = 1 .. Len(s) + 1
  OBVIOUS
<1>3. i \in DOMAIN s /\ Append(s, e)[i] = s[i]
  BY <1>1, <1>2, AppendProperties
<1>4. CASE j = Len(s) + 1
  BY <1>3, <1>4, AppendProperties DEF Below
<1>5. CASE j # Len(s) + 1
  <2>1. j \in DOMAIN s /\ Append(s, e)[j] = s[j]
    BY <1>2, <1>5, AppendProperties
  <2>2. QED
    BY <1>1, <1>3, <2>1 DEF Rising
<1>6. QED
  BY <1>4, <1>5

LEMMA AppendBelow ==
  ASSUME NEW S, \A x \in S : x.id \in Nat,
         NEW s \in Seq(S), NEW e \in S, NEW n \in Nat, NEW m \in Nat,
         Below(s, n), n <= m, e.id < m
  PROVE  Below(Append(s, e), m)
<1>1. SUFFICES ASSUME NEW i \in DOMAIN Append(s, e)
               PROVE  Append(s, e)[i].id < m
  BY DEF Below
<1>2. Len(s) \in Nat /\ DOMAIN s = 1 .. Len(s) /\ DOMAIN Append(s, e) = 1 .. Len(s) + 1
  OBVIOUS
<1>3. CASE i = Len(s) + 1
  BY <1>3, AppendProperties
<1>4. CASE i # Len(s) + 1
  <2>1. i \in DOMAIN s /\ Append(s, e)[i] = s[i] /\ s[i] \in S
    BY <1>2, <1>4, AppendProperties
  <2>2. s[i].id < n /\ s[i].id \in Nat
    BY <2>1 DEF Below
  <2>3. QED
    BY <2>1, <2>2
<1>5. QED
  BY <1>3, <1>4

(* What is left of a rising FIFO is rising, and newer than its head.       *)
LEMMA TailRising ==
  ASSUME NEW S, NEW s \in Seq(S), s # <<>>, Rising(s)
  PROVE  /\ Rising(Tail(s))
         /\ \A k \in DOMAIN Tail(s) :
              k + 1 \in DOMAIN s /\ Tail(s)[k] = s[k + 1] /\ Head(s).id < Tail(s)[k].id
<1>1. \A k \in DOMAIN Tail(s) : k \in Nat \ {0} /\ k + 1 \in DOMAIN s /\ Tail(s)[k] = s[k + 1]
  BY HeadTailProperties
<1>2. Head(s) = s[1] /\ 1 \in DOMAIN s
  OBVIOUS
<1>3. QED
  BY <1>1, <1>2 DEF Rising

LEMMA OrderStep == OrderInv /\ [Next]_vars => OrderInv'
<1> SUFFICES ASSUME OrderInv, [Next]_vars
             PROVE  NeverTwice' /\ Rising(fifo)' /\ Below(fifo, nextId)' /\ Below(rx.buf, nextId)'
  BY TypeStep DEF OrderInv
<1> DEFINE Goal == NeverTwice' /\ Rising(fifo)' /\ Below(fifo, nextId)' /\ Below(rx.buf, nextId)'
<1>0. /\ fifo \in Seq(Packet) /\ rx.buf \in Seq(Fetched) /\ nextId \in Nat
      /\ \A x \in Packet : x.id \in Nat
      /\ \A x \in Fetched : x.id \in Nat
  BY DEF OrderInv, TypeOK, Packet, Fetched
<1>1. ASSUME UNCHANGED nextId, fifo' = fifo \/ fifo' = <<>>, rx'.buf = rx.buf \/ rx'.buf = <<>>
      PROVE  Goal
  BY <1>1 DEF OrderInv, NeverTwice, Rising, Below
<1>2. CASE Configure
  BY <1>1, <1>2 DEF Configure, lgw_rxrf_setconf, lgw_rxif_setconf, lgw_txgain_setconf
<1>3. CASE lgw_start
  BY <1>1, <1>3 DEF lgw_start, Start_OpenFails, Start_CheckFails, Start_SetupFails,
                    Start_Load, Start_LoadFails, Start_Succeeds
<1>4. CASE lgw_stop \/ Killed
  BY <1>1, <1>4 DEF lgw_stop, Killed
<1>5. ASSUME NEW c \in IfChain, NEW r \in RfChain, Air(c, r)
      PROVE  Goal
  <2>1. UNCHANGED rx /\ nextId' = nextId + 1
    BY <1>5 DEF Air
  <2>2. Below(rx.buf, nextId)'
    BY <1>0, <2>1 DEF OrderInv, Below
  <2>3. CASE fifo' = fifo
    BY <1>0, <2>1, <2>2, <2>3 DEF OrderInv, NeverTwice, Rising, Below
  <2>4. ASSUME NEW tag \in IfChain \cup {BadChain},
               fifo' = Append(fifo, [id |-> nextId, chain |-> tag, freq |-> Heard(c, r),
                                     whole |-> chip.phase = "running"])
        PROVE  Goal
    <3> DEFINE p == [id |-> nextId, chain |-> tag, freq |-> Heard(c, r),
                     whole |-> chip.phase = "running"]
    <3>1. Heard(c, r) \in Int
      BY HalAssumption DEF Heard, OrderInv, TypeOK, Chip, RfConf, IfConf
    <3>2. p \in Packet /\ p.id = nextId
      BY <1>0, <3>1 DEF Packet
    <3>3. fifo' = Append(fifo, p)
      BY <2>4
    <3> HIDE DEF p
    <3>4. Rising(Append(fifo, p))
      BY <1>0, <3>2, AppendRising DEF OrderInv
    <3>5. Below(Append(fifo, p), nextId + 1)
      BY <1>0, <3>2, AppendBelow DEF OrderInv
    <3>6. \A i \in DOMAIN rx.buf, k \in DOMAIN Append(fifo, p) : rx.buf[i].id < Append(fifo, p)[k].id
      BY <1>0, <3>2, AppendProperties DEF OrderInv, NeverTwice, Below
    <3>7. QED
      BY <2>1, <2>2, <3>3, <3>4, <3>5, <3>6 DEF OrderInv, NeverTwice
  <2>5. QED
    BY <1>5, <2>3, <2>4 DEF Air
<1>6. CASE lgw_receive_call \/ lgw_receive_return
  BY <1>1, <1>6 DEF lgw_receive_call, lgw_receive_return, OrderInv, TypeOK
<1>7. CASE lgw_receive_fetch
  <2>1. fifo # <<>> /\ Head(fifo).chain # BadChain /\ fifo' = Tail(fifo) /\ UNCHANGED nextId
    BY <1>7 DEF lgw_receive_fetch, CanFetch, AdvanceFifo
  <2>2. Head(fifo) \in Packet /\ Head(fifo) = fifo[1] /\ 1 \in DOMAIN fifo
    BY <1>0, <2>1, HeadTailProperties
  <2> DEFINE p == [id       |-> Head(fifo).id,
                   reported |-> Reported(Head(fifo).chain),
                   heard    |-> Head(fifo).freq,
                   whole    |-> Head(fifo).whole]
  <2>3. p.id = fifo[1].id
    BY <2>2
  <2>4. p \in Fetched
    <3>1. Head(fifo).chain \in IfChain
      BY <2>1, <2>2 DEF Packet
    <3>2. Reported(Head(fifo).chain) \in Int
      BY <3>1, HalAssumption DEF Reported, OrderInv, TypeOK, RfConf, IfConf
    <3>3. QED
      BY <2>2, <3>2 DEF Packet, Fetched
  <2>5. rx' = [rx EXCEPT !.buf = Append(rx.buf, p)]
    BY <1>7 DEF lgw_receive_fetch
  <2> HIDE DEF p
  <2>6. rx'.buf = Append(rx.buf, p)
    BY <2>5 DEF OrderInv, TypeOK
  <2>7. Below(rx.buf, p.id)
    BY <2>2, <2>3 DEF OrderInv, NeverTwice, Below
  <2>8. Rising(Append(rx.buf, p))
    BY <1>0, <2>4, <2>7, AppendRising DEF OrderInv, NeverTwice
  <2>9. Below(Append(rx.buf, p), nextId)
    <3>1. p.id < nextId
      BY <2>2, <2>3 DEF OrderInv, Below
    <3>2. QED
      BY <1>0, <2>4, <3>1, AppendBelow DEF OrderInv
  <2>10. Rising(Tail(fifo)) /\ Below(Tail(fifo), nextId)
    BY <1>0, <2>1, TailRising DEF OrderInv, Below
  <2>11. \A i \in DOMAIN Append(rx.buf, p), k \in DOMAIN Tail(fifo) :
            Append(rx.buf, p)[i].id < Tail(fifo)[k].id
    <3>1. SUFFICES ASSUME NEW i \in DOMAIN Append(rx.buf, p), NEW k \in DOMAIN Tail(fifo)
                   PROVE  Append(rx.buf, p)[i].id < Tail(fifo)[k].id
      OBVIOUS
    <3>2. /\ k + 1 \in DOMAIN fifo /\ Tail(fifo)[k] = fifo[k + 1]
          /\ fifo[1].id < Tail(fifo)[k].id
      BY <1>0, <2>1, <2>2, TailRising DEF OrderInv
    <3>3. CASE i = Len(rx.buf) + 1
      BY <1>0, <2>3, <2>4, <3>2, <3>3, AppendProperties
    <3>4. CASE i # Len(rx.buf) + 1
      <4>1. i \in DOMAIN rx.buf /\ Append(rx.buf, p)[i] = rx.buf[i]
        BY <1>0, <2>4, <3>4, AppendProperties
      <4>2. QED
        BY <3>2, <4>1 DEF OrderInv, NeverTwice
    <3>5. QED
      BY <3>3, <3>4
  <2>12. QED
    BY <2>1, <2>6, <2>8, <2>9, <2>10, <2>11 DEF NeverTwice
<1>8. CASE Send
  BY <1>1, <1>8 DEF Send, lgw_send
<1>9. CASE lgw_status_free \/ TxEmit \/ TxDone
  BY <1>1, <1>9 DEF lgw_status_free, TxEmit, TxDone
<1>10. CASE UNCHANGED vars
  BY <1>1, <1>10 DEF vars
<1>11. QED
  BY <1>2, <1>3, <1>4, <1>5, <1>6, <1>7, <1>8, <1>9, <1>10 DEF Next, Receive

(* lgw_receive hands packets over in the order they were heard, and never  *)
(* one of them twice, across stops, restarts and calls that return early.  *)
THEOREM OnceCorrect == Spec => []NeverTwice
<1>1. Init => OrderInv
  BY TypeInit DEF Init, OrderInv, NeverTwice, Rising, Below
<1>2. OrderInv => NeverTwice
  BY DEF OrderInv
<1>3. QED
  BY <1>1, <1>2, OrderStep, PTL DEF Spec

-----------------------------------------------------------------------------
(* Polling. *)

LEMMA PollStep ==
  ASSUME ~Restarts, PollInv, LoadPhase, [Next]_vars
  PROVE  PollInv' /\ (tx' # tx /\ tx'.state = "scheduled" => tx.state = "free")
<1> USE DEF PollInv, LoadPhase
<1>1. CASE Configure
  BY <1>1 DEF Configure, lgw_rxrf_setconf, lgw_rxif_setconf, lgw_txgain_setconf
<1>2. CASE lgw_start
  BY <1>2 DEF lgw_start, StartAllowed, TxFree, Start_OpenFails, Start_CheckFails,
              Start_SetupFails, Start_Load, Start_LoadFails, Start_Succeeds, Quiet
<1>3. CASE lgw_stop \/ Killed
  BY <1>3 DEF lgw_stop, Killed, TxFree
<1>4. CASE \E c \in IfChain, r \in RfChain : Air(c, r)
  BY <1>4 DEF Air
<1>5. CASE Receive
  BY <1>5 DEF Receive, lgw_receive_call, lgw_receive_fetch, lgw_receive_return
<1>6. CASE Send
  BY <1>6 DEF Send, lgw_send
<1>7. CASE lgw_status_free
  BY <1>7 DEF lgw_status_free, StatusFree
<1>8. CASE TxEmit
  <2>1. tx' = [tx EXCEPT !.state = "emitting"] /\ tx.state = "scheduled" /\ UNCHANGED <<started, link, txpc>>
    BY <1>8 DEF TxEmit
  <2>2. tx' = tx \/ tx'.state # "scheduled"
    BY <2>1
  <2>3. QED
    BY <2>1, <2>2
<1>9. CASE TxDone
  BY <1>9 DEF TxDone, TxFree
<1>10. CASE UNCHANGED vars
  BY <1>10 DEF vars
<1>11. QED
  BY <1>1, <1>2, <1>3, <1>4, <1>5, <1>6, <1>7, <1>8, <1>9, <1>10 DEF Next

(* Without a restart no packet is handed to the transmitter while another  *)
(* one is waiting there or being sent.                                     *)
THEOREM AbortCorrect ==
  ASSUME ~Restarts
  PROVE  Spec => NoAbort
<1>1. Init => PollInv /\ LoadPhase
  BY DEF Init, PollInv, LoadPhase
<1>2. PollInv /\ LoadPhase /\ [Next]_vars => PollInv' /\ LoadPhase'
  BY PollStep, LoadStep
<1>3. PollInv /\ LoadPhase /\ [Next]_vars => [tx' # tx /\ tx'.state = "scheduled" => tx.state = "free"]_vars
  BY PollStep
<1>4. QED
  BY <1>1, <1>2, <1>3, PTL DEF Spec, NoAbort
=============================================================================
