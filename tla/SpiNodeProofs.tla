--------------------------- MODULE SpiNodeProofs ---------------------------
(* Proofs about SpiNode, with interrupts at any moment of any transfer: a  *)
(* node only goes deaf in one way, and the lamp is what the node reports   *)
(* but for a pass of loop() that lost a transfer.                          *)
EXTENDS SpiNode, TLAPS

USE DEF Quiet, NotDeaf, Flags

(* Packet records are packets. *)
LEMMA PacketType == \A c \in Commands, ok \in BOOLEAN : Packet(c, ok) \in Packets
  BY DEF Packets

LEMMA NoPacketType == NoPacket \in Packets
  BY DEF Packets

(* A status and its pins: three values, each with its own pair.            *)
LEMMA LitType == \A s \in 0 .. 2 : Lit(s)[1] \in BOOLEAN /\ Lit(s)[2] \in BOOLEAN
                                   /\ Lit(s) = <<Lit(s)[1], Lit(s)[2]>>
  BY DEF Lit

LEMMA StatusType == \A l : StatusOf(l) \in 0 .. 2
  BY DEF StatusOf

-----------------------------------------------------------------------------
LEMMA InitDio == Init => DioInv
<1>1. 0 \in 0 .. MaxReports
  BY NodeAssumption
<1>2. ASSUME Init PROVE TypeOK
  <2>1. mode \in {"rx", "standby", "tx"} /\ irq \subseteq {"RxDone", "CrcErr", "TxDone"}
        /\ last \in Packets /\ ptr \in Packets /\ txbuf \in {Junk} \cup 0 .. 2
    BY <1>2, NoPacketType DEF Init
  <2>2. /\ len \in 0 .. MaxReports /\ pend \in BOOLEAN /\ pc \in LoopPcs
        /\ ss \in {"high", "low", "lost", "tail"}
        /\ isr \in {"off", "flags", "clear", "point", "act"}
        /\ flags \subseteq {"RxDone", "CrcErr", "TxDone"}
        /\ lost \in {"none", "idle", "later"} /\ garbled \in BOOLEAN /\ overrun \in BOOLEAN
    BY <1>2, <1>1 DEF Init, LoopPcs
  <2>3. mode_auto \in BOOLEAN /\ dark \in BOOLEAN /\ M0 \in BOOLEAN /\ M1 \in BOOLEAN
    BY <1>2, Zenon DEF Init
  <2>4. status_led = 0 /\ pack = 0
    BY <1>2, Zenon DEF Init
  <2>5. status_led \in 0 .. 2 /\ pack \in 0 .. 2
    BY <2>4
  <2> QED BY <2>1, <2>2, <2>3, <2>5 DEF TypeOK
<1>3. Init => /\ ~pend /\ isr = "off" /\ "RxDone" \notin irq
  BY DEF Init
<1> QED BY <1>2, <1>3 DEF DioInv

LEMMA AirDio == DioInv /\ Air => DioInv'
<1>1. ASSUME DioInv, NEW c \in Commands, NEW ok \in BOOLEAN, Receive(c, ok) PROVE DioInv'
  <2>1. last' \in Packets
    BY <1>1, PacketType DEF Receive
  <2>2. irq' \subseteq {"RxDone", "CrcErr", "TxDone"} /\ "RxDone" \in irq' /\ pend' \in BOOLEAN
    BY <1>1 DEF Receive, DioInv, TypeOK
  <2>3. isr \in {"flags", "clear"} => ~pend'
    BY <1>1 DEF Receive, DioInv, TypeOK
  <2>4. pend' \/ isr \in {"flags", "clear"} \/ garbled
    BY <1>1 DEF Receive, DioInv, TypeOK
  <2> QED BY <1>1, <2>1, <2>2, <2>3, <2>4 DEF Receive, DioInv, TypeOK, lampVars, history
<1>2. ASSUME DioInv, Transmitted PROVE DioInv'
  BY <1>2 DEF Transmitted, DioInv, TypeOK, lampVars, history
<1> QED BY <1>1, <1>2 DEF Air

LEMMA HandlerDio == DioInv /\ Handler => DioInv'
<1>1. ASSUME DioInv, IsrEnter PROVE DioInv'
  <2>1. pend' = FALSE /\ isr' = "flags" /\ "RxDone" \in irq'
    BY <1>1, Zenon DEF IsrEnter, DioInv, radioVars
  <2>2. TypeOK'
    <3>1. UNCHANGED <<radioVars, pc, ss, flags, lampVars, history>> /\ TypeOK
      BY <1>1, Zenon DEF IsrEnter, DioInv
    <3>2. pend' \in BOOLEAN /\ isr' \in {"off", "flags", "clear", "point", "act"}
      BY <2>1
    <3>3. /\ mode' = mode /\ irq' = irq /\ last' = last /\ ptr' = ptr
          /\ txbuf' = txbuf /\ len' = len /\ pc' = pc /\ ss' = ss /\ flags' = flags
          /\ mode_auto' = mode_auto /\ dark' = dark /\ M0' = M0 /\ M1' = M1
          /\ status_led' = status_led /\ pack' = pack
          /\ lost' = lost /\ garbled' = garbled /\ overrun' = overrun
      BY <3>1, Zenon DEF radioVars, lampVars, history
    <3> QED BY <3>1, <3>2, <3>3 DEF TypeOK
  <2> QED BY <2>1, <2>2 DEF DioInv
<1>2. ASSUME DioInv, IsrFlags PROVE DioInv'
  <2>1. garbled' \in BOOLEAN /\ overrun' \in BOOLEAN
    BY <1>2, Zenon DEF IsrFlags
  <2>2. flags' \subseteq {"RxDone", "CrcErr", "TxDone"} /\ ss' \in {"high", "low", "lost", "tail"}
    BY <1>2 DEF IsrFlags, DioInv, TypeOK
  <2>3. "RxDone" \in flags' \/ garbled'
    <3>1. CASE ss = "tail"
      BY <1>2, <3>1, Zenon DEF IsrFlags
    <3>2. CASE ss # "tail"
      BY <1>2, <3>2 DEF IsrFlags, DioInv
    <3> QED BY <3>1, <3>2
  <2> QED BY <1>2, <2>1, <2>2, <2>3 DEF IsrFlags, DioInv, TypeOK, radioVars, lampVars
<1>3. ASSUME DioInv, IsrClear PROVE DioInv'
  <2>1. irq' \subseteq {"RxDone", "CrcErr", "TxDone"} /\ flags' = {}
        /\ isr' \in {"off", "point"} /\ ss' \in {"high", "low", "lost", "tail"}
    BY <1>3 DEF IsrClear, DioInv, TypeOK, Deselected
  <2>2. "RxDone" \in irq' => garbled
    BY <1>3 DEF IsrClear, DioInv, Cleared
  <2> QED BY <1>3, <2>1, <2>2 DEF IsrClear, DioInv, TypeOK, lampVars, history
<1>4. ASSUME DioInv, IsrPoint PROVE DioInv'
  BY <1>4 DEF IsrPoint, DioInv, TypeOK, lampVars, history
<1>5. ASSUME DioInv, IsrAct PROVE DioInv'
  <2>1. status_led' \in 0 .. 2 /\ M0' \in BOOLEAN /\ M1' \in BOOLEAN
    BY <1>5, StatusType, LitType DEF IsrAct, DioInv, TypeOK
  <2>2. mode_auto' \in BOOLEAN
    BY <1>5 DEF IsrAct, DioInv, TypeOK, ModeAfter
  <2>3. ss' \in {"high", "low", "lost", "tail"} /\ ptr' \in Packets
    BY <1>5, NoPacketType DEF IsrAct, DioInv, TypeOK, Deselected
  <2> QED
    BY <1>5, <2>1, <2>2, <2>3 DEF IsrAct, DioInv, TypeOK, history
<1> QED BY <1>1, <1>2, <1>3, <1>4, <1>5 DEF Handler

LEMMA LoopDio == DioInv /\ Loop => DioInv'
<1> USE DEF DioInv, TypeOK, LoopPcs, radioVars, lampVars, history, At
<1>1. ASSUME DioInv, Wakes PROVE DioInv'             BY <1>1 DEF Wakes
<1>2. ASSUME DioInv, Select PROVE DioInv'            BY <1>2 DEF Select
<1>3. ASSUME DioInv, idle PROVE DioInv'              BY <1>3 DEF idle, Transfer, Reached, IdleMode
<1>4. ASSUME DioInv, GetLightIntensity PROVE DioInv' BY <1>4 DEF GetLightIntensity
<1>5. ASSUME DioInv, WritePin0 PROVE DioInv'         BY <1>5 DEF WritePin0
<1>6. ASSUME DioInv, WritePin1 PROVE DioInv'         BY <1>6 DEF WritePin1
<1>7. ASSUME DioInv, SetStatus PROVE DioInv'         BY <1>7 DEF SetStatus
<1>8. ASSUME DioInv, CopyStatus PROVE DioInv'        BY <1>8 DEF CopyStatus
<1>9. ASSUME DioInv, isTransmitting PROVE DioInv'    BY <1>9 DEF isTransmitting, Transfer, Clean, Reached
<1>10. ASSUME DioInv, beginPacket_idle PROVE DioInv'
  BY <1>10 DEF beginPacket_idle, Transfer, Reached
<1>11. ASSUME DioInv, beginPacket_fifo PROVE DioInv'
  BY <1>11, NodeAssumption, NoPacketType DEF beginPacket_fifo, LengthReset, Transfer, Clean, Reached
<1>12. ASSUME DioInv, write PROVE DioInv'
  <2>1. len' \in 0 .. MaxReports
    BY <1>12, NodeAssumption DEF write, Clean, Reached
  <2>2. txbuf' \in {Junk} \cup 0 .. 2
    BY <1>12 DEF write
  <2> QED BY <1>12, <2>1, <2>2 DEF write, Transfer, Reached
<1>13. ASSUME DioInv, endPacket_tx PROVE DioInv'     BY <1>13 DEF endPacket_tx, Transfer, Reached
<1>14. ASSUME DioInv, endPacket_poll PROVE DioInv'
  BY <1>14 DEF endPacket_poll, Transfer, Clean, Reached, DoneFlag
<1>15. ASSUME DioInv, receive PROVE DioInv'          BY <1>15 DEF receive, Transfer, Reached
<1>16. ASSUME DioInv, Deselect PROVE DioInv'         BY <1>16 DEF Deselect
<1> QED BY <1>1, <1>2, <1>3, <1>4, <1>5, <1>6, <1>7, <1>8, <1>9, <1>10, <1>11,
           <1>12, <1>13, <1>14, <1>15, <1>16 DEF Loop, Report

LEMMA DioStep == DioInv /\ [Next]_vars => DioInv'
<1>1. DioInv /\ UNCHANGED vars => DioInv'
  BY DEF vars, radioVars, lampVars, history, DioInv, TypeOK
<1> QED BY <1>1, AirDio, HandlerDio, LoopDio DEF Next

(* The interrupt discipline, wherever an interrupt falls.                  *)
THEOREM DioHolds == Spec => []DioInv
  BY InitDio, DioStep, PTL DEF Spec

(* Every variable keeps its type.                                          *)
THEOREM TypeCorrect == Spec => []TypeOK
<1>1. DioInv => TypeOK  BY DEF DioInv
<1> QED BY <1>1, DioHolds, PTL

(* The node only gets deaf in one way: a raised RxDone is going to be      *)
(* handled unless the last handler was served between the end of a         *)
(* transfer of loop() and SS high; one served between SS low and the       *)
(* transfer, which makes it disappear, does no harm here.                  *)
THEOREM HearsAgain == Spec => []NotDeaf
<1>1. DioInv => NotDeaf  BY DEF DioInv
<1> QED BY <1>1, DioHolds, PTL

-----------------------------------------------------------------------------
(* What a pass of loop() does as long as its transfers reach the radio.    *)

LEMMA InitLoop == Init => LoopInv
  BY DEF Init, LoopInv

LEMMA AirLoop == DioInv /\ LoopInv /\ Air => LoopInv'
<1>1. ASSUME DioInv, LoopInv, NEW c \in Commands, NEW ok \in BOOLEAN, Receive(c, ok)
      PROVE LoopInv'
  BY <1>1 DEF Receive, LoopInv, lampVars, history, DioInv, TypeOK, LoopPcs
<1>2. ASSUME DioInv, LoopInv, Transmitted PROVE LoopInv'
  BY <1>2 DEF Transmitted, LoopInv, lampVars, history
<1> QED BY <1>1, <1>2 DEF Air

(* The handler runs before the radio is idle, or right after: never where  *)
(* loop() is busy with the lamp.                                           *)
LEMMA HandlerLoop == DioInv /\ LoopInv /\ Handler => LoopInv'
<1> USE DEF LoopInv, DioInv
<1>1. ASSUME DioInv, LoopInv, IsrEnter PROVE LoopInv'
  BY <1>1 DEF IsrEnter, radioVars, lampVars, history
<1>2. ASSUME DioInv, LoopInv, IsrFlags PROVE LoopInv'
  BY <1>2 DEF IsrFlags, radioVars, lampVars, history
<1>3. ASSUME DioInv, LoopInv, IsrClear PROVE LoopInv'
  BY <1>3 DEF IsrClear, lampVars, history
<1>4. ASSUME DioInv, LoopInv, IsrPoint PROVE LoopInv'
  BY <1>4 DEF IsrPoint, lampVars, history
<1>5. ASSUME DioInv, LoopInv, IsrAct PROVE LoopInv'
  BY <1>5 DEF IsrAct, history
<1> QED BY <1>1, <1>2, <1>3, <1>4, <1>5 DEF Handler

LEMMA LoopLoop == DioInv /\ LoopInv /\ Loop => LoopInv'
<1> USE DEF LoopInv, radioVars, lampVars, history, At, Transfer, Reached, Clean
<1>1. ASSUME DioInv, LoopInv, Wakes PROVE LoopInv'             BY <1>1 DEF Wakes
<1>2. ASSUME DioInv, LoopInv, Select PROVE LoopInv'            BY <1>2 DEF Select
<1>3. ASSUME DioInv, LoopInv, idle PROVE LoopInv'              BY <1>3 DEF idle, IdleMode
<1>4. ASSUME DioInv, LoopInv, GetLightIntensity PROVE LoopInv' BY <1>4 DEF GetLightIntensity
<1>5. ASSUME DioInv, LoopInv, WritePin0 PROVE LoopInv'         BY <1>5 DEF WritePin0
<1>6. ASSUME DioInv, LoopInv, WritePin1 PROVE LoopInv'         BY <1>6 DEF WritePin1
<1>7. ASSUME DioInv, LoopInv, SetStatus PROVE LoopInv'         BY <1>7 DEF SetStatus
<1>8. ASSUME DioInv, LoopInv, CopyStatus PROVE LoopInv'        BY <1>8 DEF CopyStatus
<1>9. ASSUME DioInv, LoopInv, isTransmitting PROVE LoopInv'
  BY <1>9 DEF isTransmitting
<1>10. ASSUME DioInv, LoopInv, beginPacket_idle PROVE LoopInv'
  BY <1>10 DEF beginPacket_idle
<1>11. ASSUME DioInv, LoopInv, beginPacket_fifo PROVE LoopInv'
  BY <1>11 DEF beginPacket_fifo, LengthReset
<1>12. ASSUME DioInv, LoopInv, write PROVE LoopInv'
  <2>1. lost' = "none" => len' = 1 /\ txbuf' = status_led
    BY <1>12, NodeAssumption DEF write
  <2> QED BY <1>12, <2>1 DEF write
<1>13. ASSUME DioInv, LoopInv, endPacket_tx PROVE LoopInv'
  BY <1>13 DEF endPacket_tx
<1>14. ASSUME DioInv, LoopInv, endPacket_poll PROVE LoopInv'
  BY <1>14 DEF endPacket_poll, DoneFlag
<1>15. ASSUME DioInv, LoopInv, receive PROVE LoopInv'          BY <1>15 DEF receive
<1>16. ASSUME DioInv, LoopInv, Deselect PROVE LoopInv'         BY <1>16 DEF Deselect
<1> QED BY <1>1, <1>2, <1>3, <1>4, <1>5, <1>6, <1>7, <1>8, <1>9, <1>10, <1>11,
           <1>12, <1>13, <1>14, <1>15, <1>16 DEF Loop, Report

LEMMA LoopStep == DioInv /\ LoopInv /\ [Next]_vars => LoopInv'
<1>1. LoopInv /\ UNCHANGED vars => LoopInv'
  BY DEF vars, radioVars, lampVars, history, LoopInv
<1> QED BY <1>1, AirLoop, HandlerLoop, LoopLoop DEF Next

THEOREM LoopHolds == Spec => []LoopInv
  BY InitLoop, DioHolds, LoopStep, PTL DEF Spec

-----------------------------------------------------------------------------
(* The lamp. *)

LEMMA Together ==
  /\ Lit(0) = <<FALSE, FALSE>>
  /\ Lit(1) = <<TRUE, TRUE>>
  BY DEF Lit

(* The end of an automatic pass brings pins and status together.           *)
LEMMA StatusAgrees == ASSUME DioInv, LoopInv, lost # "idle", SetStatus PROVE Agree'
<1>1. M0 = dark /\ M1 = dark /\ dark \in BOOLEAN
  BY DEF SetStatus, At, DioInv, TypeOK, LoopInv
<1>2. CASE dark
  <2>1. M0 = TRUE /\ M1 = TRUE
    BY <1>1, <1>2, Zenon
  <2>2. status_led' = 1 /\ M0' = M0 /\ M1' = M1
    BY <1>2 DEF SetStatus
  <2> QED BY <2>1, <2>2, Together, Zenon DEF Agree
<1>3. CASE ~dark
  <2>1. M0 = FALSE /\ M1 = FALSE
    BY <1>1, <1>3, Zenon
  <2>2. status_led' = 0 /\ M0' = M0 /\ M1' = M1
    BY <1>3 DEF SetStatus
  <2> QED BY <2>1, <2>2, Together, Zenon DEF Agree
<1> QED BY <1>2, <1>3

(* A command switches pins and status together.                            *)
LEMMA CommandAgrees == ASSUME DioInv, Agree, LoopInv, lost # "idle", IsrAct PROVE Agree'
<1>1. pc \notin {"pin1", "status"} /\ pc' = pc
  BY DEF IsrAct, LoopInv
<1>2. CASE ptr.mine /\ ptr.lamp # "none"
  BY <1>2, StatusType, LitType DEF IsrAct, Agree
<1>3. CASE ~(ptr.mine /\ ptr.lamp # "none")
  BY <1>1, <1>3 DEF IsrAct, Agree
<1> QED BY <1>2, <1>3

(* The status the node keeps is what its pins do, and they only come apart *)
(* in a pass of loop() whose idle() went to no chip.                       *)
THEOREM LampCorrect == Spec => LampAsReported
<1>1. DioInv /\ LoopInv /\ [Next]_vars => [Agree /\ lost # "idle" => Agree']_vars
  <2> SUFFICES ASSUME DioInv, LoopInv, Next, Agree, lost # "idle"
               PROVE Agree'
    OBVIOUS
  <2>1. ASSUME UNCHANGED <<M0, M1, status_led>>, pc = "status" => pc' = "status",
               pc = "pin1" => pc' \in {"pin1", "status"}
        PROVE  Agree'
    BY <2>1 DEF Agree, Lit
  <2>2. CASE Air
    BY <2>1, <2>2 DEF Air, Receive, Transmitted, lampVars
  <2>3. CASE Handler
    <3>1. CASE IsrAct
      BY <3>1, CommandAgrees
    <3>2. CASE ~IsrAct
      BY <2>1, <2>3, <3>2 DEF Handler, IsrEnter, IsrFlags, IsrClear, IsrPoint, lampVars
    <3> QED BY <3>1, <3>2
  <2>4. CASE Loop
    <3>1. CASE SetStatus
      BY <3>1, StatusAgrees
    <3>2. CASE WritePin0 \/ WritePin1
      BY <3>2 DEF WritePin0, WritePin1, Agree
    <3>3. CASE ~SetStatus /\ ~WritePin0 /\ ~WritePin1
      BY <2>1, <2>4, <3>3
         DEF Loop, Report, Wakes, Select, Deselect, idle, GetLightIntensity,
             CopyStatus, isTransmitting, beginPacket_idle, beginPacket_fifo,
             write, endPacket_tx, endPacket_poll, receive, lampVars, At, Transfer
    <3> QED BY <3>1, <3>2, <3>3
  <2> QED BY <2>2, <2>3, <2>4 DEF Next
<1> QED BY <1>1, LoopHolds, DioHolds, PTL DEF Spec, LampAsReported

(* A report carries the lamp's status, once, when no transfer of its pass  *)
(* was lost, whatever was lost before.                                     *)
THEOREM ReportCorrect == Spec => []SendsStatus
<1>1. LoopInv => SendsStatus  BY DEF LoopInv, SendsStatus
<1> QED BY <1>1, LoopHolds, PTL

(* Under manual control only a command changes the lamp: a step of loop()  *)
(* that writes the lamp belongs to a pass that found automatic control,    *)
(* and no command has come in between unless idle() was lost.              *)
THEOREM ManualCorrect == Spec => ManualSticks
<1>1. LoopInv /\ [Next]_vars =>
        [~mode_auto /\ <<M0, M1, status_led>>' # <<M0, M1, status_led>>
           => isr = "act" \/ lost = "idle"]_vars
  <2> SUFFICES ASSUME LoopInv, Next, ~mode_auto, isr # "act", lost # "idle"
               PROVE <<M0, M1, status_led>>' = <<M0, M1, status_led>>
    OBVIOUS
  <2>1. CASE Air
    BY <2>1 DEF Air, Receive, Transmitted, lampVars
  <2>2. CASE Handler
    BY <2>2 DEF Handler, IsrEnter, IsrFlags, IsrClear, IsrPoint, IsrAct, lampVars
  <2>3. CASE Loop
    BY <2>3 DEF Loop, Report, Wakes, Select, Deselect, idle, GetLightIntensity, WritePin0,
                WritePin1, SetStatus, CopyStatus, isTransmitting, beginPacket_idle,
                beginPacket_fifo, write, endPacket_tx, endPacket_poll, receive, lampVars, At,
                LoopInv
  <2> QED BY <2>1, <2>2, <2>3 DEF Next
<1> QED BY <1>1, LoopHolds, PTL DEF Spec, ManualSticks
=============================================================================
