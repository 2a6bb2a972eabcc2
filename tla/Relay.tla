------------------------------- MODULE Relay -------------------------------
(***************************************************************************)
(* The relay between two E32 nodes and the gateway: RelayNode.ino, and the *)
(* nodes UartNode1/UartNode2.ino as far as they talk to it.  A node's      *)
(* message arrives as bytes on a serial line, without a frame; loop()      *)
(* takes the bytes it finds for one message, decides from the first two    *)
(* which node they are from and reports that node to the gateway.  A       *)
(* command of the gateway interrupts loop() and is passed on through the   *)
(* same serial port; the interrupt may also fall into the transfers by     *)
(* which a report switches the SX1278 (LoRa.cpp, see SpiNode).             *)
(***************************************************************************)
EXTENDS Integers, Sequences, FiniteSets

CONSTANTS
  MaxSends,    \* messages of the two nodes together
  MaxCommands, \* packets the gateway sends on the relay's frequency
  Capacity     \* bytes the receive buffer of SoftwareSerial holds

ASSUME RelayAssumption ==
  MaxSends \in Nat /\ MaxCommands \in Nat /\ Capacity \in Nat \ {0}

Node == {1, 2}
Byte == {"B", "1", "2", "C"}                       \* 0xBB, 0x11, 0x22, 0xCC
address_uart_1 == <<"B", "1">>
address_uart_2 == <<"B", "2">>

(* What follows destination and channel in the frame of timerIsr.          *)
Message(n) == (IF n = 1 THEN address_uart_1 ELSE address_uart_2) \o <<"B", "C">>

VARIABLES
  out,       \* bytes the relay's E32 has received and not yet passed on
  serial,    \* bytes in the receive buffer of LoraSerial
  pc,        \* loop(): "listen", "fetch", or the transfer of a report it is at
  data_len,
  from,      \* the node the bytes fetched are taken to be from, 0 for none
  radio,     \* the SX1278: "rx", "standby" or "tx"
  done,      \* its TxDone flag
  ss,        \* slave select: "low" before the bytes of a transfer of loop(),
             \* "lost" if the handler raised it then, "tail" after them,
             \* "latched" if a packet ended while they were sent
  commands,  \* packets heard from the gateway
  sent,      \* messages each node has sent
  reported,  \* reports to the gateway about each node
  odd,       \* fetches that were not one whole message
  lone,      \* fetches of a single byte
  lost       \* history: the transfers of the last report that went to no chip

radioVars == <<radio, done, ss, lost>>
loopVars  == <<pc, data_len, from, reported, odd, lone>>
vars == <<out, serial, loopVars, radioVars, commands, sent>>

TransferPcs == {"idle", "begin", "standby", "txmode", "poll", "receive"}

(* Types; the bytes counted by available() are still there when read.      *)
TypeOK ==
  /\ out \in Seq(Byte) /\ serial \in Seq(Byte)
  /\ Len(serial) <= Capacity
  /\ pc \in {"listen", "fetch"} \cup TransferPcs
  /\ data_len \in Nat /\ data_len <= Len(serial)
  /\ from \in Node \cup {0}
  /\ radio \in {"rx", "standby", "tx"} /\ done \in BOOLEAN
  /\ ss \in {"high", "low", "lost", "tail", "latched"} /\ lost \subseteq TransferPcs
  /\ commands \in 0 .. MaxCommands
  /\ sent \in [Node -> 0 .. MaxSends]
  /\ reported \in [Node -> Nat]
  /\ odd \in Nat /\ lone \in Nat
  /\ (pc = "fetch") = (data_len > 0)
  /\ (pc \in {"idle", "begin", "standby", "txmode"}) = (from \in Node)

(* After setup() of all three. *)
Init ==
  /\ out = <<>> /\ serial = <<>>
  /\ pc = "listen" /\ data_len = 0 /\ from = 0
  /\ radio = "rx" /\ done = FALSE /\ ss = "high" /\ lost = {}
  /\ commands = 0 /\ sent = [n \in Node |-> 0]
  /\ reported = [n \in Node |-> 0] /\ odd = 0 /\ lone = 0

-----------------------------------------------------------------------------
(* The nodes and the E32 radios. *)

(* A message may be lost in the air.  A node's loop() fetches commands     *)
(* into an array of length 0: the node may stop, and sends no more.        *)
timerIsr(n) ==
  /\ sent[1] + sent[2] < MaxSends
  /\ sent' = [sent EXCEPT ![n] = @ + 1]
  /\ out' \in {out, out \o Message(n)}
  /\ UNCHANGED <<serial, loopVars, radioVars, commands>>

(* SoftwareSerial drops what does not fit. *)
ByteArrives ==
  /\ out # <<>>
  /\ out' = Tail(out)
  /\ serial' = IF Len(serial) < Capacity THEN Append(serial, Head(out)) ELSE serial
  /\ UNCHANGED <<loopVars, radioVars, commands, sent>>

-----------------------------------------------------------------------------
(* The SX1278, and the handler of a packet it received.  Interrupts are    *)
(* disabled in it: the bytes that come in meanwhile are lost.  It leaves   *)
(* SS high, and the flags of its packet cleared, with them TxDone, unless  *)
(* it read them at the end of a transfer of loop().                        *)

onReceive ==
  /\ radio = "rx" \/ ss = "latched"
  /\ commands < MaxCommands
  /\ commands' = commands + 1
  /\ \E missed \in 0 .. Len(out) : out' = SubSeq(out, missed + 1, Len(out))
  /\ ss' = CASE ss = "low" -> "lost" [] ss \in {"tail", "latched"} -> "high" [] OTHER -> ss
  /\ done' \in {FALSE} \cup (IF ss \in {"tail", "latched"} THEN {done} ELSE {})
  /\ UNCHANGED <<serial, loopVars, radio, lost, sent>>

(* A transmission takes milliseconds: an interrupt latched as it began is  *)
(* served before it ends.                                                  *)
Transmitted ==
  /\ radio = "tx"
  /\ ss # "latched"
  /\ radio' = "standby"
  /\ done' = TRUE
  /\ UNCHANGED <<out, serial, loopVars, ss, lost, commands, sent>>

-----------------------------------------------------------------------------
(* loop(). *)

(* e32Listen, then a second of light. *)
e32Listen ==
  /\ pc = "listen"
  /\ serial # <<>>
  /\ data_len' = Len(serial)
  /\ pc' = "fetch"
  /\ UNCHANGED <<out, serial, from, reported, odd, lone, radioVars, commands, sent>>

(* Behind a single byte data[1] is whatever the stack holds. *)
Fetched == LET data == SubSeq(serial, 1, data_len)
           IN IF data_len > 1 THEN {data} ELSE {Append(data, b) : b \in Byte}

Remaining == SubSeq(serial, data_len + 1, Len(serial))

Flag1(data) == \A i \in 1 .. 2 : data[i] = address_uart_1[i]

(* The second address is only looked at where the first one matches. *)
Flag2(data) ==
  \A i \in 1 .. 2 : data[i] = address_uart_1[i] => data[i] = address_uart_2[i]

Sender(data) ==
  IF Flag1(data) /\ ~Flag2(data) THEN 1
  ELSE IF ~Flag1(data) /\ Flag2(data) THEN 2 ELSE 0

LengthAfter_Kept == data_len                  \* mutant: data_len is not local
LengthAfter == 0

e32Fetch ==
  /\ pc = "fetch"
  /\ \E data \in Fetched : from' = Sender(data)
  /\ pc' = IF from' = 0 THEN "listen" ELSE "idle"
  /\ serial' = Remaining
  /\ data_len' = LengthAfter
  /\ odd' = IF \E n \in Node : SubSeq(serial, 1, data_len) = Message(n) THEN odd ELSE odd + 1
  /\ lone' = IF data_len = 1 THEN lone + 1 ELSE lone
  /\ lost' = {}
  /\ UNCHANGED <<out, radio, done, ss, reported, commands, sent>>

(* A transfer of loop(): SS low, the bytes with interrupts masked, SS high. *)
(* The bytes go to no chip when the handler raised SS before them.         *)
Select ==
  /\ pc \in TransferPcs
  /\ ss = "high"
  /\ ss' = "low"
  /\ UNCHANGED <<out, serial, loopVars, radio, done, lost, commands, sent>>

Reached == ss = "low"

Transfer(p, next) ==
  /\ pc = p
  /\ ss \in {"low", "lost"}
  /\ ss' \in IF ~Reached THEN {"high"}
             ELSE {"tail"} \cup (IF radio = "rx" /\ commands < MaxCommands THEN {"latched"} ELSE {})
  /\ lost' = IF Reached THEN lost ELSE lost \cup {p}
  /\ pc' \in next
  /\ UNCHANGED <<out, serial, data_len, odd, lone, commands, sent>>

Deselect ==
  /\ ss = "tail"
  /\ ss' = "high"
  /\ UNCHANGED <<out, serial, loopVars, radio, done, lost, commands, sent>>

ModeWritten(m) == radio' = IF Reached THEN m ELSE radio

idle ==
  /\ Transfer("idle", {"begin"})
  /\ ModeWritten("standby")
  /\ UNCHANGED <<from, reported, done>>

(* isTransmitting: while the radio sends, beginPacket returns 0, which     *)
(* SPILoRaSendPackets does not look at; a lost transfer reads any mode.    *)
isTransmitting ==
  /\ Transfer("begin", IF Reached THEN {IF radio = "tx" THEN "txmode" ELSE "standby"}
                       ELSE {"standby", "txmode"})
  /\ done' \in IF Reached THEN {done /\ radio = "tx"} ELSE {done, FALSE}
  /\ UNCHANGED <<from, reported, radio>>

beginPacket_idle ==
  /\ Transfer("standby", {"txmode"})
  /\ ModeWritten("standby")
  /\ UNCHANGED <<from, reported, done>>

Copies_OneMore == 2                           \* mutant: n-- after the test
Copies == 1

(* What was written before is sent; the bytes of the report itself are     *)
(* left out.                                                               *)
SPILoRaSendPackets ==
  /\ Transfer("txmode", {"poll"})
  /\ ModeWritten("tx")
  /\ reported' = IF Reached THEN [reported EXCEPT ![from] = @ + Copies] ELSE reported
  /\ from' = 0
  /\ UNCHANGED done

(* One turn of the poll, and TxDone cleared when it was seen.              *)
endPacket_poll ==
  /\ Transfer("poll", IF Reached THEN {IF done THEN "receive" ELSE "poll"} ELSE {"poll", "receive"})
  /\ done' \in IF Reached THEN {FALSE} ELSE {done, FALSE}
  /\ UNCHANGED <<from, reported, radio>>

RadioAfter_Standby == "standby"               \* mutant: receive() is forgotten
RadioAfter == "rx"

receive ==
  /\ Transfer("receive", {"listen"})
  /\ ModeWritten(RadioAfter)
  /\ UNCHANGED <<from, reported, done>>

report == \/ Select \/ Deselect \/ idle \/ isTransmitting \/ beginPacket_idle
          \/ SPILoRaSendPackets \/ endPacket_poll \/ receive

loop == e32Listen \/ e32Fetch \/ report

Next ==
  \/ loop \/ ByteArrives \/ onReceive \/ Transmitted
  \/ \E n \in Node : timerIsr(n)

Spec == Init /\ [][Next]_vars

(* The relay runs, a latched interrupt is served, its E32 passes on what   *)
(* it has, and the SX1278 ends what it sends.                              *)
FairSpec ==
  /\ Spec
  /\ WF_vars(loop) /\ WF_vars(ss = "latched" /\ onReceive)
  /\ WF_vars(ByteArrives) /\ WF_vars(Transmitted)

-----------------------------------------------------------------------------
(* RelayNode.ino:369-382: the gateway is not told of a node that did not   *)
(* send.  Messages that arrive in pieces or run together, and bytes lost   *)
(* while a command is handled, are taken for node 2 (lines 364-368); each  *)
(* such fetch makes up one report at most, and one of node 1 only when a   *)
(* single byte was fetched.                                                *)
Due(n) == reported[n] + (IF from = n THEN 1 ELSE 0)

Attributed ==
  /\ \A n \in Node : Due(n) <= sent[n] + odd
  /\ Due(1) <= sent[1] + lone

(* Why it holds: a report is paid for by an address byte that the node     *)
(* sent and that is neither on its way nor in the buffer any more.         *)
Tag(n) == IF n = 1 THEN "1" ELSE "2"
Places(s, b) == {i \in DOMAIN s : s[i] = b}
Count(s, b) == Cardinality(Places(s, b))
Held(n) == Due(n) + Count(out, Tag(n)) + Count(serial, Tag(n))

Balance ==
  /\ \A n \in Node : Held(n) <= sent[n] + odd
  /\ Held(1) <= sent[1] + lone

PaidInv == TypeOK /\ Balance

(* The relay goes on: it reads its serial port and puts the SX1278 back    *)
(* into reception, for any interleaving of messages and commands, even     *)
(* when transfers of a report go to no chip.  (Whether a radio that        *)
(* receives is heard is SpiNode's NotDeaf.)  Its loop() only hangs, in     *)
(* the poll of endPacket (LoRa.cpp:182), when three packets of the gateway *)
(* fell into the SS windows of one report: that of idle(), that of         *)
(* beginPacket (either makes the radio leave reception), and that of the   *)
(* switch to transmission.                                                 *)
Hung ==
  /\ pc = "poll"
  /\ {"idle", "txmode"} \subseteq lost
  /\ lost \cap {"begin", "standby"} # {}

Serves == <>[](out = <<>> /\ serial = <<>> /\ radio = "rx") \/ <>[]Hung
=============================================================================
