--------------------------- MODULE GatewayProofs ---------------------------
(* The two gateway programs.  The hand-overs of the gateway's threads lose *)
(* no wakeup and are mailboxes, for any number of messages and however     *)
(* bridge and gateway start and end.  The batch loop of the multi-channel  *)
(* gateway's test program reports every good packet once, for batches of   *)
(* any length and packets of any size.                                     *)
EXTENDS GatewayThreads, GatewayLoop, TLAPS

-----------------------------------------------------------------------------
LEMMA InitType == Init => TypeOK
  BY ThreadsAssumption DEF Init, TypeOK, Dir, SenderPcs, Torn

LEMMA BridgeType ==
  TypeOK /\ (BridgeListens \/ BridgeAccepts \/ on_message \/ wait_and_publish \/ BridgeEnds)
    => TypeOK'
  BY ThreadsAssumption
  DEF TypeOK, BridgeListens, BridgeAccepts, on_message, wait_and_publish, BridgeEnds,
      threads, Dir, Torn

LEMMA MainType ==
  TypeOK /\ (configAndStartConcentrator \/ configSocketAndConnectServer) => TypeOK'
  BY DEF TypeOK, configAndStartConcentrator, configSocketAndConnectServer, threads

(* What a checking thread that writes its buffer leaves. *)
LEMMA Fills ==
  ASSUME TypeOK, NEW d \in Dir, NEW n \in Nat, n >= newest[d], Fill(d, n)
  PROVE  /\ newest' \in [Dir -> Nat] /\ newest'[d] = n
         /\ \A e \in Dir \ {d} : newest'[e] = newest[e]
         /\ checker' \in [Dir -> {"wait", "fill", "fetch", "raise"}]
         /\ sender' \in [Dir -> SenderPcs]
         /\ \A e \in Dir : newest'[e] >= newest[e]
<1>1. newest' \in [Dir -> Nat] /\ newest'[d] = n
      /\ \A e \in Dir \ {d} : newest'[e] = newest[e]
  BY DEF Fill, TypeOK
<1>2. checker' \in [Dir -> {"wait", "fill", "fetch", "raise"}]
  BY DEF Fill, TypeOK
<1>3. sender' \in [Dir -> SenderPcs]
  BY DEF Fill, TypeOK, SenderPcs
<1>4. \A e \in Dir : newest'[e] >= newest[e]
  BY <1>1 DEF TypeOK
<1> QED BY <1>1, <1>2, <1>3, <1>4

LEMMA FillType ==
  ASSUME TypeOK, NEW d \in Dir, NEW n \in Nat, n >= newest[d], Fill(d, n),
         UNCHANGED <<bridge, gateway, published, uplink, pointer, flag, sent>>,
         crc' \in {"ok", "bad"},
         newest'["node"] <= published, newest'["server"] <= MaxPkt
  PROVE  TypeOK'
<1>1. uplink \in Torn .. newest'["server"]
  BY Fills, ThreadsAssumption DEF TypeOK, Dir, Torn
<1>2. \A e \in Dir : sent[e] \in Torn .. newest'[e]
  BY Fills DEF TypeOK, Torn
<1> QED BY <1>1, <1>2, Fills DEF TypeOK

LEMMA ListenType == ASSUME TypeOK, NEW c \in {"ok", "bad"}, ListenToNodes(c) PROVE TypeOK'
<1>1. "server" \in Dir /\ newest["server"] + 1 \in Nat /\ newest["server"] \in Nat
      /\ newest["server"] < MaxPkt /\ newest["node"] <= published
  BY DEF TypeOK, Dir, ListenToNodes
<1>2. Fill("server", newest["server"] + 1)
      /\ UNCHANGED <<bridge, gateway, published, uplink, pointer, flag, sent>>
      /\ crc' \in {"ok", "bad"}
  BY DEF ListenToNodes
<1>3. newest'["node"] = newest["node"] /\ newest'["server"] = newest["server"] + 1
  BY <1>1, <1>2, Fills DEF Dir
<1>4. newest'["server"] <= MaxPkt
  BY <1>1, <1>3, ThreadsAssumption
<1> QED BY <1>1, <1>2, <1>3, <1>4, FillType

LEMMA ReadType == ASSUME TypeOK, ReadSocket PROVE TypeOK'
<1>1. PICK n \in 0 .. MaxMsg : Readable(n) /\ Fill("node", n)
  BY DEF ReadSocket
<1>2. "node" \in Dir /\ n \in Nat /\ n >= newest["node"] /\ n <= published
  BY <1>1, ThreadsAssumption DEF TypeOK, Dir, Readable
<1>3. UNCHANGED <<bridge, gateway, published, uplink, pointer, flag, sent>>
      /\ crc' \in {"ok", "bad"} /\ newest["server"] <= MaxPkt
  BY DEF ReadSocket, TypeOK
<1>4. newest'["node"] = n /\ newest'["server"] = newest["server"]
  BY <1>1, <1>2, Fills DEF Dir
<1>5. newest'["node"] <= published /\ newest'["server"] <= MaxPkt
  BY <1>2, <1>3, <1>4
<1> QED BY <1>1, <1>2, <1>3, <1>5, FillType

LEMMA CheckType ==
  ASSUME TypeOK, NEW d \in Dir, CheckingThread(d)
  PROVE  TypeOK'
<1>1. CASE d = "node" /\ EndOfStream
  BY <1>1 DEF EndOfStream, TypeOK
<1>2. CASE Filled(d)
  BY <1>2 DEF Filled, TypeOK
<1>3. CASE rak831_fetch_packets
  BY <1>3 DEF rak831_fetch_packets, TypeOK
<1>4. CASE RaiseFlag(d)
  BY <1>4 DEF RaiseFlag, TypeOK
<1> QED BY <1>1, <1>2, <1>3, <1>4, ReadType DEF CheckingThread

(* What one step of a sending thread does to its position. *)
LEMMA Advances ==
  ASSUME TypeOK, NEW d \in Dir, Advance(d)
  PROVE  sender' \in [Dir -> SenderPcs]
  BY DEF Advance, Order, TypeOK, SenderPcs

LEMMA Copies ==
  ASSUME TypeOK, NEW d \in Dir, Copy(d)
  PROVE  sent' \in [Dir -> Int] /\ \A e \in Dir : sent'[e] \in Torn .. newest[e]
<1>1. PICK c \in Copied(d) : sent' = [sent EXCEPT ![d] = c]
  BY DEF Copy
<1>2. c \in Torn .. newest[d]
  BY <1>1 DEF Copied, TypeOK, Torn
<1>3. c \in Int
  BY <1>2 DEF Torn
<1> QED BY <1>1, <1>2, <1>3 DEF TypeOK

LEMMA SendType ==
  ASSUME TypeOK, NEW d \in Dir, SendingThread(d)
  PROVE  TypeOK'
<1>1. CASE SeesFlag(d) \/ Sent(d)
  BY <1>1, Advances DEF SeesFlag, Sent, TypeOK
<1>2. CASE ClearFlag(d)
  BY <1>2, Advances DEF ClearFlag, TypeOK
<1>3. CASE findPayloadSize(d)
  <2>1. sender' \in [Dir -> SenderPcs]
    BY <1>3, Advances DEF findPayloadSize, TypeOK, SenderPcs
  <2> QED BY <1>3, <2>1 DEF findPayloadSize, TypeOK
<1>4. CASE Copy(d)
  BY <1>4, Advances, Copies DEF Copy, TypeOK
<1>5. CASE Segfault \/ BrokenPipe
  BY <1>5 DEF Segfault, BrokenPipe, TypeOK, threads
<1> QED
  BY <1>1, <1>2, <1>3, <1>4, <1>5 DEF SendingThread, rak831_send, sendPacketsToServer

LEMMA TypeStep == TypeOK /\ [Next]_vars => TypeOK'
<1>1. TypeOK /\ UNCHANGED vars => TypeOK'
  BY DEF vars, TypeOK
<1> QED BY <1>1, BridgeType, MainType, ListenType, CheckType, SendType DEF Next

(* Every variable keeps its type and nothing is read, sent or published    *)
(* that was not written before.                                            *)
THEOREM TypeCorrect == Spec => []TypeOK
  BY InitType, TypeStep, PTL DEF Spec

-----------------------------------------------------------------------------
(* A copy is only disturbed by a content that was not sent before. *)
Disturbed ==
  \A d \in Dir :
    /\ checker[d] = "fill" => sender[d] # "copy" /\ sent[d] < newest[d]
    /\ sender[d] = "torn" => sent[d] < newest[d]

LEMMA DisturbedFill ==
  ASSUME TypeOK, Disturbed, NEW d \in Dir, NEW n \in Nat, n > newest[d], Fill(d, n), UNCHANGED sent
  PROVE  Disturbed'
<1> SUFFICES ASSUME NEW e \in Dir
             PROVE  /\ checker'[e] = "fill" => sender'[e] # "copy" /\ sent'[e] < newest'[e]
                    /\ sender'[e] = "torn" => sent'[e] < newest'[e]
  BY DEF Disturbed
<1>1. CASE e = d
  <2>1. newest'[e] = n /\ sender'[e] # "copy"
    BY <1>1 DEF Fill, TypeOK
  <2>2. sent'[e] \in Int /\ sent[e] <= newest[e] /\ newest[e] \in Nat /\ sent'[e] = sent[e]
    BY DEF TypeOK, Torn
  <2> QED BY <1>1, <2>1, <2>2
<1>2. CASE e # d
  BY <1>2 DEF Fill, TypeOK, Disturbed
<1> QED BY <1>1, <1>2

LEMMA DisturbedStep == TypeOK /\ Disturbed /\ [Next]_vars => Disturbed'
<1> SUFFICES ASSUME TypeOK, Disturbed, [Next]_vars PROVE Disturbed'
  OBVIOUS
<1>1. CASE UNCHANGED vars \/ UNCHANGED threads
  BY <1>1 DEF vars, threads, Disturbed
<1>2. ASSUME NEW c \in {"ok", "bad"}, ListenToNodes(c) PROVE Disturbed'
  <2>1. "server" \in Dir /\ newest["server"] + 1 \in Nat /\ newest["server"] + 1 > newest["server"]
    BY DEF TypeOK, Dir
  <2> QED BY <1>2, <2>1, DisturbedFill DEF ListenToNodes
<1>3. CASE ReadSocket
  <2>1. PICK n \in 0 .. MaxMsg : Readable(n) /\ Fill("node", n)
    BY <1>3 DEF ReadSocket
  <2>2. n \in Nat /\ n > newest["node"] /\ "node" \in Dir
    BY <2>1, ThreadsAssumption DEF Dir, Readable, TypeOK
  <2> QED BY <1>3, <2>1, <2>2, DisturbedFill DEF ReadSocket
<1>4. ASSUME NEW d \in Dir, CheckingThread(d), ~ReadSocket PROVE Disturbed'
  BY <1>4
  DEF CheckingThread, EndOfStream, Filled, rak831_fetch_packets, RaiseFlag, Disturbed, TypeOK, Dir
<1>5. ASSUME NEW d \in Dir, SeesFlag(d) \/ ClearFlag(d) \/ findPayloadSize(d) \/ Sent(d)
      PROVE  Disturbed'
  BY <1>5
  DEF SeesFlag, ClearFlag, findPayloadSize, Sent, Advance, Order, Disturbed, TypeOK, SenderPcs
<1>6. ASSUME NEW d \in Dir, Copy(d) PROVE Disturbed'
  <2>1. sender'[d] = "busy" /\ \A e \in Dir \ {d} : sender'[e] = sender[e] /\ sent'[e] = sent[e]
    BY <1>6 DEF Copy, Advance, Order, TypeOK, SenderPcs
  <2>2. UNCHANGED <<newest, checker>>
    BY <1>6 DEF Copy
  <2>3. checker[d] = "fill" => sent'[d] < newest[d]
    BY <1>6 DEF Copy, Copied, Torn, Disturbed, TypeOK
  <2> QED BY <2>1, <2>2, <2>3 DEF Disturbed
<1>7. ASSUME NEW d \in Dir, Segfault \/ BrokenPipe PROVE Disturbed'
  BY <1>1, <1>7 DEF Segfault, BrokenPipe
<1>8. CASE BridgeListens \/ BridgeAccepts \/ on_message \/ wait_and_publish \/ BridgeEnds
           \/ configAndStartConcentrator \/ configSocketAndConnectServer
  BY <1>1, <1>8
  DEF BridgeListens, BridgeAccepts, on_message, wait_and_publish, BridgeEnds,
      configAndStartConcentrator, configSocketAndConnectServer
<1> QED
  BY <1>1, <1>2, <1>3, <1>4, <1>5, <1>6, <1>7, <1>8
  DEF Next, SendingThread, rak831_send, sendPacketsToServer

(* A buffer that is being written is not a whole content. *)
LEMMA WakeupFill ==
  ASSUME TypeOK, NoLostWakeup, NEW d \in Dir, NEW n \in Nat, Fill(d, n), UNCHANGED <<flag, sent>>,
         d = "node" => UNCHANGED crc
  PROVE  NoLostWakeup'
<1> SUFFICES ASSUME NEW e \in Dir, Whole(e)', newest'[e] # sent'[e]
             PROVE  flag'[e] \/ checker'[e] = "raise" \/ sender'[e] \in {"clear", "measure", "copy"}
  BY DEF NoLostWakeup
<1>1. e # d
  BY DEF Fill, Whole, TypeOK
<1>2. newest'[e] = newest[e] /\ checker'[e] = checker[e] /\ sender'[e] = sender[e]
      /\ flag' = flag /\ sent' = sent
  BY <1>1 DEF Fill, TypeOK
<1>3. e = "server" => crc' = crc
  BY <1>1 DEF Dir
<1> QED BY <1>2, <1>3 DEF NoLostWakeup, Whole

LEMMA WakeupChecking ==
  ASSUME TypeOK, NoLostWakeup, NEW d \in Dir, CheckingThread(d)
  PROVE  NoLostWakeup'
<1>1. CASE ReadSocket
  <2>1. PICK n \in 0 .. MaxMsg : Fill("node", n)
    BY <1>1 DEF ReadSocket
  <2>2. n \in Nat /\ "node" \in Dir
    BY <2>1, ThreadsAssumption DEF Dir
  <2> QED BY <1>1, <2>1, <2>2, WakeupFill DEF ReadSocket
<1>2. CASE EndOfStream
  BY <1>2 DEF EndOfStream, NoLostWakeup, Whole, TypeOK, Dir
<1>3. CASE Filled(d)
  BY <1>3 DEF Filled, NoLostWakeup, Whole, TypeOK, Dir
<1>4. CASE rak831_fetch_packets
  BY <1>4 DEF rak831_fetch_packets, NoLostWakeup, Whole, TypeOK, Dir
<1>5. CASE RaiseFlag(d)
  BY <1>5 DEF RaiseFlag, NoLostWakeup, Whole, TypeOK
<1> QED BY <1>1, <1>2, <1>3, <1>4, <1>5 DEF CheckingThread

LEMMA WakeupListen ==
  ASSUME TypeOK, NoLostWakeup, NEW c \in {"ok", "bad"}, ListenToNodes(c)
  PROVE  NoLostWakeup'
<1>1. "server" \in Dir /\ newest["server"] + 1 \in Nat
  BY DEF TypeOK, Dir
<1> QED BY <1>1, WakeupFill DEF ListenToNodes

LEMMA WakeupSending ==
  ASSUME TypeOK, Disturbed, NoLostWakeup, NEW d \in Dir, SendingThread(d)
  PROVE  NoLostWakeup'
<1> USE DEF Advance, Order, NoLostWakeup, Whole, TypeOK, SenderPcs
<1>1. CASE SeesFlag(d)
  BY <1>1 DEF SeesFlag
<1>2. CASE ClearFlag(d)
  BY <1>2 DEF ClearFlag
<1>3. CASE findPayloadSize(d)
  BY <1>3 DEF findPayloadSize
<1>4. CASE Copy(d)
  <2>1. CASE sender[d] = "copy"
    BY <1>4, <2>1 DEF Copy, Copied
  <2>2. CASE sender[d] = "torn"
    <3>1. sent[d] # newest[d]
      BY <2>2 DEF Disturbed
    <3> QED BY <1>4, <2>2, <3>1 DEF Copy
  <2> QED BY <1>4, <2>1, <2>2 DEF Copy
<1>5. CASE Segfault \/ BrokenPipe
  BY <1>5 DEF Segfault, BrokenPipe, threads
<1>6. CASE Sent(d)
  BY <1>6 DEF Sent
<1> QED
  BY <1>1, <1>2, <1>3, <1>4, <1>5, <1>6 DEF SendingThread, rak831_send, sendPacketsToServer

LEMMA WakeupStep == TypeOK /\ Disturbed /\ NoLostWakeup /\ [Next]_vars => NoLostWakeup'
<1>1. NoLostWakeup /\ UNCHANGED vars => NoLostWakeup'
  BY DEF vars, NoLostWakeup, Whole
<1>2. NoLostWakeup /\ UNCHANGED threads => NoLostWakeup'
  BY DEF threads, NoLostWakeup, Whole
<1> QED
  BY <1>1, <1>2, WakeupListen, WakeupChecking, WakeupSending
  DEF Next, BridgeListens, BridgeAccepts, on_message, wait_and_publish, BridgeEnds,
      configAndStartConcentrator, configSocketAndConnectServer

(* A whole content that was not sent, or only torn, has its flag up, is    *)
(* about to raise it, or is about to be copied: clearing the flag before   *)
(* the buffer is read is what keeps the hand-over without a lock from      *)
(* losing the newest one, even when its copy was disturbed.                *)
THEOREM WakeupCorrect == Spec => []NoLostWakeup
<1>1. Init => NoLostWakeup /\ Disturbed
  BY DEF Init, NoLostWakeup, Disturbed
<1> QED BY <1>1, InitType, TypeStep, DisturbedStep, WakeupStep, PTL DEF Spec

-----------------------------------------------------------------------------
NodeStep   == [ToNode!Next]_ToNode!vars
ServerStep == [ToServer!Next]_ToServer!vars

LEMMA ReadPosts == ASSUME TypeOK, ReadSocket PROVE NodeStep /\ ServerStep
<1>1. PICK n \in 0 .. MaxMsg : Readable(n) /\ Fill("node", n)
  BY DEF ReadSocket
<1>2. newest'["node"] > newest["node"] /\ newest'["server"] = newest["server"]
      /\ checker'["node"] = "fill" /\ checker'["server"] = checker["server"]
  BY <1>1 DEF Readable, Fill, TypeOK, Dir
<1>3. UNCHANGED <<crc, sent>> /\ gateway = "running" /\ gateway' = "running"
  BY DEF ReadSocket
<1>4. ToNode!Post
  BY <1>2, <1>3 DEF ToNode!Post, Whole
<1>5. UNCHANGED ToServer!vars
  BY <1>2, <1>3 DEF ToServer!vars, Whole
<1> QED BY <1>4, <1>5 DEF NodeStep, ServerStep, ToNode!Next

LEMMA ListenPosts ==
  ASSUME TypeOK, NEW c \in {"ok", "bad"}, ListenToNodes(c)
  PROVE  NodeStep /\ ServerStep
<1>1. newest'["server"] > newest["server"] /\ newest'["node"] = newest["node"]
      /\ checker'["server"] = "fill" /\ checker'["node"] = checker["node"]
  BY DEF ListenToNodes, Fill, TypeOK, Dir
<1>2. UNCHANGED sent /\ gateway = "running" /\ gateway' = "running"
  BY DEF ListenToNodes
<1>3. ToServer!Post
  BY <1>1, <1>2 DEF ToServer!Post, Whole
<1>4. UNCHANGED ToNode!vars
  BY <1>1, <1>2 DEF ToNode!vars, Whole
<1> QED BY <1>3, <1>4 DEF NodeStep, ServerStep, ToServer!Next

(* The end of a write, and the fetch of a good packet, complete a content. *)
LEMMA CheckCompletes ==
  ASSUME TypeOK, NEW d \in Dir, CheckingThread(d)
  PROVE  NodeStep /\ ServerStep
<1>1. CASE ~ReadSocket
  <2>1. UNCHANGED <<newest, sent, crc>> /\ gateway = "running" /\ gateway' = "running"
    BY <1>1
    DEF CheckingThread, Filled, EndOfStream, rak831_fetch_packets, RaiseFlag
  <2>2. \A e \in Dir : Whole(e)' = Whole(e) \/ Whole(e)' = TRUE
    BY <1>1
    DEF CheckingThread, Filled, EndOfStream, rak831_fetch_packets, RaiseFlag, Whole, TypeOK, Dir
  <2>3. "node" \in Dir /\ "server" \in Dir
    BY DEF Dir
  <2>4. NodeStep
    BY <2>1, <2>2, <2>3 DEF NodeStep, ToNode!Next, ToNode!Complete, ToNode!vars
  <2>5. ServerStep
    BY <2>1, <2>2, <2>3 DEF ServerStep, ToServer!Next, ToServer!Complete, ToServer!vars
  <2> QED BY <2>4, <2>5
<1> QED BY <1>1, ReadPosts

LEMMA SendTakes ==
  ASSUME TypeOK, NEW d \in Dir, SendingThread(d)
  PROVE  NodeStep /\ ServerStep
<1> USE DEF NodeStep, ServerStep
<1>1. CASE SeesFlag(d) \/ ClearFlag(d) \/ findPayloadSize(d) \/ Sent(d)
  BY <1>1
  DEF SeesFlag, ClearFlag, findPayloadSize, Sent, ToNode!vars, ToServer!vars, Whole
<1>2. CASE Copy(d)
  <2>1. PICK c \in Copied(d) : sent' = [sent EXCEPT ![d] = c]
    BY <1>2 DEF Copy
  <2>2. c = newest[d] \/ c = -1
    BY <2>1 DEF Copied, Torn
  <2>3. /\ UNCHANGED <<newest, crc, checker>> /\ gateway = "running" /\ gateway' = "running"
        /\ sent'[d] = c /\ \A e \in Dir \ {d} : sent'[e] = sent[e]
    BY <1>2, <2>1 DEF Copy, TypeOK
  <2>4. \A e \in Dir : Whole(e)' = Whole(e)
    BY <2>3 DEF Whole
  <2>5. CASE d = "node"
    <3>1. UNCHANGED ToServer!vars
      BY <2>3, <2>4, <2>5 DEF ToServer!vars, Dir
    <3>2. ToNode!Take \/ ToNode!Tear
      BY <2>2, <2>3, <2>4, <2>5 DEF ToNode!Take, ToNode!Tear, Dir
    <3> QED BY <3>1, <3>2 DEF ToNode!Next
  <2>6. CASE d = "server"
    <3>1. UNCHANGED ToNode!vars
      BY <2>3, <2>4, <2>6 DEF ToNode!vars, Dir
    <3>2. ToServer!Take \/ ToServer!Tear
      BY <2>2, <2>3, <2>4, <2>6 DEF ToServer!Take, ToServer!Tear, Dir
    <3> QED BY <3>1, <3>2 DEF ToServer!Next
  <2> QED BY <2>5, <2>6 DEF Dir
<1>3. CASE Segfault \/ BrokenPipe
  BY <1>3
  DEF Segfault, BrokenPipe, threads, Whole, ToNode!Next, ToNode!Close, ToServer!Next,
      ToServer!Close
<1> QED BY <1>1, <1>2, <1>3 DEF SendingThread, rak831_send, sendPacketsToServer

LEMMA OthersStutter ==
  ASSUME UNCHANGED threads, gateway' = gateway \/ configAndStartConcentrator
                                              \/ configSocketAndConnectServer
  PROVE  NodeStep /\ ServerStep
  BY DEF NodeStep, ServerStep, threads, Whole, configAndStartConcentrator,
         configSocketAndConnectServer, ToNode!Next, ToNode!Close, ToNode!vars,
         ToServer!Next, ToServer!Close, ToServer!vars

LEMMA BoxStep == TypeOK /\ [Next]_vars => NodeStep /\ ServerStep
<1> SUFFICES ASSUME TypeOK, [Next]_vars PROVE NodeStep /\ ServerStep
  OBVIOUS
<1>1. CASE UNCHANGED vars
  BY <1>1 DEF vars, NodeStep, ServerStep, ToNode!vars, ToServer!vars, Whole
<1>2. CASE BridgeListens \/ BridgeAccepts \/ on_message \/ wait_and_publish \/ BridgeEnds
           \/ configAndStartConcentrator \/ configSocketAndConnectServer
  BY <1>2, OthersStutter
  DEF BridgeListens, BridgeAccepts, on_message, wait_and_publish, BridgeEnds,
      configAndStartConcentrator, configSocketAndConnectServer
<1> QED BY <1>1, <1>2, ListenPosts, CheckCompletes, SendTakes DEF Next

(* Both hand-overs implement the Mailbox: what is sent is the newest       *)
(* content or torn, never an older one than before, in either direction.   *)
(* (That what is posted is taken is a question of fairness and is          *)
(* model-checked.)                                                         *)
THEOREM HandOverCorrect == Spec => ToNode!Spec /\ ToServer!Spec
<1>1. Init => ToNode!Init /\ ToServer!Init
  BY DEF Init, Dir, Whole, ToNode!Init, ToServer!Init
<1> QED
  BY <1>1, InitType, TypeStep, BoxStep, PTL
  DEF Spec, NodeStep, ServerStep, ToNode!Spec, ToServer!Spec

-----------------------------------------------------------------------------
(* The multi-channel gateway's loop over a batch.                          *)

LEMMA InitBatch == LoopInit => BatchInv
  BY LoopAssumption DEF LoopInit, BatchInv, LoopTypeOK, Slots

LEMMA SlotBelow ==
  \A n \in 1 .. MaxBatch, s \in Slots : s < n => s \in 0 .. n - 1
  BY LoopAssumption DEF Slots

LEMMA HeardBatch ==
  ASSUME BatchInv, Heard
  PROVE  BatchInv'
<1>1. nb_pkt' \in 1 .. MaxBatch /\ nb_pkt' \in 0 .. MaxBatch
  BY LoopAssumption DEF Heard
<1>2. PICK batch \in [0 .. nb_pkt' - 1 -> Packets] :
        rxpkt' = [s \in Slots |-> IF s < nb_pkt' THEN batch[s] ELSE rxpkt[s]]
  BY DEF Heard
<1>3. rxpkt' \in [Slots -> Packets \cup {Empty}]
  <2>1. ASSUME NEW s \in Slots PROVE rxpkt'[s] \in Packets \cup {Empty}
    <3>1. CASE s < nb_pkt'
      <4>1. s \in 0 .. nb_pkt' - 1
        BY <1>1, <3>1, SlotBelow
      <4> QED BY <1>2, <3>1, <4>1
    <3>2. CASE ~(s < nb_pkt')
      BY <1>2, <3>2 DEF BatchInv, LoopTypeOK
    <3> QED BY <3>1, <3>2
  <2> QED BY <1>2, <2>1
<1> QED BY <1>1, <1>3, LoopAssumption DEF Heard, BatchInv, LoopTypeOK, Slots

LEMMA ReportBatch ==
  ASSUME ~Reuse, BatchInv, Report
  PROVE  BatchInv'
<1> USE LoopAssumption DEF Report, BatchInv, LoopTypeOK, Slots
<1>1. i' = i + 1 /\ i \in Slots /\ reported[i] = 0 /\ rxpkt[i].status = "CRC_OK"
  BY DEF NextPacket, AfterPrinting, Good
<1>2. reported' = [reported EXCEPT ![i] = 1]
  BY <1>1 DEF Once
<1> QED BY <1>1, <1>2

LEMMA SkipBatch ==
  ASSUME BatchInv, Skip
  PROVE  BatchInv'
<1>1. i' = i + 1 /\ rxpkt[i].status # "CRC_OK"
  BY DEF Skip, NextPacket, Good
<1> QED
  BY <1>1, LoopAssumption DEF Skip, BatchInv, LoopTypeOK, Slots

LEMMA BatchStep ==
  ASSUME ~Reuse
  PROVE  BatchInv /\ [LoopNext]_loop_vars => BatchInv'
<1>1. BatchInv /\ EndOfBatch => BatchInv'
  BY LoopAssumption DEF EndOfBatch, BatchInv, LoopTypeOK
<1>2. BatchInv /\ UNCHANGED loop_vars => BatchInv'
  BY DEF loop_vars, BatchInv, LoopTypeOK
<1> QED
  BY <1>1, <1>2, HeardBatch, ReportBatch, SkipBatch DEF LoopNext, NothingHeard

LEMMA BatchHolds ==
  ASSUME ~Reuse
  PROVE  LoopSpec => []BatchInv
<1>1. BatchInv /\ [LoopNext]_loop_vars => BatchInv'
  BY BatchStep
<1>2. LoopInit => BatchInv
  BY InitBatch
<1> QED BY <1>1, <1>2, PTL DEF LoopSpec

(* The loop's variable never passes the batch.                             *)
THEOREM LoopTypeCorrect ==
  ASSUME ~Reuse
  PROVE  LoopSpec => []LoopTypeOK
<1>1. BatchInv => LoopTypeOK
  BY DEF BatchInv
<1> QED BY <1>1, BatchHolds, PTL

(* Each good packet is reported once, the others never.                    *)
THEOREM OnceCorrect ==
  ASSUME ~Reuse
  PROVE  LoopSpec => []EachOnce
<1>1. BatchInv => EachOnce
  BY LoopAssumption DEF BatchInv, EachOnce, LoopTypeOK, Slots
<1> QED BY <1>1, BatchHolds, PTL
=============================================================================
