--------------------------- MODULE GatewayThreads ---------------------------
(***************************************************************************)
(* The four threads of Gateway/main/src/main.c and the MQTT bridge         *)
(* Gateway_interface_server_python/Source/thread_mqtt.py, joined by one    *)
(* TCP stream.  "node" is the way to the nodes: cloud, bridge, stream,     *)
(* threadCheckPacketsFromServer, threadSendPacketsToNode; "server" the way *)
(* back.  A content is known by a number: for "node" how much of what the  *)
(* bridge wrote it ends with, for "server" how many packets the            *)
(* concentrator had delivered.                                             *)
(*                                                                         *)
(* The threads share the flags is_packets_from_server / _node and the      *)
(* buffers behind payload_to_node / _server, without a lock: a buffer is   *)
(* overwritten while it is measured (findPayloadSize) and copied (strcpy,  *)
(* send), and what leaves is then Torn.                                    *)
(*                                                                         *)
(* main.c is written for an earlier rak831_api, whose rak831_listen says   *)
(* EXIT_SUCCESS when a packet came and whose rak831_fetch_packets points   *)
(* to it (NULL if it is damaged); both are taken from how main.c uses them.*)
(***************************************************************************)
EXTENDS Integers

CONSTANTS
  MaxMsg,   \* messages of the cloud
  MaxPkt,   \* packets of the nodes
  Early,    \* the cloud may publish before the gateway is connected
  Ends      \* the bridge may end

ASSUME ThreadsAssumption ==
  MaxMsg \in Nat \ {0} /\ MaxPkt \in Nat \ {0} /\ Early \in BOOLEAN /\ Ends \in BOOLEAN

Dir == {"node", "server"}
Torn == -1   \* parts of several contents

VARIABLES
  bridge,     \* "starting", "listening", "accepted" (conn exists) or "ended"
  gateway,    \* "configuring", "started", "running" (connected) or "ended"
  published,  \* messages the bridge has written into the stream
  uplink,     \* newest content the bridge has published to the cloud
  newest,     \* content of the buffer payload_to_node / payload_to_server points to
  crc,        \* of the packet in payload_to_server's buffer: "ok" or "bad"
  pointer,    \* payload_to_server: "null", or "packet"
  flag,       \* is_packets_from_server / is_packets_from_node
  checker,    \* checking threads: "wait", "fill" while the buffer is written,
              \* "fetch" before rak831_fetch_packets, "raise" before the flag is set
  sender,     \* sending threads: "look", "clear", "measure", "copy" ("torn" when
              \* the buffer is or was written in the meantime) or "busy"
  sent        \* content rak831_send / send was last given

vars == <<bridge, gateway, published, uplink,
          newest, crc, pointer, flag, checker, sender, sent>>

SenderPcs == {"look", "clear", "measure", "copy", "torn", "busy"}

(* Types, and what is read, sent and published is never more than there is *)
(* to read, send and publish.                                              *)
TypeOK ==
  /\ bridge \in {"starting", "listening", "accepted", "ended"}
  /\ gateway \in {"configuring", "started", "running", "ended"}
  /\ published \in 0 .. MaxMsg
  /\ uplink \in Int
  /\ newest \in [Dir -> Nat]
  /\ crc \in {"ok", "bad"} /\ pointer \in {"null", "packet"}
  /\ flag \in [Dir -> BOOLEAN]
  /\ checker \in [Dir -> {"wait", "fill", "fetch", "raise"}]
  /\ sender \in [Dir -> SenderPcs]
  /\ sent \in [Dir -> Int]
  /\ newest["node"] <= published /\ newest["server"] <= MaxPkt
  /\ uplink \in Torn .. newest["server"]
  /\ \A d \in Dir : sent[d] \in Torn .. newest[d]

Init ==
  /\ bridge = "starting"
  /\ gateway = "configuring"
  /\ published = 0
  /\ uplink = 0
  /\ newest = [d \in Dir |-> 0]
  /\ crc = "ok" /\ pointer = "null"
  /\ flag = [d \in Dir |-> FALSE]
  /\ checker = [d \in Dir |-> "wait"]
  /\ sender = [d \in Dir |-> "look"]
  /\ sent = [d \in Dir |-> 0]

threads == <<newest, crc, pointer, flag, checker, sender, sent>>

-----------------------------------------------------------------------------
(* The bridge.                                                             *)

(* wait_and_publish_to_mqtt up to s.listen(1). *)
BridgeListens ==
  /\ bridge = "starting"
  /\ bridge' = "listening"
  /\ UNCHANGED <<gateway, published, uplink, threads>>

(* s.accept() returns once the kernel has completed a connection. *)
BridgeAccepts ==
  /\ bridge = "listening"
  /\ gateway = "running"
  /\ bridge' = "accepted"
  /\ UNCHANGED <<gateway, published, uplink, threads>>

(* on_message writes the payload to conn.  Before accept there is no conn: *)
(* the exception leaves loop_forever, and with the main thread the process *)
(* ends, even when the gateway has already been told it is connected.      *)
on_message ==
  /\ bridge # "ended"
  /\ published < MaxMsg
  /\ \/ bridge = "accepted" /\ published' = published + 1 /\ UNCHANGED bridge
     \/ Early /\ bridge # "accepted" /\ bridge' = "ended" /\ UNCHANGED published
  /\ UNCHANGED <<gateway, uplink, threads>>

(* conn.recv and client.publish("UPLINK"). *)
wait_and_publish ==
  /\ bridge = "accepted"
  /\ uplink # sent["server"]
  /\ uplink' = sent["server"]
  /\ UNCHANGED <<bridge, gateway, published, threads>>

BridgeEnds ==
  /\ Ends
  /\ bridge # "ended"
  /\ bridge' = "ended"
  /\ UNCHANGED <<gateway, published, uplink, threads>>

-----------------------------------------------------------------------------
(* The gateway's main thread.                                              *)

(* rak831_start is tried until it succeeds. *)
configAndStartConcentrator ==
  /\ gateway = "configuring"
  /\ gateway' = "started"
  /\ UNCHANGED <<bridge, published, uplink, threads>>

(* One attempt; without a listening bridge the program exits.  The threads *)
(* are created right after it.                                             *)
configSocketAndConnectServer ==
  /\ gateway = "started"
  /\ gateway' = IF bridge = "listening" THEN "running" ELSE "ended"
  /\ UNCHANGED <<bridge, published, uplink, threads>>

-----------------------------------------------------------------------------
(* The checking threads: fill the buffer, then raise the flag.             *)

(* The buffer gets a new content, beneath the copy of the sending thread.  *)
Fill(d, n) ==
  /\ checker[d] = "wait"
  /\ newest' = [newest EXCEPT ![d] = n]
  /\ checker' = [checker EXCEPT ![d] = "fill"]
  /\ sender' = [sender EXCEPT ![d] = IF @ = "copy" THEN "torn" ELSE @]

(* read() waits for data, returns any part of what there is, and returns   *)
(* nothing at once after the bridge has closed its end; its return value   *)
(* is not looked at.  The content is then what n bytes of the stream left. *)
Readable_Ahead(n) == n \in newest["node"] + 1 .. published + 1   \* mutant: nobody waits for data

Readable(n) == n \in newest["node"] + 1 .. published

ReadSocket ==
  /\ gateway = "running"
  /\ \E n \in 0 .. MaxMsg : Readable(n) /\ Fill("node", n)
  /\ UNCHANGED <<bridge, gateway, published, uplink, crc, pointer, flag, sent>>

EndOfStream ==
  /\ gateway = "running"
  /\ checker["node"] = "wait"
  /\ bridge = "ended" /\ newest["node"] = published
  /\ checker' = [checker EXCEPT !["node"] = "raise"]
  /\ UNCHANGED <<bridge, gateway, published, uplink, newest, crc, pointer, flag, sender, sent>>

(* rak831_listen refills the packets payload_to_server points into. *)
ListenToNodes(c) ==
  /\ gateway = "running"
  /\ newest["server"] < MaxPkt
  /\ Fill("server", newest["server"] + 1)
  /\ crc' = c
  /\ UNCHANGED <<bridge, gateway, published, uplink, pointer, flag, sent>>

Filled(d) ==
  /\ gateway = "running"
  /\ checker[d] = "fill"
  /\ checker' = [checker EXCEPT ![d] = IF d = "node" THEN "raise" ELSE "fetch"]
  /\ UNCHANGED <<bridge, gateway, published, uplink, newest, crc, pointer, flag, sender, sent>>

(* A damaged packet does not set the flag; nor does it take it back from   *)
(* the packet before, whose pointer is gone.                               *)
rak831_fetch_packets ==
  /\ gateway = "running"
  /\ checker["server"] = "fetch"
  /\ pointer' = IF crc = "ok" THEN "packet" ELSE "null"
  /\ checker' = [checker EXCEPT !["server"] = IF crc = "ok" THEN "raise" ELSE "wait"]
  /\ UNCHANGED <<bridge, gateway, published, uplink, newest, crc, flag, sender, sent>>

RaiseFlag(d) ==
  /\ gateway = "running"
  /\ checker[d] = "raise"
  /\ flag' = [flag EXCEPT ![d] = TRUE]
  /\ checker' = [checker EXCEPT ![d] = "wait"]
  /\ UNCHANGED <<bridge, gateway, published, uplink, newest, crc, pointer, sender, sent>>

-----------------------------------------------------------------------------
(* The sending threads: look at the flag, clear it, measure and copy the   *)
(* content, and stay in rak831_send / send until it has left.              *)

\* mutant: the flag is cleared once the packet has left, as in rak_multi_channel.c
Order_ClearLast == [look |-> "measure", measure |-> "copy", copy |-> "busy", torn |-> "busy",
                    busy |-> "clear", clear |-> "look"]

Order == [look |-> "clear", clear |-> "measure", measure |-> "copy", copy |-> "busy",
          torn |-> "busy", busy |-> "look"]

Advance(d) == sender' = [sender EXCEPT ![d] = Order[@]]

SeesFlag(d) ==
  /\ gateway = "running"
  /\ sender[d] = "look"
  /\ flag[d]
  /\ Advance(d)
  /\ UNCHANGED <<bridge, gateway, published, uplink, newest, crc, pointer, flag, checker, sent>>

ClearFlag(d) ==
  /\ gateway = "running"
  /\ sender[d] = "clear"
  /\ flag' = [flag EXCEPT ![d] = FALSE]
  /\ Advance(d)
  /\ UNCHANGED <<bridge, gateway, published, uplink, newest, crc, pointer, checker, sent>>

(* payload_to_node points to its buffer before its flag is first raised.   *)
Null(d) == d = "server" /\ pointer = "null"

(* The first pass over the buffer, for its size. *)
findPayloadSize(d) ==
  /\ gateway = "running"
  /\ sender[d] = "measure"
  /\ ~Null(d)
  /\ IF checker[d] = "fill" THEN sender' = [sender EXCEPT ![d] = "torn"] ELSE Advance(d)
  /\ UNCHANGED <<bridge, gateway, published, uplink, newest, crc, pointer, flag, checker, sent>>

(* It starts with the byte the pointer designates: SIGSEGV. *)
Segfault ==
  /\ gateway = "running"
  /\ sender["server"] = "measure"
  /\ Null("server")
  /\ gateway' = "ended"
  /\ UNCHANGED <<bridge, published, uplink, threads>>

(* What the two passes got: parts of two contents if the buffer was        *)
(* written meanwhile, unless they only began when that was over.           *)
Copied(d) ==
  IF sender[d] = "copy" THEN {newest[d]}
  ELSE {Torn} \cup (IF checker[d] = "fill" THEN {} ELSE {newest[d]})

(* The second pass, strcpy of rak831_send or send(): from here on a new    *)
(* content no longer reaches this packet.                                  *)
Copy(d) ==
  /\ gateway = "running"
  /\ sender[d] \in {"copy", "torn"}
  /\ \E c \in Copied(d) : sent' = [sent EXCEPT ![d] = c]
  /\ Advance(d)
  /\ UNCHANGED <<bridge, gateway, published, uplink, newest, crc, pointer, flag, checker>>

rak831_send == Copy("node")

sendPacketsToServer == Copy("server")

(* send() on a connection the bridge has closed raises SIGPIPE, which ends *)
(* the gateway, at the latest the second time.                             *)
BrokenPipe ==
  /\ gateway = "running"
  /\ sender["server"] \in {"copy", "torn"}
  /\ bridge = "ended"
  /\ gateway' = "ended"
  /\ UNCHANGED <<bridge, published, uplink, threads>>

(* The status is TX_FREE again (rak831_send), the data is in the socket.   *)
Sent(d) ==
  /\ gateway = "running"
  /\ sender[d] = "busy"
  /\ Advance(d)
  /\ UNCHANGED <<bridge, gateway, published, uplink, newest, crc, pointer, flag, checker, sent>>

-----------------------------------------------------------------------------
CheckingThread(d) ==
  \/ Filled(d)
  \/ d = "node" /\ (ReadSocket \/ EndOfStream)
  \/ d = "server" /\ rak831_fetch_packets
  \/ RaiseFlag(d)

SendingThread(d) ==
  \/ SeesFlag(d)
  \/ ClearFlag(d)
  \/ findPayloadSize(d)
  \/ d = "node" /\ rak831_send
  \/ d = "server" /\ (Segfault \/ sendPacketsToServer \/ BrokenPipe)
  \/ Sent(d)

Next ==
  \/ BridgeListens \/ BridgeAccepts \/ on_message \/ wait_and_publish \/ BridgeEnds
  \/ configAndStartConcentrator \/ configSocketAndConnectServer
  \/ \E c \in {"ok", "bad"} : ListenToNodes(c)
  \/ \E d \in Dir : CheckingThread(d) \/ SendingThread(d)

Spec == Init /\ [][Next]_vars

(* Threads are scheduled, bridge and gateway start up and read what the    *)
(* stream holds; nothing is assumed of the cloud, the nodes, or how long   *)
(* the bridge lives.                                                       *)
FairSpec ==
  /\ Spec
  /\ WF_vars(BridgeListens) /\ WF_vars(BridgeAccepts) /\ WF_vars(wait_and_publish)
  /\ WF_vars(configAndStartConcentrator) /\ WF_vars(configSocketAndConnectServer)
  /\ \A d \in Dir : WF_vars(CheckingThread(d)) /\ WF_vars(SendingThread(d))

-----------------------------------------------------------------------------
(* The newest content is one the sender must get: the buffer is not being  *)
(* written, and for a packet of a node it has been fetched and is good.    *)
Whole(d) == checker[d] \notin {"fill", "fetch"} /\ (d = "server" => crc = "ok")

(* main.c:66-70 and 79-86: the flag is looked at and cleared without a     *)
(* lock while the checking thread raises it.  No wakeup is lost all the    *)
(* same: a whole content that was not sent, or that was sent torn, still   *)
(* has its flag up, is about to raise it, or the sender is on its way to   *)
(* an undisturbed copy of it.  (A damaged packet does undo what was        *)
(* announced: main.c:54 overwrites pointer and buffer.)                    *)
NoLostWakeup ==
  \A d \in Dir : Whole(d) /\ newest[d] # sent[d] =>
    \/ flag[d]
    \/ checker[d] = "raise"
    \/ sender[d] \in {"clear", "measure", "copy"}

(* Each of the two hand-overs is a Mailbox: what leaves is the newest      *)
(* content or torn, never an older one than before, and while the gateway  *)
(* runs a whole content that is not replaced, not even by a damaged one,   *)
(* does leave whole, also after a torn copy of it.                         *)
ToNode == INSTANCE Mailbox WITH
  posted <- newest["node"], whole <- Whole("node"),
  taken <- sent["node"], open <- gateway # "ended"

ToServer == INSTANCE Mailbox WITH
  posted <- newest["server"], whole <- Whole("server"),
  taken <- sent["server"], open <- gateway # "ended"

Newest == ToNode!FairSpec /\ ToServer!FairSpec

(* A message the bridge took from the cloud is sent to the nodes whole, or *)
(* a newer one is; a node's good packet is published whole unless another  *)
(* packet, which may be damaged, has come since; whatever the order in     *)
(* which bridge, gateway and cloud start, unless the gateway has ended, or *)
(* for the way back the bridge.                                            *)
EndToEnd ==
  /\ \A m \in 1 .. MaxMsg :
       (published = m) ~> (sent["node"] >= m \/ gateway = "ended")
  /\ \A m \in 1 .. MaxPkt :
       (newest["server"] = m /\ crc = "ok")
         ~> (uplink = m \/ newest["server"] > m \/ gateway = "ended" \/ bridge = "ended")
=============================================================================
