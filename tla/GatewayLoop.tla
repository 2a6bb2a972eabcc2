---------------------------- MODULE GatewayLoop ----------------------------
(***************************************************************************)
(* The main loop of the multi-channel gateway: listen until the            *)
(* concentrator has packets, then fetch and report them one by one. The    *)
(* released program (Gateway/main/src/rak_multi_channel.c) prints the      *)
(* payload with a loop that uses the variable of the loop around it; the   *)
(* test program (rak831_test_multi_channel.c) prints it in one call.       *)
(***************************************************************************)
EXTENDS Integers

CONSTANTS
  MaxBatch,   \* packets of one lgw_receive, ARRAY_SIZE(rxpkt) in the code
  Sizes,      \* payload sizes
  Reuse       \* the released program

ASSUME LoopAssumption ==
  /\ MaxBatch \in Nat \ {0}
  /\ Sizes \subseteq Nat
  /\ Reuse \in BOOLEAN

Statuses == {"CRC_OK", "CRC_BAD", "NO_CRC"}
Packets  == [status : Statuses, size : Sizes]
Empty    == [status |-> "UNDEFINED", size |-> 0]
Slots    == 0 .. MaxBatch - 1

VARIABLES
  pc,       \* "listen", or "for" in the loop over the batch
  nb_pkt,   \* packets of the batch
  rxpkt,    \* the array lgw_receive fills
  i,        \* the loop's variable
  reported  \* how often each packet of the batch was reported, up to 2

loop_vars == <<pc, nb_pkt, rxpkt, i, reported>>

LoopInit ==
  /\ pc = "listen"
  /\ nb_pkt = 0
  /\ rxpkt = [s \in Slots |-> Empty]
  /\ i = 0
  /\ reported = [s \in Slots |-> 0]

(* rak831_listen: nothing, an error, or a batch; what an earlier batch     *)
(* left in the rest of the array stays there.                              *)
NothingHeard ==
  /\ pc = "listen"
  /\ UNCHANGED loop_vars

Heard ==
  /\ pc = "listen"
  /\ nb_pkt' \in 1 .. MaxBatch
  /\ \E batch \in [0 .. nb_pkt' - 1 -> Packets] :
       rxpkt' = [s \in Slots |-> IF s < nb_pkt' THEN batch[s] ELSE rxpkt[s]]
  /\ pc' = "for"
  /\ i' = 0
  /\ reported' = [s \in Slots |-> 0]

(* Where the printing of packet p leaves the loop's variable. *)
AfterPrinting(p) == IF Reuse THEN p.size ELSE i

Good_All(p) == TRUE                  \* mutant: the status is not looked at
Good(p) == p.status = "CRC_OK"

Once(n) == IF n < 2 THEN n + 1 ELSE n

NextPacket_Two(n) == n + 2           \* mutant: i is advanced twice
NextPacket_Same(n) == n              \* mutant: i is not advanced
NextPacket(n) == n + 1

(* rak831_fetch_packets(i), then by status. *)
Report ==
  /\ pc = "for"
  /\ i < nb_pkt
  /\ Good(rxpkt[i])
  /\ reported' = [reported EXCEPT ![i] = Once(@)]
  /\ i' = NextPacket(AfterPrinting(rxpkt[i]))
  /\ UNCHANGED <<pc, nb_pkt, rxpkt>>

Skip ==
  /\ pc = "for"
  /\ i < nb_pkt
  /\ ~Good(rxpkt[i])
  /\ i' = NextPacket(i)
  /\ UNCHANGED <<pc, nb_pkt, rxpkt, reported>>

EndOfBatch ==
  /\ pc = "for"
  /\ i >= nb_pkt
  /\ pc' = "listen"
  /\ nb_pkt' = 0
  /\ i' = 0
  /\ UNCHANGED <<rxpkt, reported>>

LoopNext == NothingHeard \/ Heard \/ Report \/ Skip \/ EndOfBatch

LoopSpec == LoopInit /\ [][LoopNext]_loop_vars /\ WF_loop_vars(Report \/ Skip \/ EndOfBatch)

-----------------------------------------------------------------------------
(* Properties. *)

LoopTypeOK ==
  /\ pc \in {"listen", "for"}
  /\ nb_pkt \in 0 .. MaxBatch
  /\ rxpkt \in [Slots -> Packets \cup {Empty}]
  /\ i \in Nat /\ (i <= nb_pkt \/ Reuse)
  /\ reported \in [Slots -> 0 .. 2]

(* Why: what i has passed is done, what it has not is not. *)
BatchInv ==
  /\ LoopTypeOK
  /\ \A s \in 0 .. nb_pkt - 1 :
       reported[s] = IF s < i /\ rxpkt[s].status = "CRC_OK" THEN 1 ELSE 0

(* Each good packet of a batch is reported once, the others never, by the  *)
(* time the next one is waited for.                                        *)
EachOnce ==
  pc = "for" /\ i >= nb_pkt =>
    \A s \in 0 .. nb_pkt - 1 :
      reported[s] = IF rxpkt[s].status = "CRC_OK" THEN 1 ELSE 0

(* The loop over a batch ends and the gateway listens again. *)
BatchEnds == pc = "for" ~> pc = "listen"
=============================================================================
