----------------------------- MODULE MC_LgwReg -----------------------------
(* The receiving and the sending thread of main.c with a few registers of  *)
(* loregs: two trigger bits of one byte of page 1, a whole register of     *)
(* page 1 at the address of a bit of page 2, and the FIFO count.           *)
EXTENDS LgwReg

MCRegs == {"NUM_STORED", "TRIG_IMM", "TRIG_DEL", "TX_STATUS", "PAGE2_BIT"}
MCPage == [r \in MCRegs |-> CASE r = "NUM_STORED" -> -1 [] r = "PAGE2_BIT" -> 2
                              [] OTHER -> 1]
MCAddr == [r \in MCRegs |-> CASE r = "NUM_STORED" -> 11 [] r = "TX_STATUS" -> 62
                              [] OTHER -> 33]
MCWhole == [r \in MCRegs |-> r \in {"NUM_STORED", "TX_STATUS"}]
MCReadOnly == {"TX_STATUS"}
MCUses == [t \in {"rx", "tx"} |-> IF t = "rx" THEN {"NUM_STORED"}
                                  ELSE MCRegs \ {"NUM_STORED"}]
MCThreads == {"rx", "tx"}

\* The gateway's threads are partitioned as the proofs assume.
ASSUME MCPartitioned == Partitioned
=============================================================================
