------------------------------- MODULE LgwReg -------------------------------
(***************************************************************************)
(* The paged register file of the SX1301 behind one SPI link, as           *)
(* Gateway/libloragw/src/loragw_reg.c accesses it: every thread of the     *)
(* gateway goes through the static lgw_regpage without a lock, a register  *)
(* narrower than its byte is read, modified and written back, and one call *)
(* is several SPI transfers.                                               *)
(***************************************************************************)
EXTENDS Integers

CONSTANTS
  Threads,   \* threads that access registers
  Regs,      \* registers of the table loregs
  Page,      \* page of each register, -1 when it is on every page
  Addr,      \* byte address of each register
  Whole,     \* it fills its byte(s): written directly
  ReadOnly,  \* registers a write is refused for
  Uses,      \* per thread: the registers it accesses
  Values,    \* values written
  NoReg,     \* not a register
  SpiFails   \* SPI transfers may fail

Pages    == 0 .. 3
PageMask == 4                 \* PAGE_MASK 0x03 keeps the value modulo 4
Junk     == -1                \* bits of some other register

SameByte(q, r) == Page[q] = Page[r] /\ Addr[q] = Addr[r]

ASSUME RegAssumption ==
  /\ Page \in [Regs -> {-1} \cup Pages]
  /\ Addr \in [Regs -> Nat]
  /\ Whole \in [Regs -> BOOLEAN]
  /\ ReadOnly \subseteq Regs
  /\ Uses \in [Threads -> SUBSET Regs]
  /\ Values \subseteq Nat /\ 0 \in Values
  /\ NoReg \notin Regs
  /\ SpiFails \in BOOLEAN
  /\ \A r \in Regs : Whole[r] => \A q \in Regs : SameByte(q, r) => q = r

(* What the gateway relies on: one thread at most uses registers that are  *)
(* on a page, and no byte has registers of two threads.                    *)
Pagers == {t \in Threads : \E r \in Uses[t] : Page[r] # -1}

Partitioned ==
  /\ \A t, u \in Pagers : t = u
  /\ \A t, u \in Threads : t # u =>
       \A r \in Uses[t], q \in Uses[u] : ~SameByte(q, r)

VARIABLES
  connected,  \* lgw_spi_target # NULL
  regpage,    \* lgw_regpage
  page,       \* the page the chip has selected
  mem,        \* the chip's registers
  th          \* per thread: the lgw_reg_* call in progress

vars == <<connected, regpage, page, mem, th>>

NoBuf  == [q \in Regs |-> 0]
NoCall == [pc |-> "idle", op |-> "r", r |-> NoReg, page |-> 0, v |-> 0,
           buf |-> NoBuf]

Init ==
  /\ connected = FALSE
  /\ regpage = -1
  /\ page \in Pages          \* left by whoever used the chip before
  /\ mem = [r \in Regs |-> 0]
  /\ th = [t \in Threads |-> NoCall]

Quiet == th = [t \in Threads |-> NoCall]

-----------------------------------------------------------------------------
(* Connecting; the calling program has one thread while it does.           *)

lgw_connect ==
  /\ Quiet
  /\ connected' = TRUE
  /\ regpage' = 0
  /\ page' = 0
  /\ UNCHANGED <<mem, th>>

(* spi_only, or a version that is not the expected one, or a transfer that *)
(* fails: the link is open but no page was selected.                       *)
lgw_connect_only ==
  /\ Quiet
  /\ connected' = TRUE
  /\ UNCHANGED <<regpage, page, mem, th>>

lgw_disconnect ==
  /\ Quiet
  /\ connected' = FALSE
  /\ UNCHANGED <<regpage, page, mem, th>>

Ready == connected /\ regpage >= 0

(* mutant: the paging variable is not reset with the chip *)
lgw_soft_reset_KeepsPage ==
  /\ Quiet
  /\ Ready
  /\ page' = 0
  /\ mem' = [r \in Regs |-> 0]
  /\ UNCHANGED <<connected, regpage, th>>

lgw_soft_reset ==
  /\ Quiet
  /\ Ready
  /\ regpage' = 0
  /\ \/ page' = 0 /\ mem' = [r \in Regs |-> 0]
     \/ SpiFails /\ UNCHANGED <<page, mem>>
  /\ UNCHANGED <<connected, th>>

(* The program is killed and started again: its statics are new, the chip  *)
(* is as it was left.                                                      *)
Killed ==
  /\ connected' = FALSE
  /\ regpage' = -1
  /\ th' = [t \in Threads |-> NoCall]
  /\ UNCHANGED <<page, mem>>

-----------------------------------------------------------------------------
(* One register call: checks and comparison with lgw_regpage, page_switch  *)
(* (assign, then write the page register), then one or two transfers.      *)

NeedsSwitch(r) == Page[r] # -1 /\ Page[r] # regpage

Begin(t, op, r, v) ==
  th' = [th EXCEPT ![t] =
           [pc |-> IF NeedsSwitch(r) THEN "switch" ELSE "access", op |-> op, r |-> r,
            page |-> IF NeedsSwitch(r) THEN Page[r] ELSE 0, v |-> v, buf |-> NoBuf]]

lgw_reg_r(t, r) ==
  /\ th[t].pc = "idle"
  /\ Ready
  /\ Begin(t, "r", r, 0)
  /\ UNCHANGED <<connected, regpage, page, mem>>

lgw_reg_w(t, r, v) ==
  /\ th[t].pc = "idle"
  /\ Ready
  /\ r \notin ReadOnly
  /\ Begin(t, "w", r, v)
  /\ UNCHANGED <<connected, regpage, page, mem>>

(* A write to PAGE_REG itself, with any value. *)
lgw_reg_w_page(t, p) ==
  /\ th[t].pc = "idle"
  /\ t \in Pagers
  /\ Ready
  /\ th' = [th EXCEPT ![t] = [pc |-> "switch", op |-> "p", r |-> NoReg, page |-> p,
                              v |-> 0, buf |-> NoBuf]]
  /\ UNCHANGED <<connected, regpage, page, mem>>

Masked_All(p) == p                   \* mutant: no mask
Masked(p)     == p % PageMask

page_switch_assign(t) ==
  /\ th[t].pc = "switch"
  /\ regpage' = Masked(th[t].page)
  /\ th' = [th EXCEPT ![t].pc = "select"]
  /\ UNCHANGED <<connected, page, mem>>

(* The value written is lgw_regpage as it is by then; the result of the    *)
(* transfer is not looked at.                                              *)
page_switch_write(t) ==
  /\ th[t].pc = "select"
  /\ \/ page' = regpage
     \/ SpiFails /\ UNCHANGED page
  /\ th' = [th EXCEPT ![t] = IF th[t].op = "p" THEN NoCall
                                               ELSE [@ EXCEPT !.pc = "access"]]
  /\ UNCHANGED <<connected, regpage, mem>>

(* The registers in the byte that an access to the address of r reaches.   *)
Hit(r) == {q \in Regs : Addr[q] = Addr[r]
                        /\ Page[q] = (IF Page[r] = -1 THEN -1 ELSE page)}

access_read(t) ==
  /\ th[t].pc = "access"
  /\ th[t].op = "r"
  /\ \E value \in {IF th[t].r \in Hit(th[t].r) THEN mem[th[t].r] ELSE Junk}
                  \cup (IF SpiFails THEN {0} ELSE {}) :
       th' = [th EXCEPT ![t].pc = "done", ![t].v = value]
  /\ UNCHANGED <<connected, regpage, page, mem>>

access_write(t) ==
  /\ th[t].pc = "access"
  /\ th[t].op = "w"
  /\ Whole[th[t].r]
  /\ \/ mem' = [q \in Regs |-> IF q \notin Hit(th[t].r) THEN mem[q]
                               ELSE IF q = th[t].r THEN th[t].v ELSE Junk]
     \/ SpiFails /\ UNCHANGED mem
  /\ th' = [th EXCEPT ![t].pc = "done"]
  /\ UNCHANGED <<connected, regpage, page>>

(* First half of a read-modify-write; a failed read leaves zeros and the   *)
(* call goes on.                                                           *)
modify_read(t) ==
  /\ th[t].pc = "access"
  /\ th[t].op = "w"
  /\ ~Whole[th[t].r]
  /\ \/ th' = [th EXCEPT ![t].pc = "merge", ![t].buf = mem]
     \/ /\ SpiFails
        /\ th' = [th EXCEPT ![t].pc = "merge", ![t].buf = NoBuf]
  /\ UNCHANGED <<connected, regpage, page, mem>>

Merged_MaskLost(t) ==      \* mutant: the old bits are dropped
  [q \in Regs |-> IF q \notin Hit(th[t].r) THEN mem[q]
                  ELSE IF q = th[t].r THEN th[t].v ELSE 0]
Merged(t) ==
  [q \in Regs |-> IF q \notin Hit(th[t].r) THEN mem[q]
                  ELSE IF q = th[t].r THEN th[t].v
                  ELSE IF th[t].r \in Hit(th[t].r) THEN th[t].buf[q] ELSE Junk]

modify_write(t) ==
  /\ th[t].pc = "merge"
  /\ \/ mem' = Merged(t)
     \/ SpiFails /\ UNCHANGED mem
  /\ th' = [th EXCEPT ![t].pc = "done", ![t].buf = NoBuf]
  /\ UNCHANGED <<connected, regpage, page>>

reg_return(t) ==
  /\ th[t].pc = "done"
  /\ th' = [th EXCEPT ![t] = NoCall]
  /\ UNCHANGED <<connected, regpage, page, mem>>

-----------------------------------------------------------------------------
Control == lgw_connect \/ lgw_connect_only \/ lgw_disconnect \/ lgw_soft_reset

Transfer(t) ==
  \/ page_switch_assign(t) \/ page_switch_write(t)
  \/ access_read(t) \/ access_write(t)
  \/ modify_read(t) \/ modify_write(t)
  \/ reg_return(t)

Access(t) ==
  \/ \E r \in Uses[t] : lgw_reg_r(t, r)
  \/ \E r \in Uses[t], v \in Values : lgw_reg_w(t, r, v)
  \/ \E p \in 0 .. 2 * PageMask - 1 : lgw_reg_w_page(t, p)
  \/ Transfer(t)

Next == Control \/ Killed \/ \E t \in Threads : Access(t)

Spec == Init /\ [][Next]_vars

-----------------------------------------------------------------------------
(* Properties. *)

Cell == Int

Call == [pc : {"idle", "switch", "select", "access", "merge", "done"},
         op : {"r", "w", "p"}, r : Regs \cup {NoReg}, page : Nat, v : Cell,
         buf : [Regs -> Cell]]

TypeOK ==
  /\ connected \in BOOLEAN
  /\ regpage \in {-1} \cup Pages
  /\ page \in Pages
  /\ mem \in [Regs -> Cell]
  /\ th \in [Threads -> Call]

(* Every transfer meant for a paged register finds the chip on that page:  *)
(* lgw_regpage, shared by all threads and by no lock, still agrees with    *)
(* the chip when the transfer comes, across reconnections, resets, failed  *)
(* connections and restarts of the program.                                *)
RightPage ==
  \A t \in Threads :
    th[t].pc \in {"access", "merge"} /\ Page[th[t].r] # -1 => page = Page[th[t].r]

(* Why it holds: a thread that switches the page is the only one to use    *)
(* paged registers, and no other thread's call changes the byte a          *)
(* read-modify-write has in hand.                                          *)
CallOK(t, c) ==
  /\ c.pc = "idle" => c = NoCall
  /\ c.pc # "idle" => regpage >= 0
  /\ c.op = "p" => /\ t \in Pagers /\ c.pc \in {"switch", "select"}
                   /\ c.r = NoReg /\ c.v = 0
  /\ c.op # "p" /\ c.pc # "idle" => c.r \in Uses[t]
  /\ c.op # "p" /\ c.pc \in {"switch", "select"} =>
        Page[c.r] # -1 /\ c.page = Page[c.r]
  /\ c.pc = "select" => regpage = Masked(c.page)
  /\ c.pc \in {"access", "merge"} /\ Page[c.r] # -1 =>
        page = Page[c.r] /\ regpage = Page[c.r]
  /\ c.pc = "merge" =>
        /\ c.op = "w"
        /\ \A q \in Regs : SameByte(q, c.r) => c.buf[q] = mem[q]

PageSync == regpage >= 0 /\ (\A t \in Threads : th[t].pc # "select") => page = regpage

RegInv == TypeOK /\ PageSync /\ \A t \in Threads : CallOK(t, th[t])

(* The call in progress as the abstract register file sees it. *)
AbsPc(pc) == IF pc \in {"idle", "done"} THEN pc ELSE "busy"

AbsCall(c) ==
  [pc |-> IF c.op = "p" THEN "idle" ELSE AbsPc(c.pc),
   op |-> IF c.op = "p" THEN "r" ELSE c.op,
   r  |-> c.r, v |-> c.v]

RF == INSTANCE RegFile WITH reg <- mem, call <- [t \in Threads |-> AbsCall(th[t])],
                            Default <- NoReg

(* Although a call is up to four transfers and threads share lgw_regpage   *)
(* and bytes of the chip, calls behave as if each took effect at once.     *)
Atomic == RF!Spec
=============================================================================
