---------------------------- MODULE LgwRegProofs ----------------------------
(***************************************************************************)
(* Proofs about the register layer, for every register table, any number   *)
(* of threads and every partition of the registers among them in which one *)
(* thread at most uses paged registers.  Transfers are assumed to succeed. *)
(***************************************************************************)
EXTENDS LgwReg, TLAPS

LEMMA NoCallType == NoCall \in Call /\ NoBuf \in [Regs -> Cell]
BY DEF NoCall, NoBuf, Call, Cell

LEMMA MaskedPage ==
  /\ \A p \in Nat : Masked(p) \in Pages
  /\ \A p \in Pages : Masked(p) = p
<1>1. ASSUME NEW p \in Nat
      PROVE  Masked(p) \in Pages
  <2>1. p % 4 \in 0 .. 3
    OBVIOUS
  <2>2. QED
    BY <2>1 DEF Masked, Pages, PageMask
<1>2. ASSUME NEW p \in Pages
      PROVE  Masked(p) = p
  <2>1. p \in 0 .. 3
    BY DEF Pages
  <2>2. p % 4 = p
    BY <2>1
  <2>3. QED
    BY <2>2 DEF Masked, PageMask
<1>3. QED
  BY <1>1, <1>2

-----------------------------------------------------------------------------
(* The type invariant; a thread about to write the page register has a     *)
(* page to write.                                                          *)
TypeInv == TypeOK /\ \A t \in Threads : th[t].pc = "select" => regpage \in Pages

LEMMA TypeInit == Init => TypeInv
<1> SUFFICES ASSUME Init PROVE TypeInv
  OBVIOUS
<1>1. mem \in [Regs -> Cell]
  BY DEF Init, Cell
<1>2. th \in [Threads -> Call] /\ \A t \in Threads : th[t].pc = "idle"
  BY NoCallType DEF Init, NoCall
<1>3. QED
  BY <1>1, <1>2 DEF Init, TypeOK, TypeInv

LEMMA MergedType ==
  ASSUME TypeOK, NEW t \in Threads
  PROVE  Merged(t) \in [Regs -> Cell]
<1>1. th[t] \in Call
  BY DEF TypeOK
<1>2. th[t].v \in Cell /\ th[t].buf \in [Regs -> Cell] /\ mem \in [Regs -> Cell]
  BY <1>1 DEF TypeOK, Call
<1>3. QED
  BY <1>2 DEF Merged, Cell, Junk

LEMMA BeginType ==
  ASSUME TypeOK, NEW t \in Threads, NEW r \in Uses[t], NEW op \in {"r", "w"},
         NEW v \in Nat, Begin(t, op, r, v)
  PROVE  th' \in [Threads -> Call]
<1> USE RegAssumption
<1>1. r \in Regs /\ Page[r] \in {-1} \cup Pages
  OBVIOUS
<1> DEFINE c == [pc |-> IF NeedsSwitch(r) THEN "switch" ELSE "access", op |-> op, r |-> r,
                 page |-> IF NeedsSwitch(r) THEN Page[r] ELSE 0, v |-> v, buf |-> NoBuf]
<1>2. c \in Call
  BY <1>1, NoCallType DEF Call, NeedsSwitch, Pages, Cell
<1>3. th' = [th EXCEPT ![t] = c]
  BY DEF Begin
<1> HIDE DEF c
<1>4. QED
  BY <1>2, <1>3 DEF TypeOK

LEMMA TypeStep == TypeInv /\ [Next]_vars => TypeOK'
<1> USE RegAssumption
<1> SUFFICES ASSUME TypeInv, [Next]_vars
             PROVE  TypeOK'
  OBVIOUS
<1>0. TypeOK
  BY DEF TypeInv
<1>1. CASE Control
  <2>1. CASE lgw_connect
    BY <1>0, <2>1 DEF lgw_connect, TypeOK, Pages
  <2>2. CASE lgw_connect_only \/ lgw_disconnect
    BY <1>0, <2>2 DEF lgw_connect_only, lgw_disconnect, TypeOK
  <2>3. CASE lgw_soft_reset
    <3>1. mem' \in [Regs -> Cell]
      BY <1>0, <2>3 DEF lgw_soft_reset, TypeOK, Cell
    <3>2. regpage' \in {-1} \cup Pages /\ page' \in Pages
      BY <1>0, <2>3 DEF lgw_soft_reset, TypeOK, Pages
    <3>3. QED
      BY <1>0, <2>3, <3>1, <3>2 DEF lgw_soft_reset, TypeOK
  <2>4. QED
    BY <1>1, <2>1, <2>2, <2>3 DEF Control
<1>2. CASE Killed
  BY <1>0, <1>2, NoCallType DEF Killed, TypeOK
<1>3. ASSUME NEW t \in Threads, Access(t)
      PROVE  TypeOK'
  <2>1. th[t] \in Call /\ th \in [Threads -> Call]
    BY <1>0 DEF TypeOK
  <2>2. ASSUME NEW r \in Uses[t], lgw_reg_r(t, r)
        PROVE  TypeOK'
    BY <1>0, <2>2, BeginType DEF lgw_reg_r, TypeOK
  <2>3. ASSUME NEW r \in Uses[t], NEW v \in Values, lgw_reg_w(t, r, v)
        PROVE  TypeOK'
    BY <1>0, <2>3, BeginType DEF lgw_reg_w, TypeOK
  <2>4. ASSUME NEW p \in 0 .. 2 * PageMask - 1, lgw_reg_w_page(t, p)
        PROVE  TypeOK'
    <3> DEFINE c == [pc |-> "switch", op |-> "p", r |-> NoReg, page |-> p, v |-> 0,
                     buf |-> NoBuf]
    <3>1. c \in Call
      BY NoCallType DEF Call, PageMask, Cell
    <3>2. th' = [th EXCEPT ![t] = c]
      BY <1>0, <2>4 DEF lgw_reg_w_page
    <3> HIDE DEF c
    <3>3. QED
      BY <1>0, <2>4, <3>1, <3>2 DEF lgw_reg_w_page, TypeOK
  <2>5. CASE page_switch_assign(t)
    <3>1. th' \in [Threads -> Call]
      BY <1>0, <2>1, <2>5 DEF page_switch_assign, Call
    <3>2. th[t].page \in Nat
      BY <1>0, <2>1 DEF Call
    <3>3. regpage' \in Pages
      BY <1>0, <2>5, <3>2, MaskedPage DEF page_switch_assign
    <3>4. QED
      BY <1>0, <2>5, <3>1, <3>3 DEF page_switch_assign, TypeOK
  <2>6. CASE page_switch_write(t)
    <3>1. th' \in [Threads -> Call]
      BY <1>0, <2>1, <2>6, NoCallType DEF page_switch_write, Call
    <3>2. page' \in Pages
      BY <1>0, <2>6 DEF page_switch_write, TypeOK, TypeInv
    <3>3. QED
      BY <1>0, <2>6, <3>1, <3>2 DEF page_switch_write, TypeOK
  <2>7. CASE access_read(t)
    <3>1. PICK value \in {IF th[t].r \in Hit(th[t].r) THEN mem[th[t].r] ELSE Junk}
                         \cup (IF SpiFails THEN {0} ELSE {}) :
            th' = [th EXCEPT ![t].pc = "done", ![t].v = value]
      BY <1>0, <2>7 DEF access_read
    <3>2. value \in Cell
      <4>1. th[t].r \in Hit(th[t].r) => mem[th[t].r] \in Cell
        BY <1>0 DEF Hit, TypeOK
      <4>2. value = 0 \/ value = Junk \/ (th[t].r \in Hit(th[t].r) /\ value = mem[th[t].r])
        BY <3>1
      <4>3. QED
        BY <4>1, <4>2 DEF Cell, Junk
    <3>3. [th[t] EXCEPT !.pc = "done", !.v = value] \in Call
      BY <1>0, <2>1, <3>2 DEF Call
    <3>4. th' = [th EXCEPT ![t] = [th[t] EXCEPT !.pc = "done", !.v = value]]
      BY <1>0, <2>1, <3>1
    <3>5. th' \in [Threads -> Call]
      BY <1>0, <2>1, <3>3, <3>4
    <3>6. QED
      BY <1>0, <2>7, <3>5 DEF access_read, TypeOK
  <2>8. CASE access_write(t)
    <3>1. th' \in [Threads -> Call]
      BY <1>0, <2>1, <2>8 DEF access_write, Call
    <3>2. th[t].v \in Cell
      BY <1>0, <2>1 DEF Call
    <3>3. mem' \in [Regs -> Cell]
      BY <1>0, <2>8, <3>2 DEF access_write, TypeOK, Cell, Junk
    <3>4. QED
      BY <1>0, <2>8, <3>1, <3>3 DEF access_write, TypeOK
  <2>9. CASE modify_read(t)
    <3>1. mem \in [Regs -> Cell]
      BY <1>0 DEF TypeOK
    <3>2. ASSUME NEW b \in [Regs -> Cell]
          PROVE  [th EXCEPT ![t].pc = "merge", ![t].buf = b] \in [Threads -> Call]
      <4>1. [th[t] EXCEPT !.pc = "merge", !.buf = b] \in Call
        BY <2>1 DEF Call
      <4>2. QED
        BY <2>1, <4>1
    <3>3. th' \in [Threads -> Call]
      <4>1. \E b \in {mem, NoBuf} : th' = [th EXCEPT ![t].pc = "merge", ![t].buf = b]
        BY <2>9 DEF modify_read
      <4>2. QED
        BY <4>1, <3>1, <3>2, NoCallType
    <3>4. QED
      BY <1>0, <2>9, <3>3 DEF modify_read, TypeOK
  <2>10. CASE modify_write(t)
    <3>1. th' \in [Threads -> Call]
      BY <1>0, <2>1, <2>10, NoCallType DEF modify_write, Call
    <3>2. QED
      BY <1>0, <2>10, <3>1, MergedType DEF modify_write, TypeOK
  <2>11. CASE reg_return(t)
    BY <1>0, <2>1, <2>11, NoCallType DEF reg_return, TypeOK
  <2>12. QED
    BY <1>3, <2>2, <2>3, <2>4, <2>5, <2>6, <2>7, <2>8, <2>9, <2>10, <2>11
       DEF Access, Transfer
<1>4. CASE UNCHANGED vars
  BY <1>0, <1>4 DEF vars, TypeOK
<1>5. QED
  BY <1>1, <1>2, <1>3, <1>4 DEF Next

LEMMA SelectStep ==
  TypeInv /\ [Next]_vars => \A t \in Threads : th'[t].pc = "select" => regpage' \in Pages
<1> SUFFICES ASSUME TypeInv, [Next]_vars, NEW u \in Threads, th'[u].pc = "select"
             PROVE  regpage' \in Pages
  OBVIOUS
<1>1. th \in [Threads -> Call] /\ (th[u].pc = "select" => regpage \in Pages)
  BY DEF TypeInv, TypeOK
<1>2. CASE Control
  BY <1>1, <1>2 DEF Control, lgw_connect, lgw_connect_only, lgw_disconnect, lgw_soft_reset,
                    Pages
<1>3. CASE Killed
  BY <1>3 DEF Killed, NoCall
<1>4. ASSUME NEW t \in Threads, Access(t)
      PROVE  regpage' \in Pages
  <2>1. CASE page_switch_assign(t)
    BY <1>1, <2>1, MaskedPage DEF page_switch_assign, Call
  <2>2. CASE page_switch_write(t)
    BY <1>1, <2>2 DEF page_switch_write, NoCall, TypeInv
  <2>3. CASE ~page_switch_assign(t) /\ ~page_switch_write(t)
    <3>1. regpage' = regpage
      BY <1>4, <2>3 DEF Access, Transfer, lgw_reg_r, lgw_reg_w, lgw_reg_w_page, access_read,
                        access_write, modify_read, modify_write, reg_return
    <3>2. th'[u].pc = "select" => th[u].pc = "select"
      <4>1. CASE \E r \in Uses[t] : lgw_reg_r(t, r) \/ \E v \in Values : lgw_reg_w(t, r, v)
        BY <1>1, <4>1 DEF lgw_reg_r, lgw_reg_w, Begin
      <4>2. CASE \E p \in 0 .. 2 * PageMask - 1 : lgw_reg_w_page(t, p)
        BY <1>1, <4>2 DEF lgw_reg_w_page
      <4>3. CASE reg_return(t)
        BY <1>1, <4>3 DEF reg_return, NoCall
      <4>4. CASE access_read(t) \/ access_write(t) \/ modify_read(t) \/ modify_write(t)
        <5>1. th'[u].pc = (IF u = t THEN th'[t].pc ELSE th[u].pc)
          BY <1>1, <4>4 DEF access_read, access_write, modify_read, modify_write
        <5>2. th'[t].pc \in {"merge", "done"}
          <6>1. th[t] \in Call
            BY <1>1
          <6>2. CASE access_read(t)
            BY <1>1, <6>1, <6>2 DEF access_read, Call
          <6>3. CASE access_write(t)
            BY <1>1, <6>1, <6>3 DEF access_write, Call
          <6>4. CASE modify_read(t)
            BY <1>1, <6>1, <6>4 DEF modify_read, Call
          <6>5. CASE modify_write(t)
            BY <1>1, <6>1, <6>5 DEF modify_write, Call
          <6>6. QED
            BY <4>4, <6>2, <6>3, <6>4, <6>5
        <5>3. QED
          BY <5>1, <5>2
      <4>5. QED
        BY <1>4, <2>3, <4>1, <4>2, <4>3, <4>4 DEF Access, Transfer
    <3>3. QED
      BY <1>1, <3>1, <3>2
  <2>4. QED
    BY <2>1, <2>2, <2>3
<1>5. CASE UNCHANGED vars
  BY <1>1, <1>5 DEF vars
<1>6. QED
  BY <1>2, <1>3, <1>4, <1>5 DEF Next

(* Every variable of the register layer keeps its type. *)
THEOREM TypeCorrect == Spec => []TypeOK
<1>1. TypeInv /\ [Next]_vars => TypeInv'
  BY TypeStep, SelectStep DEF TypeInv
<1>2. TypeInv => TypeOK
  BY DEF TypeInv
<1>3. QED
  BY <1>1, <1>2, TypeInit, PTL DEF Spec

-----------------------------------------------------------------------------
(* Pages and bytes. *)

LEMMA InvInit == Init => RegInv
<1> SUFFICES ASSUME Init PROVE RegInv
  OBVIOUS
<1>1. TypeOK
  BY TypeInit DEF TypeInv
<1>2. \A t \in Threads : th[t] = NoCall
  BY DEF Init
<1>3. ASSUME NEW t \in Threads
      PROVE  CallOK(t, th[t])
  <2>1. th[t] = NoCall /\ NoCall.pc = "idle" /\ NoCall.op = "r"
    BY <1>2 DEF NoCall
  <2>2. QED
    BY <2>1 DEF CallOK
<1>4. PageSync
  BY DEF Init, PageSync
<1>5. QED
  BY <1>1, <1>3, <1>4 DEF RegInv

LEMMA InvType == RegInv => TypeInv
BY DEF RegInv, TypeInv, TypeOK, CallOK, Pages

(* With the chip on the right page, a transfer reaches the byte of the     *)
(* register it is meant for.                                               *)
LEMMA HitOwn ==
  ASSUME RegInv, NEW t \in Threads, th[t].pc \in {"access", "merge"}
  PROVE  /\ th[t].r \in Regs
         /\ th[t].op # "p"
         /\ \A q \in Regs : q \in Hit(th[t].r) <=> SameByte(q, th[t].r)
<1> USE RegAssumption
<1>1. CallOK(t, th[t])
  BY DEF RegInv
<1>2. th[t].op # "p" /\ th[t].r \in Uses[t]
  BY <1>1 DEF CallOK
<1>3. th[t].r \in Regs
  BY <1>2
<1>4. Page[th[t].r] # -1 => page = Page[th[t].r]
  BY <1>1 DEF CallOK
<1>5. QED
  BY <1>2, <1>3, <1>4 DEF Hit, SameByte

(* A write changes the register it names and no other.                     *)
LEMMA WriteOne ==
  ASSUME RegInv, ~SpiFails, NEW t \in Threads, access_write(t) \/ modify_write(t)
  PROVE  mem' = [mem EXCEPT ![th[t].r] = th[t].v]
<1> USE RegAssumption
<1>1. th[t].pc \in {"access", "merge"} /\ CallOK(t, th[t])
  BY DEF access_write, modify_write, RegInv
<1>2. /\ th[t].r \in Regs
      /\ \A q \in Regs : q \in Hit(th[t].r) <=> SameByte(q, th[t].r)
  BY <1>1, HitOwn
<1>3. th[t].r \in Hit(th[t].r)
  BY <1>2 DEF SameByte
<1>4. mem \in [Regs -> Cell]
  BY DEF RegInv, TypeOK
<1>5. CASE access_write(t)
  <2>1. \A q \in Hit(th[t].r) : q = th[t].r
    BY <1>2, <1>5 DEF access_write, Hit
  <2>2. mem' = [q \in Regs |-> IF q \notin Hit(th[t].r) THEN mem[q]
                               ELSE IF q = th[t].r THEN th[t].v ELSE Junk]
    BY <1>5 DEF access_write
  <2>3. QED
    BY <1>3, <1>4, <2>1, <2>2
<1>6. CASE modify_write(t)
  <2>1. mem' = Merged(t)
    BY <1>6 DEF modify_write
  <2>2. \A q \in Regs : q \in Hit(th[t].r) => th[t].buf[q] = mem[q]
    BY <1>1, <1>2, <1>6 DEF modify_write, CallOK
  <2>3. QED
    BY <1>3, <1>4, <2>1, <2>2 DEF Merged
<1>7. QED
  BY <1>5, <1>6

(* What one thread does leaves another's call as it was: only one of them  *)
(* uses pages, and they share no byte.                                     *)
LEMMA Other ==
  ASSUME Partitioned, RegInv, NEW t \in Threads, NEW u \in Threads, t # u,
         th'[u] = th[u],
         \/ regpage' = regpage /\ page' = page
         \/ t \in Pagers /\ regpage' >= 0,
         \A q \in Regs : mem'[q] = mem[q] \/ q \in Uses[t]
  PROVE  CallOK(u, th[u])'
<1> USE RegAssumption
<1>1. CallOK(u, th[u])
  BY DEF RegInv
<1>2. th[u].pc = "merge" =>
        \A q \in Regs : SameByte(q, th[u].r) => th[u].buf[q] = mem'[q]
  <2>1. SUFFICES ASSUME th[u].pc = "merge", NEW q \in Regs, SameByte(q, th[u].r)
                 PROVE  mem'[q] = mem[q]
    BY <1>1 DEF CallOK
  <2>2. th[u].r \in Uses[u]
    BY <1>1, <2>1 DEF CallOK
  <2>3. q \notin Uses[t]
    BY <2>1, <2>2 DEF Partitioned, SameByte
  <2>4. QED
    BY <2>3
<1>3. CASE regpage' = regpage /\ page' = page
  BY <1>1, <1>2, <1>3 DEF CallOK
<1>4. CASE t \in Pagers /\ regpage' >= 0
  <2>1. u \notin Pagers
    BY <1>4 DEF Partitioned
  <2>2. \A r \in Uses[u] : Page[r] = -1
    BY <2>1 DEF Pagers
  <2>3. th[u].op # "p" /\ th[u].pc \notin {"switch", "select"}
    BY <1>1, <2>1, <2>2 DEF CallOK
  <2>4. th[u].pc \in {"access", "merge"} => Page[th[u].r] = -1
    BY <1>1, <2>2, <2>3 DEF CallOK
  <2>5. QED
    BY <1>1, <1>2, <1>4, <2>3, <2>4 DEF CallOK
<1>5. QED
  BY <1>3, <1>4

LEMMA InvStep ==
  ASSUME Partitioned, ~SpiFails
  PROVE  RegInv /\ [Next]_vars => RegInv'
<1> USE RegAssumption
<1> SUFFICES ASSUME RegInv, [Next]_vars
             PROVE  PageSync' /\ \A u \in Threads : CallOK(u, th[u])'
  BY InvType, TypeStep DEF RegInv
<1>1. TypeOK /\ PageSync /\ th \in [Threads -> Call]
  BY DEF RegInv, TypeOK
<1>2. CASE Control
  <2>1. th' = th /\ \A u \in Threads : th[u] = NoCall
    BY <1>2 DEF Control, lgw_connect, lgw_connect_only, lgw_disconnect, lgw_soft_reset, Quiet
  <2>2. \A u \in Threads : CallOK(u, th[u])'
    BY <2>1 DEF CallOK, NoCall
  <2>3. PageSync'
    BY <1>1, <1>2, <2>1 DEF Control, lgw_connect, lgw_connect_only, lgw_disconnect,
                            lgw_soft_reset, PageSync
  <2>4. QED
    BY <2>2, <2>3
<1>3. CASE Killed
  <2>1. \A u \in Threads : th'[u] = NoCall
    BY <1>3 DEF Killed
  <2>2. \A u \in Threads : CallOK(u, th[u])'
    BY <2>1 DEF CallOK, NoCall
  <2>3. QED
    BY <1>3, <2>2 DEF Killed, PageSync
<1>4. ASSUME NEW t \in Threads, Access(t)
      PROVE  PageSync' /\ \A u \in Threads : CallOK(u, th[u])'
  <2>1. th[t] \in Call /\ CallOK(t, th[t])
    BY <1>1 DEF RegInv
  <2>2. ASSUME NEW r \in Uses[t], NEW op \in {"r", "w"}, NEW v \in Nat,
               th[t].pc = "idle", Ready, Begin(t, op, r, v),
               UNCHANGED <<connected, regpage, page, mem>>
        PROVE  PageSync' /\ \A u \in Threads : CallOK(u, th[u])'
    <3>1. \A u \in Threads \ {t} : th'[u] = th[u]
      BY <1>1, <2>2 DEF Begin
    <3>2. th'[t] = [pc |-> IF NeedsSwitch(r) THEN "switch" ELSE "access", op |-> op, r |-> r,
                    page |-> IF NeedsSwitch(r) THEN Page[r] ELSE 0, v |-> v, buf |-> NoBuf]
      BY <1>1, <2>2 DEF Begin
    <3>3. PageSync'
      BY <1>1, <2>2, <3>1, <3>2 DEF PageSync
    <3>4. \A u \in Threads \ {t} : CallOK(u, th[u])'
      BY <2>2, <3>1, Other
    <3>5. CallOK(t, th[t])'
      <4>1. r \in Regs
        OBVIOUS
      <4>2. CASE NeedsSwitch(r)
        BY <2>2, <3>2, <4>1, <4>2 DEF CallOK, NeedsSwitch, Ready
      <4>3. CASE ~NeedsSwitch(r)
        <5>1. Page[r] # -1 => regpage = Page[r] /\ page = Page[r]
          <6>1. ASSUME Page[r] # -1
                PROVE  regpage = Page[r] /\ \A u \in Threads : th[u].pc # "select"
            <7>1. t \in Pagers /\ regpage = Page[r]
              BY <4>3, <6>1 DEF Pagers, NeedsSwitch
            <7>2. ASSUME NEW u \in Threads, th[u].pc = "select"
                  PROVE  FALSE
              <8>1. CallOK(u, th[u])
                BY DEF RegInv
              <8>2. u \in Pagers
                BY <7>2, <8>1 DEF CallOK, Pagers
              <8>3. QED
                BY <2>2, <7>1, <7>2, <8>2 DEF Partitioned
            <7>3. QED
              BY <7>1, <7>2
          <6>2. QED
            BY <1>1, <2>2, <6>1 DEF PageSync, Ready
        <5>2. QED
          BY <2>2, <3>2, <4>3, <5>1 DEF CallOK, Ready
      <4>4. QED
        BY <4>2, <4>3
    <3>6. QED
      BY <3>3, <3>4, <3>5
  <2>3. CASE \E r \in Uses[t] : lgw_reg_r(t, r)
    BY <2>2, <2>3 DEF lgw_reg_r
  <2>4. CASE \E r \in Uses[t], v \in Values : lgw_reg_w(t, r, v)
    BY <2>2, <2>4 DEF lgw_reg_w
  <2>5. ASSUME NEW p \in 0 .. 2 * PageMask - 1, lgw_reg_w_page(t, p)
        PROVE  PageSync' /\ \A u \in Threads : CallOK(u, th[u])'
    <3>1. \A u \in Threads \ {t} : th'[u] = th[u]
      BY <1>1, <2>5 DEF lgw_reg_w_page
    <3>2. th'[t] = [pc |-> "switch", op |-> "p", r |-> NoReg, page |-> p, v |-> 0,
                    buf |-> NoBuf]
      BY <1>1, <2>5 DEF lgw_reg_w_page
    <3>3. PageSync'
      BY <1>1, <2>5, <3>1, <3>2 DEF lgw_reg_w_page, PageSync
    <3>4. \A u \in Threads \ {t} : CallOK(u, th[u])'
      BY <2>5, <3>1, Other DEF lgw_reg_w_page
    <3>5. CallOK(t, th[t])'
      BY <2>5, <3>2 DEF lgw_reg_w_page, CallOK, Ready
    <3>6. QED
      BY <3>3, <3>4, <3>5
  <2>6. CASE page_switch_assign(t)
    <3>1. \A u \in Threads \ {t} : th'[u] = th[u]
      BY <1>1, <2>6 DEF page_switch_assign
    <3>2. th'[t] = [th[t] EXCEPT !.pc = "select"]
      BY <1>1, <2>6 DEF page_switch_assign
    <3>3. th'[t].pc = "select" /\ th'[t].op = th[t].op /\ th'[t].r = th[t].r
          /\ th'[t].page = th[t].page
      BY <2>1, <3>2 DEF Call
    <3>4. regpage' = Masked(th[t].page) /\ regpage' \in Pages
      BY <2>1, <2>6, MaskedPage DEF page_switch_assign, Call
    <3>5. t \in Pagers
      BY <2>1, <2>6 DEF page_switch_assign, CallOK, Pagers
    <3>6. PageSync'
      BY <3>3 DEF PageSync
    <3>7. regpage' >= 0
      BY <3>4 DEF Pages
    <3>8. \A u \in Threads \ {t} : CallOK(u, th[u])'
      BY <2>6, <3>1, <3>5, <3>7, Other DEF page_switch_assign
    <3>9. CallOK(t, th[t])'
      BY <2>1, <2>6, <3>3, <3>4, <3>5, <3>7 DEF page_switch_assign, CallOK
    <3>10. QED
      BY <3>6, <3>8, <3>9
  <2>7. CASE page_switch_write(t)
    <3>1. \A u \in Threads \ {t} : th'[u] = th[u]
      BY <1>1, <2>7 DEF page_switch_write
    <3>2. page' = regpage /\ UNCHANGED <<regpage, mem>> /\ th[t].pc = "select"
      BY <2>7 DEF page_switch_write
    <3>3. t \in Pagers /\ regpage' >= 0
      BY <2>1, <3>2 DEF CallOK, Pagers
    <3>4. \A u \in Threads \ {t} : CallOK(u, th[u])'
      BY <3>1, <3>2, <3>3, Other
    <3>5. PageSync'
      BY <3>2 DEF PageSync
    <3>6. CallOK(t, th[t])'
      <4>1. CASE th[t].op = "p"
        BY <1>1, <2>7, <4>1 DEF page_switch_write, CallOK, NoCall
      <4>2. CASE th[t].op # "p"
        <5>1. th'[t] = [th[t] EXCEPT !.pc = "access"]
          BY <1>1, <2>7, <4>2 DEF page_switch_write
        <5>2. th'[t].pc = "access" /\ th'[t].op = th[t].op /\ th'[t].r = th[t].r
          BY <2>1, <5>1 DEF Call
        <5>3. th[t].r \in Uses[t] /\ th[t].page = Page[th[t].r] /\ regpage = Masked(th[t].page)
          BY <2>1, <3>2, <4>2 DEF CallOK
        <5>4. Page[th[t].r] \in Pages
          BY <2>1, <3>2, <4>2, <5>3 DEF CallOK
        <5>5. regpage = Page[th[t].r]
          BY <5>3, <5>4, MaskedPage
        <5>6. QED
          BY <3>2, <3>3, <4>2, <5>2, <5>3, <5>5 DEF CallOK
      <4>3. QED
        BY <4>1, <4>2
    <3>7. QED
      BY <3>4, <3>5, <3>6
  <2>8. ASSUME th[t].pc \in {"access", "merge"}, UNCHANGED <<regpage, page>>,
               th' = [th EXCEPT ![t] = th'[t]],
               th'[t].pc = "done", th'[t].op = th[t].op, th'[t].r = th[t].r,
               \A q \in Regs : mem'[q] = mem[q] \/ q \in Uses[t]
        PROVE  PageSync' /\ \A u \in Threads : CallOK(u, th[u])'
    <3>1. \A u \in Threads \ {t} : th'[u] = th[u]
      BY <1>1, <2>8
    <3>2. \A u \in Threads \ {t} : CallOK(u, th[u])'
      BY <2>8, <3>1, Other
    <3>3. CallOK(t, th[t])'
      BY <2>1, <2>8 DEF CallOK
    <3>4. PageSync'
      BY <1>1, <2>8, <3>1 DEF PageSync
    <3>5. QED
      BY <3>2, <3>3, <3>4
  <2>9. CASE access_read(t)
    <3>1. PICK value : th' = [th EXCEPT ![t].pc = "done", ![t].v = value]
      BY <2>9 DEF access_read
    <3>2. th'[t] = [th[t] EXCEPT !.pc = "done", !.v = value]
          /\ th' = [th EXCEPT ![t] = th'[t]]
      BY <1>1, <3>1
    <3>3. th'[t].pc = "done" /\ th'[t].op = th[t].op /\ th'[t].r = th[t].r
      BY <2>1, <3>2 DEF Call
    <3>4. QED
      BY <2>8, <2>9, <3>2, <3>3 DEF access_read
  <2>10. CASE access_write(t) \/ modify_write(t)
    <3>1. th' = [th EXCEPT ![t] = th'[t]]
      BY <1>1, <2>10 DEF access_write, modify_write
    <3>2. th'[t].pc = "done" /\ th'[t].op = th[t].op /\ th'[t].r = th[t].r
      BY <1>1, <2>1, <2>10 DEF access_write, modify_write, Call
    <3>3. mem' = [mem EXCEPT ![th[t].r] = th[t].v] /\ th[t].r \in Uses[t]
          /\ th[t].pc \in {"access", "merge"}
      BY <2>1, <2>10, WriteOne, HitOwn DEF access_write, modify_write, CallOK
    <3>4. \A q \in Regs : mem'[q] = mem[q] \/ q \in Uses[t]
      BY <1>1, <3>3 DEF TypeOK
    <3>5. QED
      BY <2>8, <2>10, <3>1, <3>2, <3>3, <3>4 DEF access_write, modify_write
  <2>11. CASE modify_read(t)
    <3>1. \A u \in Threads \ {t} : th'[u] = th[u]
      BY <1>1, <2>11 DEF modify_read
    <3>2. th'[t] = [th[t] EXCEPT !.pc = "merge", !.buf = mem]
      BY <1>1, <2>11 DEF modify_read
    <3>3. th'[t].pc = "merge" /\ th'[t].op = th[t].op /\ th'[t].r = th[t].r
          /\ th'[t].buf = mem
      BY <2>1, <3>2 DEF Call
    <3>4. \A u \in Threads \ {t} : CallOK(u, th[u])'
      BY <2>11, <3>1, Other DEF modify_read
    <3>5. CallOK(t, th[t])'
      BY <2>1, <2>11, <3>3 DEF modify_read, CallOK
    <3>6. PageSync'
      BY <1>1, <2>11, <3>1 DEF modify_read, PageSync
    <3>7. QED
      BY <3>4, <3>5, <3>6
  <2>12. CASE reg_return(t)
    <3>1. \A u \in Threads \ {t} : th'[u] = th[u]
      BY <1>1, <2>12 DEF reg_return
    <3>2. th'[t] = NoCall
      BY <1>1, <2>12 DEF reg_return
    <3>3. \A u \in Threads \ {t} : CallOK(u, th[u])'
      BY <2>12, <3>1, Other DEF reg_return
    <3>4. CallOK(t, th[t])'
      BY <3>2 DEF CallOK, NoCall
    <3>5. PageSync'
      BY <1>1, <2>12, <3>1 DEF reg_return, PageSync
    <3>6. QED
      BY <3>3, <3>4, <3>5
  <2>13. QED
    BY <1>4, <2>3, <2>4, <2>5, <2>6, <2>7, <2>9, <2>10, <2>11, <2>12 DEF Access, Transfer
<1>5. CASE UNCHANGED vars
  BY <1>5 DEF vars, RegInv, PageSync, CallOK
<1>6. QED
  BY <1>2, <1>3, <1>4, <1>5 DEF Next

(* Every transfer meant for a paged register finds the chip on its page,   *)
(* for any register table and any number of threads of which one at most   *)
(* uses paged registers.                                                   *)
THEOREM PageCorrect ==
  ASSUME Partitioned, ~SpiFails
  PROVE  Spec => []RightPage
<1>1. RegInv => RightPage
  BY DEF RegInv, RightPage, CallOK
<1>2. RegInv /\ [Next]_vars => RegInv'
  BY InvStep
<1>3. QED
  BY <1>1, <1>2, InvInit, PTL DEF Spec

-----------------------------------------------------------------------------
(* The layer implements the abstract register file.                        *)

absCall == [t \in Threads |-> AbsCall(th[t])]

(* A step that changes thread t only.                                      *)
LEMMA AbsOne ==
  ASSUME TypeOK, NEW t \in Threads, NEW c, th' = [th EXCEPT ![t] = c]
  PROVE  absCall' = [absCall EXCEPT ![t] = AbsCall(c)]
BY DEF absCall, TypeOK

LEMMA RefInit == Init => RF!Init
<1> SUFFICES ASSUME Init PROVE RF!Init
  OBVIOUS
<1>1. AbsCall(NoCall) = RF!NoCall
  BY DEF AbsCall, AbsPc, NoCall, RF!NoCall
<1>2. QED
  BY <1>1 DEF Init, RF!Init

LEMMA RefStep ==
  ASSUME Partitioned, ~SpiFails
  PROVE  RegInv /\ [Next]_vars => [RF!Next]_(RF!vars)
<1> USE RegAssumption
<1> SUFFICES ASSUME RegInv, [Next]_vars
             PROVE  RF!Next \/ (mem' = mem /\ absCall' = absCall)
  BY DEF RF!vars, absCall
<1>1. TypeOK /\ th \in [Threads -> Call] /\ mem \in [Regs -> Cell]
  BY DEF RegInv, TypeOK
<1>2. AbsCall(NoCall) = RF!NoCall
  BY DEF AbsCall, AbsPc, NoCall, RF!NoCall
<1>3. CASE Control
  <2>1. th' = th /\ absCall' = absCall
    BY <1>3 DEF Control, lgw_connect, lgw_connect_only, lgw_disconnect, lgw_soft_reset, absCall
  <2>2. CASE lgw_soft_reset
    <3>1. absCall = [t \in Threads |-> RF!NoCall]
      BY <1>2, <2>2 DEF lgw_soft_reset, Quiet, absCall
    <3>2. mem' = [r \in Regs |-> 0]
      BY <2>2 DEF lgw_soft_reset
    <3>3. RF!Reset
      BY <2>1, <3>1, <3>2 DEF RF!Reset, absCall
    <3>4. QED
      BY <3>3 DEF RF!Next
  <2>3. CASE ~lgw_soft_reset
    BY <1>3, <2>1, <2>3 DEF Control, lgw_connect, lgw_connect_only, lgw_disconnect
  <2>4. QED
    BY <2>2, <2>3
<1>4. CASE Killed
  <2>1. absCall' = [t \in Threads |-> RF!NoCall]
    BY <1>2, <1>4 DEF Killed, absCall
  <2>2. RF!Killed
    BY <1>4, <2>1 DEF Killed, RF!Killed, absCall
  <2>3. QED
    BY <2>2 DEF RF!Next
<1>5. ASSUME NEW t \in Threads, Access(t)
      PROVE  RF!Next \/ (mem' = mem /\ absCall' = absCall)
  <2>1. th[t] \in Call /\ CallOK(t, th[t])
    BY <1>1 DEF RegInv
  <2>2. absCall \in [Threads -> {AbsCall(c) : c \in Call}] /\ absCall[t] = AbsCall(th[t])
    BY <1>1 DEF absCall
  <2>3. ASSUME NEW c, th' = [th EXCEPT ![t] = c], AbsCall(c) = AbsCall(th[t]), mem' = mem
        PROVE  RF!Next \/ (mem' = mem /\ absCall' = absCall)
    <3>1. absCall' = [absCall EXCEPT ![t] = AbsCall(c)]
      BY <1>1, <2>3, AbsOne
    <3>2. absCall[t] = AbsCall(c)
      BY <2>2, <2>3
    <3>3. absCall' = absCall
      BY <3>1, <3>2 DEF absCall
    <3>4. QED
      BY <2>3, <3>3
  <2>4. ASSUME NEW r \in Uses[t], NEW op \in {"r", "w"}, NEW v \in Nat,
               op = "r" => v = 0, op = "w" => v \in Values /\ r \notin ReadOnly,
               th[t].pc = "idle", Begin(t, op, r, v), mem' = mem
        PROVE  RF!Next \/ (mem' = mem /\ absCall' = absCall)
    <3> DEFINE c == [pc |-> IF NeedsSwitch(r) THEN "switch" ELSE "access", op |-> op, r |-> r,
                     page |-> IF NeedsSwitch(r) THEN Page[r] ELSE 0, v |-> v, buf |-> NoBuf]
    <3>1. AbsCall(c) = [pc |-> "busy", op |-> op, r |-> r, v |-> v]
      BY DEF AbsCall, AbsPc
    <3>2. th' = [th EXCEPT ![t] = c]
      BY <2>4 DEF Begin
    <3> HIDE DEF c
    <3>3. absCall' = [absCall EXCEPT ![t] = [pc |-> "busy", op |-> op, r |-> r, v |-> v]]
      BY <1>1, <3>1, <3>2, AbsOne
    <3>4. absCall[t].pc = "idle"
      BY <2>2, <2>4 DEF AbsCall, AbsPc
    <3>5. RF!Call(t)
      BY <2>4, <3>3, <3>4 DEF RF!Call, absCall
    <3>6. QED
      BY <3>5 DEF RF!Next
  <2>5. CASE \E r \in Uses[t] : lgw_reg_r(t, r)
    BY <2>4, <2>5 DEF lgw_reg_r
  <2>6. CASE \E r \in Uses[t], v \in Values : lgw_reg_w(t, r, v)
    BY <2>4, <2>6 DEF lgw_reg_w
  <2>7. CASE \E p \in 0 .. 2 * PageMask - 1 : lgw_reg_w_page(t, p)
    <3>1. PICK p \in 0 .. 2 * PageMask - 1 : lgw_reg_w_page(t, p)
      BY <2>7
    <3> DEFINE c == [pc |-> "switch", op |-> "p", r |-> NoReg, page |-> p, v |-> 0,
                     buf |-> NoBuf]
    <3>2. th' = [th EXCEPT ![t] = c] /\ mem' = mem /\ th[t].pc = "idle"
      BY <3>1 DEF lgw_reg_w_page
    <3>3. AbsCall(c) = AbsCall(NoCall)
      BY DEF AbsCall, AbsPc, NoCall
    <3>4. th[t] = NoCall
      BY <2>1, <3>2 DEF CallOK
    <3> HIDE DEF c
    <3>5. QED
      BY <2>3, <3>2, <3>3, <3>4
  <2>8. CASE page_switch_assign(t)
    <3> DEFINE c == [th[t] EXCEPT !.pc = "select"]
    <3>1. th' = [th EXCEPT ![t] = c] /\ mem' = mem /\ th[t].pc = "switch"
      BY <1>1, <2>8 DEF page_switch_assign
    <3>2. AbsCall(c) = AbsCall(th[t])
      BY <2>1, <3>1 DEF AbsCall, AbsPc, Call
    <3> HIDE DEF c
    <3>3. QED
      BY <2>3, <3>1, <3>2
  <2>9. CASE page_switch_write(t)
    <3>1. mem' = mem /\ th[t].pc = "select"
      BY <2>9 DEF page_switch_write
    <3>2. CASE th[t].op = "p"
      <4>1. th' = [th EXCEPT ![t] = NoCall]
        BY <2>9, <3>2 DEF page_switch_write
      <4>2. AbsCall(th[t]).pc = "idle" /\ AbsCall(th[t]).op = "r"
        BY <3>2 DEF AbsCall
      <4>3. AbsCall(th[t]) = [pc |-> "idle", op |-> "r", r |-> th[t].r, v |-> th[t].v]
        BY <3>2 DEF AbsCall
      <4>4. th[t].r = NoReg /\ th[t].v = 0
        BY <2>1, <3>2 DEF CallOK
      <4>5. QED
        BY <2>3, <3>1, <4>1, <4>3, <4>4, <1>2 DEF RF!NoCall
    <3>3. CASE th[t].op # "p"
      <4> DEFINE c == [th[t] EXCEPT !.pc = "access"]
      <4>1. th' = [th EXCEPT ![t] = c]
        BY <1>1, <2>9, <3>3 DEF page_switch_write
      <4>2. AbsCall(c) = AbsCall(th[t])
        BY <2>1, <3>1 DEF AbsCall, AbsPc, Call
      <4> HIDE DEF c
      <4>3. QED
        BY <2>3, <3>1, <4>1, <4>2
    <3>4. QED
      BY <3>2, <3>3
  <2>10. CASE access_read(t)
    <3>1. th[t].pc = "access" /\ th[t].op = "r" /\ mem' = mem
      BY <2>10 DEF access_read
    <3>2. th[t].r \in Hit(th[t].r)
      BY <3>1, HitOwn DEF SameByte
    <3> DEFINE c == [th[t] EXCEPT !.pc = "done", !.v = mem[th[t].r]]
    <3>3. th' = [th EXCEPT ![t] = c]
      BY <1>1, <2>10, <3>2 DEF access_read
    <3>4. AbsCall(c) = [pc |-> "done", op |-> "r", r |-> th[t].r, v |-> mem[th[t].r]]
      BY <2>1, <3>1 DEF AbsCall, AbsPc, Call
    <3> HIDE DEF c
    <3>5. absCall' = [absCall EXCEPT ![t] = [pc |-> "done", op |-> "r", r |-> th[t].r,
                                             v |-> mem[th[t].r]]]
      BY <1>1, <3>3, <3>4, AbsOne
    <3>6. absCall[t] = [pc |-> "busy", op |-> "r", r |-> th[t].r, v |-> th[t].v]
      BY <2>2, <3>1 DEF AbsCall, AbsPc
    <3>7. RF!Read(t)
      <4>1. RF!Done(absCall[t], mem[absCall[t].r])
              = [pc |-> "done", op |-> "r", r |-> th[t].r, v |-> mem[th[t].r]]
        BY <3>6 DEF RF!Done
      <4>2. absCall' = [absCall EXCEPT ![t] = RF!Done(absCall[t], mem[absCall[t].r])]
        BY <3>5, <4>1
      <4>3. QED
        BY <3>1, <3>6, <4>2 DEF RF!Read, absCall
    <3>8. QED
      BY <3>7 DEF RF!Next
  <2>11. CASE access_write(t) \/ modify_write(t)
    <3>1. mem' = [mem EXCEPT ![th[t].r] = th[t].v]
      BY <2>11, WriteOne
    <3>2. th[t].pc \in {"access", "merge"} /\ th[t].op = "w"
      BY <2>1, <2>11 DEF access_write, modify_write, CallOK
    <3>3. absCall[t] = [pc |-> "busy", op |-> "w", r |-> th[t].r, v |-> th[t].v]
      BY <2>2, <3>2 DEF AbsCall, AbsPc
    <3>4. ASSUME NEW c, th' = [th EXCEPT ![t] = c],
                 c.pc = "done", c.op = "w", c.r = th[t].r, c.v = th[t].v
          PROVE  RF!Write(t)
      <4>1. AbsCall(c) = [pc |-> "done", op |-> "w", r |-> th[t].r, v |-> th[t].v]
        BY <3>4 DEF AbsCall, AbsPc
      <4>2. absCall' = [absCall EXCEPT ![t] = [pc |-> "done", op |-> "w", r |-> th[t].r,
                                               v |-> th[t].v]]
        BY <1>1, <3>4, <4>1, AbsOne
      <4>3. RF!Done(absCall[t], absCall[t].v)
              = [pc |-> "done", op |-> "w", r |-> th[t].r, v |-> th[t].v]
        BY <3>3 DEF RF!Done
      <4>4. absCall' = [absCall EXCEPT ![t] = RF!Done(absCall[t], absCall[t].v)]
        BY <4>2, <4>3
      <4>5. QED
        <5>1. absCall[t].pc = "busy" /\ absCall[t].op = "w"
          BY <3>3
        <5>2. mem' = [mem EXCEPT ![absCall[t].r] = absCall[t].v]
          BY <3>1, <3>3
        <5>3. QED
          BY <4>4, <5>1, <5>2 DEF RF!Write, absCall
    <3>5. CASE access_write(t)
      <4> DEFINE c == [th[t] EXCEPT !.pc = "done"]
      <4>1. th' = [th EXCEPT ![t] = c]
        BY <1>1, <3>5 DEF access_write
      <4>2. c.pc = "done" /\ c.op = "w" /\ c.r = th[t].r /\ c.v = th[t].v
        BY <2>1, <3>2 DEF Call
      <4> HIDE DEF c
      <4>3. QED
        BY <3>4, <4>1, <4>2 DEF RF!Next
    <3>6. CASE modify_write(t)
      <4> DEFINE c == [th[t] EXCEPT !.pc = "done", !.buf = NoBuf]
      <4>1. th' = [th EXCEPT ![t] = c]
        BY <1>1, <3>6 DEF modify_write
      <4>2. c.pc = "done" /\ c.op = "w" /\ c.r = th[t].r /\ c.v = th[t].v
        BY <2>1, <3>2 DEF Call
      <4> HIDE DEF c
      <4>3. QED
        BY <3>4, <4>1, <4>2 DEF RF!Next
    <3>7. QED
      BY <2>11, <3>5, <3>6
  <2>12. CASE modify_read(t)
    <3> DEFINE c == [th[t] EXCEPT !.pc = "merge", !.buf = mem]
    <3>1. th' = [th EXCEPT ![t] = c] /\ mem' = mem /\ th[t].pc = "access"
      BY <1>1, <2>12 DEF modify_read
    <3>2. AbsCall(c) = AbsCall(th[t])
      BY <2>1, <3>1 DEF AbsCall, AbsPc, Call
    <3> HIDE DEF c
    <3>3. QED
      BY <2>3, <3>1, <3>2
  <2>13. CASE reg_return(t)
    <3>1. th' = [th EXCEPT ![t] = NoCall] /\ mem' = mem /\ th[t].pc = "done"
      BY <2>13 DEF reg_return
    <3>2. th[t].op # "p"
      BY <2>1, <3>1 DEF CallOK
    <3>3. absCall' = [absCall EXCEPT ![t] = RF!NoCall]
      BY <1>1, <1>2, <3>1, AbsOne
    <3>4. absCall[t].pc = "done"
      BY <2>2, <3>1, <3>2 DEF AbsCall, AbsPc
    <3>5. RF!Return(t)
      BY <3>1, <3>3, <3>4 DEF RF!Return, absCall
    <3>6. QED
      BY <3>5 DEF RF!Next
  <2>14. QED
    BY <1>5, <2>5, <2>6, <2>7, <2>8, <2>9, <2>10, <2>11, <2>12, <2>13 DEF Access, Transfer
<1>6. CASE UNCHANGED vars
  BY <1>6 DEF vars, absCall
<1>7. QED
  BY <1>3, <1>4, <1>5, <1>6 DEF Next

(* However the transfers of several threads interleave, register calls     *)
(* behave as if each took effect at one moment.                            *)
THEOREM Linearizable ==
  ASSUME Partitioned, ~SpiFails
  PROVE  Spec => Atomic
<1>1. RegInv /\ [Next]_vars => RegInv'
  BY InvStep
<1>2. RegInv /\ [Next]_vars => [RF!Next]_(RF!vars)
  BY RefStep
<1>3. QED
  BY <1>1, <1>2, InvInit, RefInit, PTL DEF Spec, Atomic, RF!Spec
=============================================================================
