------------------------------ MODULE RegFile ------------------------------
(***************************************************************************)
(* What the register layer (Gateway/libloragw/src/loragw_reg.c) promises   *)
(* the HAL: a register is read and written as a whole, at one moment       *)
(* between the call and the return, whatever the other threads do.         *)
(***************************************************************************)
EXTENDS Integers

CONSTANTS Threads, Regs, Uses, ReadOnly, Values, Default

VARIABLES
  reg,   \* the value of each register
  call   \* per thread: the call in progress

vars == <<reg, call>>

NoCall == [pc |-> "idle", op |-> "r", r |-> Default, v |-> 0]

Init ==
  /\ reg = [r \in Regs |-> 0]
  /\ call = [t \in Threads |-> NoCall]

Call(t) ==
  /\ call[t].pc = "idle"
  /\ \E r \in Uses[t] :
       \/ call' = [call EXCEPT ![t] = [pc |-> "busy", op |-> "r", r |-> r, v |-> 0]]
       \/ /\ r \notin ReadOnly
          /\ \E v \in Values :
               call' = [call EXCEPT ![t] = [pc |-> "busy", op |-> "w", r |-> r, v |-> v]]
  /\ UNCHANGED reg

Done(c, v) == [pc |-> "done", op |-> c.op, r |-> c.r, v |-> v]

Read(t) ==
  /\ call[t].pc = "busy" /\ call[t].op = "r"
  /\ call' = [call EXCEPT ![t] = Done(call[t], reg[call[t].r])]
  /\ UNCHANGED reg

Write(t) ==
  /\ call[t].pc = "busy" /\ call[t].op = "w"
  /\ call' = [call EXCEPT ![t] = Done(call[t], call[t].v)]
  /\ reg' = [reg EXCEPT ![call[t].r] = call[t].v]

Return(t) ==
  /\ call[t].pc = "done"
  /\ call' = [call EXCEPT ![t] = NoCall]
  /\ UNCHANGED reg

(* lgw_soft_reset, when nobody else is using the registers. *)
Reset ==
  /\ call = [t \in Threads |-> NoCall]
  /\ reg' = [r \in Regs |-> 0]
  /\ UNCHANGED call

(* The program is killed and started again. *)
Killed ==
  /\ call' = [t \in Threads |-> NoCall]
  /\ UNCHANGED reg

Next ==
  \/ \E t \in Threads : Call(t) \/ Read(t) \/ Write(t) \/ Return(t)
  \/ Reset
  \/ Killed

Spec == Init /\ [][Next]_vars
=============================================================================
