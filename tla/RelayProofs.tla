---------------------------- MODULE RelayProofs ----------------------------
(***************************************************************************)
(* The relay reports a node at most once for each message that node sent,  *)
(* but for fetches that were not one whole message; for any number of      *)
(* messages and commands and any receive buffer.                           *)
(***************************************************************************)
EXTENDS Relay, SequenceTheorems, FiniteSetTheorems, TLAPS

-----------------------------------------------------------------------------
(* Messages and what is left of a buffer. *)

LEMMA MessageType ==
  ASSUME NEW n \in Node
  PROVE  /\ Message(n) \in Seq(Byte)
         /\ Len(Message(n)) = 4
         /\ Message(n)[1] = "B" /\ Message(n)[2] = Tag(n)
         /\ Message(n)[3] = "B" /\ Message(n)[4] = "C"
         /\ Tag(n) \in Byte
<1>1. Tag(n) \in Byte
  BY DEF Tag, Byte
<1> DEFINE a == <<"B", Tag(n)>>
           c == <<"B", "C">>
<1>2. Message(n) = a \o c
  BY DEF Message, Node, Tag, address_uart_1, address_uart_2
<1>3. /\ a \in Seq(Byte) /\ Len(a) = 2 /\ a[1] = "B" /\ a[2] = Tag(n)
      /\ c \in Seq(Byte) /\ Len(c) = 2 /\ c[1] = "B" /\ c[2] = "C"
  BY <1>1 DEF Byte
<1> HIDE DEF a, c
<1>4. /\ a \o c \in Seq(Byte) /\ Len(a \o c) = 4
      /\ \A i \in 1 .. 4 : (a \o c)[i] = IF i <= 2 THEN a[i] ELSE c[i - 2]
  BY <1>3, ConcatProperties
<1>5. (a \o c)[1] = a[1] /\ (a \o c)[2] = a[2] /\ (a \o c)[3] = c[1] /\ (a \o c)[4] = c[2]
  BY <1>4
<1>6. QED
  BY <1>1, <1>2, <1>3, <1>4, <1>5

LEMMA Suffix ==
  ASSUME NEW s \in Seq(Byte), NEW k \in 0 .. Len(s)
  PROVE  /\ SubSeq(s, k + 1, Len(s)) \in Seq(Byte)
         /\ Len(SubSeq(s, k + 1, Len(s))) = Len(s) - k
         /\ \A i \in 1 .. Len(s) - k : SubSeq(s, k + 1, Len(s))[i] = s[i + k]
<1>1. Len(s) \in Nat /\ \A i \in k + 1 .. Len(s) : s[i] \in Byte
  OBVIOUS
<1>2. QED
  BY <1>1, SubSeqProperties

(* A whole message is understood. *)
LEMMA MessageSender ==
  ASSUME NEW n \in Node
  PROVE  Sender(Message(n)) = n
<1>1. CASE n = 1
  <2>1. Flag1(Message(1)) /\ ~Flag2(Message(1))
    BY MessageType DEF Flag1, Flag2, Tag, Node, address_uart_1, address_uart_2
  <2>2. QED
    BY <1>1, <2>1 DEF Sender
<1>2. CASE n = 2
  <2>1. ~Flag1(Message(2)) /\ Flag2(Message(2))
    BY MessageType DEF Flag1, Flag2, Tag, Node, address_uart_1, address_uart_2
  <2>2. QED
    BY <1>2, <2>1 DEF Sender
<1>3. QED
  BY <1>1, <1>2 DEF Node

LEMMA SecondByte ==
  ASSUME NEW data, Flag1(data)
  PROVE  data[2] = "1"
<1>1. 2 \in 1 .. 2
  OBVIOUS
<1>2. data[2] = address_uart_1[2]
  BY <1>1, Zenon DEF Flag1
<1>3. QED
  BY <1>2 DEF address_uart_1

LEMMA SenderType ==
  ASSUME NEW data
  PROVE  Sender(data) \in Node \cup {0}
BY DEF Sender, Node

-----------------------------------------------------------------------------
(* Counting bytes. *)

LEMMA CountType ==
  ASSUME NEW s \in Seq(Byte), NEW b
  PROVE  IsFiniteSet(Places(s, b)) /\ Count(s, b) \in Nat
<1>1. DOMAIN s = 1 .. Len(s) /\ Len(s) \in Int
  OBVIOUS
<1>2. IsFiniteSet(DOMAIN s)
  BY <1>1, FS_Interval
<1>3. Places(s, b) \in SUBSET DOMAIN s
  BY DEF Places
<1>4. IsFiniteSet(Places(s, b))
  BY <1>2, <1>3, FS_Subset
<1>5. QED
  BY <1>4, FS_CardinalityType DEF Count

LEMMA CountAppend ==
  ASSUME NEW s \in Seq(Byte), NEW e \in Byte, NEW b
  PROVE  Count(Append(s, e), b) = IF e = b THEN Count(s, b) + 1 ELSE Count(s, b)
<1>1. /\ Len(s) \in Nat /\ DOMAIN s = 1 .. Len(s) /\ DOMAIN Append(s, e) = 1 .. Len(s) + 1
      /\ Append(s, e)[Len(s) + 1] = e
      /\ \A i \in 1 .. Len(s) : Append(s, e)[i] = s[i]
  BY AppendProperties
<1>2. IsFiniteSet(Places(s, b)) /\ Len(s) + 1 \notin Places(s, b)
  <2>1. IsFiniteSet(Places(s, b))
    BY CountType
  <2>2. Len(s) + 1 \notin DOMAIN s
    BY <1>1
  <2>3. QED
    BY <2>1, <2>2 DEF Places
<1>3. CASE e = b
  <2>1. Places(Append(s, e), b) = Places(s, b) \cup {Len(s) + 1}
    BY <1>1, <1>3 DEF Places
  <2>2. QED
    BY <1>2, <1>3, <2>1, FS_AddElement DEF Count
<1>4. CASE e # b
  <2>1. Places(Append(s, e), b) = Places(s, b)
    BY <1>1, <1>4 DEF Places
  <2>2. QED
    BY <1>4, <2>1 DEF Count
<1>5. QED
  BY <1>3, <1>4

(* The places of a suffix are places of the whole, moved. *)
LEMMA CountSuffix ==
  ASSUME NEW s \in Seq(Byte), NEW k \in 0 .. Len(s), NEW b
  PROVE  /\ Count(SubSeq(s, k + 1, Len(s)), b) <= Count(s, b)
         /\ \A j \in 1 .. k : s[j] = b => Count(SubSeq(s, k + 1, Len(s)), b) + 1 <= Count(s, b)
<1> DEFINE t == SubSeq(s, k + 1, Len(s))
           A == Places(s, b)
           B == Places(t, b)
<1>1. /\ t \in Seq(Byte) /\ DOMAIN t = 1 .. Len(s) - k
      /\ \A i \in 1 .. Len(s) - k : t[i] = s[i + k]
      /\ Len(s) \in Nat /\ DOMAIN s = 1 .. Len(s)
  BY Suffix
<1> HIDE DEF t
<1>2. IsFiniteSet(A) /\ Cardinality(A) = Count(s, b) /\ Count(s, b) \in Nat
  BY CountType DEF Count
<1>3. IsFiniteSet(B) /\ Cardinality(B) = Count(t, b) /\ Count(t, b) \in Nat
  BY <1>1, CountType DEF Count
<1>4. ASSUME NEW C, C \subseteq A, \A i \in A : i > k => i \in C
      PROVE  Cardinality(B) <= Cardinality(C)
  <2> DEFINE move == [i \in B |-> i + k]
  <2>1. \A i \in B : i + k \in C
    BY <1>1, <1>4 DEF Places
  <2>2. move \in [B -> C]
    BY <2>1
  <2>3. \A i, j \in B : move[i] = move[j] => i = j
    BY <1>1 DEF Places
  <2>4. move \in Injection(B, C)
    BY <2>2, <2>3 DEF Injection, IsInjective
  <2>5. IsFiniteSet(C)
    BY <1>2, <1>4, FS_Subset
  <2>6. QED
    BY <2>4, <2>5, FS_Injection
<1>5. Count(t, b) <= Count(s, b)
  BY <1>2, <1>3, <1>4
<1>6. ASSUME NEW j \in 1 .. k, s[j] = b
      PROVE  Count(t, b) + 1 <= Count(s, b)
  <2>1. j \in A
    BY <1>1, <1>6 DEF Places
  <2>2. Cardinality(A \ {j}) = Cardinality(A) - 1
    BY <1>2, <2>1, FS_RemoveElement
  <2>3. A \ {j} \subseteq A /\ \A i \in A : i > k => i \in A \ {j}
    BY <1>1
  <2>4. Cardinality(B) <= Cardinality(A \ {j})
    BY <1>4, <2>3
  <2>5. QED
    BY <1>2, <1>3, <2>2, <2>4
<1>7. QED
  BY <1>5, <1>6 DEF t

LEMMA CountTail ==
  ASSUME NEW s \in Seq(Byte), s # <<>>, NEW b
  PROVE  /\ Count(Tail(s), b) <= Count(s, b)
         /\ Head(s) = b => Count(Tail(s), b) + 1 <= Count(s, b)
<1>1. Tail(s) = SubSeq(s, 2, Len(s))
  BY TailIsSubSeq
<1>2. Head(s) = s[1] /\ 1 \in 0 .. Len(s) /\ 1 \in 1 .. 1 /\ 1 + 1 = 2
  OBVIOUS
<1>3. QED
  BY <1>1, <1>2, CountSuffix

LEMMA FourMore ==
  ASSUME NEW s \in Seq(Byte), NEW msg \in Seq(Byte), NEW all \in Seq(Byte),
         Len(msg) = 4, Len(all) = Len(s) + 4,
         \A i \in 1 .. Len(s) : all[i] = s[i],
         all[Len(s) + 1] = msg[1], all[Len(s) + 2] = msg[2],
         all[Len(s) + 3] = msg[3], all[Len(s) + 4] = msg[4]
  PROVE  s \o msg = all
<1>1. Len(s) \in Nat
  OBVIOUS
<1>2. s \o msg \in Seq(Byte) /\ Len(s \o msg) = Len(s) + 4
  <2>1. s \o msg \in Seq(Byte) /\ Len(s \o msg) = Len(s) + Len(msg)
    BY ConcatProperties, Zenon
  <2>2. QED
    BY <2>1
<1>3. \A i \in 1 .. Len(s) + Len(msg) : (s \o msg)[i] = IF i <= Len(s) THEN s[i] ELSE msg[i - Len(s)]
  BY ConcatProperties, Zenon
<1>4. ASSUME NEW i \in 1 .. Len(s) + 4
      PROVE  (s \o msg)[i] = all[i]
  <2>1. i \in 1 .. Len(s) + Len(msg) /\ i \in Nat
    OBVIOUS
  <2>2. (s \o msg)[i] = IF i <= Len(s) THEN s[i] ELSE msg[i - Len(s)]
    BY <1>3, <2>1
  <2>3. CASE i <= Len(s)
    BY <2>1, <2>2, <2>3
  <2>4. CASE ~(i <= Len(s))
    <3>1. PICK j \in 1 .. 4 : i = Len(s) + j
      <4>1. i - Len(s) \in 1 .. 4 /\ i = Len(s) + (i - Len(s))
        BY <1>1, <2>1, <2>4
      <4>2. QED
        BY <4>1
    <3>2. i - Len(s) = j
      BY <1>1, <3>1
    <3>3. (s \o msg)[i] = msg[j]
      BY <2>2, <2>4, <3>2
    <3>4. j = 1 \/ j = 2 \/ j = 3 \/ j = 4
      OBVIOUS
    <3>5. QED
      BY <3>1, <3>3, <3>4
  <2>5. QED
    BY <2>3, <2>4
<1>5. QED
  BY <1>2, <1>4, SeqEqual

(* A message holds the address byte of its node once and of no other.      *)
LEMMA CountMessage ==
  ASSUME NEW s \in Seq(Byte), NEW n \in Node, NEW m \in Node
  PROVE  Count(s \o Message(n), Tag(m)) = IF n = m THEN Count(s, Tag(m)) + 1 ELSE Count(s, Tag(m))
<1> DEFINE s1 == Append(s, "B")
           s2 == Append(s1, Tag(n))
           s3 == Append(s2, "B")
           s4 == Append(s3, "C")
<1>1. "B" \in Byte /\ "C" \in Byte /\ Tag(n) \in Byte
  BY DEF Byte, Tag
<1>2. Tag(m) # "B" /\ Tag(m) # "C" /\ (Tag(n) = Tag(m) <=> n = m)
  BY DEF Tag, Node
<1>3. /\ s1 \in Seq(Byte) /\ Len(s1) = Len(s) + 1 /\ s1[Len(s) + 1] = "B"
      /\ \A i \in 1 .. Len(s) : s1[i] = s[i]
      /\ Count(s1, Tag(m)) = Count(s, Tag(m))
  BY <1>1, <1>2, AppendProperties, CountAppend
<1> HIDE DEF s1
<1>4. /\ s2 \in Seq(Byte) /\ Len(s2) = Len(s1) + 1 /\ s2[Len(s1) + 1] = Tag(n)
      /\ \A i \in 1 .. Len(s1) : s2[i] = s1[i]
      /\ Count(s2, Tag(m)) = IF Tag(n) = Tag(m) THEN Count(s1, Tag(m)) + 1 ELSE Count(s1, Tag(m))
  BY <1>1, <1>3, AppendProperties, CountAppend
<1> HIDE DEF s2
<1>5. /\ s3 \in Seq(Byte) /\ Len(s3) = Len(s2) + 1 /\ s3[Len(s2) + 1] = "B"
      /\ \A i \in 1 .. Len(s2) : s3[i] = s2[i]
      /\ Count(s3, Tag(m)) = Count(s2, Tag(m))
  BY <1>1, <1>2, <1>4, AppendProperties, CountAppend
<1> HIDE DEF s3
<1>6. /\ s4 \in Seq(Byte) /\ Len(s4) = Len(s3) + 1 /\ s4[Len(s3) + 1] = "C"
      /\ \A i \in 1 .. Len(s3) : s4[i] = s3[i]
      /\ Count(s4, Tag(m)) = Count(s3, Tag(m))
  BY <1>1, <1>2, <1>5, AppendProperties, CountAppend
<1> HIDE DEF s4
<1>7. s \o Message(n) = s4
  <2>1. /\ Len(s) \in Nat /\ Len(s1) = Len(s) + 1 /\ Len(s2) = Len(s) + 2
        /\ Len(s3) = Len(s) + 3 /\ Len(s4) = Len(s) + 4
    BY <1>3, <1>4, <1>5, <1>6
  <2>2. ASSUME NEW i \in 1 .. Len(s)
        PROVE  s4[i] = s[i]
    <3>1. s1[i] = s[i] /\ s2[i] = s1[i]
      BY <1>3, <1>4, <2>1
    <3>2. s3[i] = s2[i] /\ s4[i] = s3[i]
      BY <1>5, <1>6, <2>1
    <3>3. QED
      BY <3>1, <3>2
  <2>3. s4[Len(s) + 1] = "B" /\ s4[Len(s) + 2] = Tag(n) /\ s4[Len(s) + 3] = "B" /\ s4[Len(s) + 4] = "C"
    <3> DEFINE l == Len(s)
    <3>1. s1[l + 1] = "B" /\ s2[l + 1] = s1[l + 1] /\ s3[l + 1] = s2[l + 1] /\ s4[l + 1] = s3[l + 1]
      BY <1>3, <1>4, <1>5, <1>6, <2>1
    <3>2. s2[l + 2] = Tag(n) /\ s3[l + 2] = s2[l + 2] /\ s4[l + 2] = s3[l + 2]
      <4>1. s2[l + 2] = Tag(n)
        <5>1. Len(s1) + 1 = l + 2
          BY <2>1
        <5>2. QED
          BY <1>4, <5>1
      <4>2. s3[l + 2] = s2[l + 2] /\ s4[l + 2] = s3[l + 2]
        BY <1>5, <1>6, <2>1
      <4>3. QED
        BY <4>1, <4>2
    <3>3. s3[l + 3] = "B" /\ s4[l + 3] = s3[l + 3]
      <4>1. Len(s2) + 1 = l + 3 /\ l + 3 \in 1 .. Len(s3)
        BY <2>1
      <4>2. QED
        BY <1>5, <1>6, <4>1
    <3>4. s4[l + 4] = "C"
      <4>1. Len(s3) + 1 = l + 4
        BY <2>1
      <4>2. QED
        BY <1>6, <4>1
    <3>5. QED
      BY <3>1, <3>2, <3>3, <3>4
  <2>4. /\ Message(n) \in Seq(Byte) /\ Len(Message(n)) = 4
        /\ s4[Len(s) + 1] = Message(n)[1] /\ s4[Len(s) + 2] = Message(n)[2]
        /\ s4[Len(s) + 3] = Message(n)[3] /\ s4[Len(s) + 4] = Message(n)[4]
    BY <2>3, MessageType
  <2>5. s4 \in Seq(Byte) /\ Len(s4) = Len(s) + 4
    BY <1>6, <2>1
  <2>6. QED
    BY <2>2, <2>4, <2>5, FourMore, Zenon
<1>8. QED
  BY <1>2, <1>3, <1>4, <1>5, <1>6, <1>7

-----------------------------------------------------------------------------
(* The type invariant. *)

LEMMA TypeInit == Init => TypeOK
<1> SUFFICES ASSUME Init
             PROVE  TypeOK
  OBVIOUS
<1> USE RelayAssumption DEF Init
<1>1. out \in Seq(Byte) /\ serial \in Seq(Byte) /\ Len(serial) <= Capacity
  BY DEF Byte
<1>2. pc \in {"listen", "fetch"} \cup TransferPcs /\ from \in Node \cup {0}
  BY DEF Node
<1>3. data_len \in Nat /\ data_len <= Len(serial) /\ commands \in 0 .. MaxCommands
  OBVIOUS
<1>4. radio \in {"rx", "standby", "tx"} /\ done \in BOOLEAN
  OBVIOUS
<1>5. ss \in {"high", "low", "lost", "tail", "latched"} /\ lost \subseteq TransferPcs
  OBVIOUS
<1>6. /\ sent \in [Node -> 0 .. MaxSends] /\ reported \in [Node -> Nat]
      /\ odd \in Nat /\ lone \in Nat
  BY DEF Node
<1>7. (pc = "fetch") = (data_len > 0)
  OBVIOUS
<1>8. (pc \in {"idle", "begin", "standby", "txmode"}) = (from \in Node)
  BY DEF Node
<1>9. QED
  BY <1>1, <1>2, <1>3, <1>4, <1>5, <1>6, <1>7, <1>8, Zenon DEF TypeOK

LEMMA TypeWorld ==
  ASSUME TypeOK, (\E n \in Node : timerIsr(n)) \/ ByteArrives \/ onReceive \/ Transmitted
  PROVE  TypeOK'
<1> USE RelayAssumption
<1>1. ASSUME NEW n \in Node, timerIsr(n)
      PROVE  TypeOK'
  <2>1. out' \in Seq(Byte)
    <3>1. out \in Seq(Byte) /\ Message(n) \in Seq(Byte) /\ out' \in {out, out \o Message(n)}
      BY <1>1, MessageType DEF timerIsr, TypeOK
    <3>2. out \o Message(n) \in Seq(Byte)
      BY <3>1, ConcatProperties, Zenon
    <3>3. QED
      BY <3>1, <3>2
  <2>2. sent[n] + 1 \in 0 .. MaxSends
    BY <1>1 DEF timerIsr, TypeOK, Node
  <2>3. sent' \in [Node -> 0 .. MaxSends]
    BY <1>1, <2>2 DEF timerIsr, TypeOK
  <2>4. QED
    BY <1>1, <2>1, <2>3 DEF timerIsr, loopVars, radioVars, TypeOK
<1>2. CASE Transmitted
  BY <1>2 DEF Transmitted, loopVars, TypeOK
<1>3. CASE ByteArrives
  <2>1. out \in Seq(Byte) /\ serial \in Seq(Byte) /\ out # <<>>
    BY <1>3 DEF ByteArrives, TypeOK
  <2>2. Head(out) \in Byte /\ Tail(out) \in Seq(Byte)
    BY <2>1, HeadTailProperties
  <2>3. /\ Append(serial, Head(out)) \in Seq(Byte)
        /\ Len(Append(serial, Head(out))) = Len(serial) + 1
    BY <2>1, <2>2, AppendProperties
  <2>4. Len(serial) \in Nat /\ Len(serial) <= Capacity /\ data_len \in Nat /\ data_len <= Len(serial)
    BY DEF TypeOK
  <2>5. serial' \in Seq(Byte) /\ Len(serial') <= Capacity /\ data_len <= Len(serial')
    <3>1. CASE Len(serial) < Capacity
      BY <1>3, <2>3, <2>4, <3>1 DEF ByteArrives
    <3>2. CASE ~(Len(serial) < Capacity)
      BY <1>3, <2>1, <2>4, <3>2 DEF ByteArrives
    <3>3. QED
      BY <3>1, <3>2
  <2>6. QED
    BY <1>3, <2>2, <2>5 DEF ByteArrives, loopVars, radioVars, TypeOK
<1>4. CASE onReceive
  <2>1. out' \in Seq(Byte)
    BY <1>4, Suffix DEF onReceive, TypeOK
  <2>2. commands' \in 0 .. MaxCommands
    BY <1>4 DEF onReceive, TypeOK
  <2>3. ss' \in {"high", "low", "lost", "tail", "latched"} /\ done' \in BOOLEAN
    BY <1>4 DEF onReceive, TypeOK
  <2>4. QED
    BY <1>4, <2>1, <2>2, <2>3 DEF onReceive, loopVars, TypeOK
<1>5. QED
  BY <1>1, <1>2, <1>3, <1>4

(* What every transfer of loop() leaves. *)
LEMMA TransferType ==
  ASSUME TypeOK, NEW p \in TransferPcs, NEW next, Transfer(p, next)
  PROVE  /\ pc = p /\ pc' \in next /\ data_len = 0 /\ data_len' = 0
         /\ ss' \in {"high", "low", "lost", "tail", "latched"} /\ lost' \subseteq TransferPcs
         /\ UNCHANGED <<out, serial, odd, lone, commands, sent>>
<1>1. pc = p /\ pc # "fetch"
  BY DEF Transfer, TransferPcs
<1>2. data_len = 0
  <2>1. (pc = "fetch") = (data_len > 0) /\ data_len \in Nat
    BY DEF TypeOK
  <2>2. QED
    BY <1>1, <2>1
<1>3. lost' \subseteq TransferPcs
  BY DEF Transfer, TypeOK
<1>4. QED
  BY <1>1, <1>2, <1>3 DEF Transfer

LEMMA ModeType ==
  ASSUME TypeOK, NEW m \in {"rx", "standby", "tx"}, ModeWritten(m)
  PROVE  radio' \in {"rx", "standby", "tx"}
BY DEF ModeWritten, TypeOK

(* A transfer that stays in the report of a node, and one that leaves it.  *)
LEMMA ReportType ==
  ASSUME TypeOK, NEW p \in TransferPcs, NEW next, Transfer(p, next),
         radio' \in {"rx", "standby", "tx"}, done' \in BOOLEAN,
         reported' \in [Node -> Nat],
         \/ from' = from /\ from \in Node /\ next \subseteq {"begin", "standby", "txmode"}
         \/ from' = 0 /\ next \subseteq {"poll", "receive", "listen"}
  PROVE  TypeOK'
<1>1. /\ pc' \in next /\ data_len' = 0
      /\ ss' \in {"high", "low", "lost", "tail", "latched"} /\ lost' \subseteq TransferPcs
      /\ UNCHANGED <<out, serial, odd, lone, commands, sent>>
  BY TransferType
<1>2. /\ pc' \in {"listen", "fetch"} \cup TransferPcs /\ pc' # "fetch"
      /\ (pc' \in {"idle", "begin", "standby", "txmode"}) = (from' \in Node)
      /\ from' \in Node \cup {0}
  BY <1>1 DEF TransferPcs, Node
<1>3. /\ data_len' \in Nat /\ data_len' <= Len(serial') /\ (pc' = "fetch") = (data_len' > 0)
  <2>1. data_len' = 0 /\ serial' = serial /\ Len(serial) \in Nat /\ pc' # "fetch"
    BY <1>1, <1>2 DEF TypeOK
  <2>2. QED
    BY <2>1
<1>4. QED
  BY <1>1, <1>2, <1>3 DEF TypeOK

LEMMA TypeReport ==
  ASSUME TypeOK, report
  PROVE  TypeOK'
<1>0. /\ "idle" \in TransferPcs /\ "begin" \in TransferPcs /\ "standby" \in TransferPcs
      /\ "txmode" \in TransferPcs /\ "poll" \in TransferPcs /\ "receive" \in TransferPcs
  BY DEF TransferPcs
<1>1. pc \in {"idle", "begin", "standby", "txmode"} => from \in Node
  BY DEF TypeOK
<1>2. pc \in {"poll", "receive"} => from = 0
  BY DEF TypeOK, Node
<1>3. reported \in [Node -> Nat] /\ radio \in {"rx", "standby", "tx"} /\ done \in BOOLEAN
  BY DEF TypeOK
<1>4. CASE Select \/ Deselect
  BY <1>4 DEF Select, Deselect, loopVars, TypeOK
<1>5. CASE idle
  <2>1. Transfer("idle", {"begin"}) /\ pc = "idle" /\ UNCHANGED <<from, reported, done>>
        /\ radio' \in {"rx", "standby", "tx"}
    BY <1>5, ModeType DEF idle, Transfer
  <2>2. QED
    BY <1>0, <1>1, <1>3, <2>1, ReportType
<1>6. CASE isTransmitting
  <2>1. PICK next \in SUBSET {"standby", "txmode"} :
          Transfer("begin", next) /\ pc = "begin" /\ UNCHANGED <<from, reported, radio>>
    <3>1. (IF Reached THEN {IF radio = "tx" THEN "txmode" ELSE "standby"} ELSE {"standby", "txmode"})
            \in SUBSET {"standby", "txmode"}
      OBVIOUS
    <3>2. QED
      BY <1>6, <3>1 DEF isTransmitting, Transfer
  <2>2. done' \in BOOLEAN
    <3>1. CASE Reached
      BY <1>6, <3>1, Zenon DEF isTransmitting
    <3>2. CASE ~Reached
      BY <1>3, <1>6, <3>2 DEF isTransmitting
    <3>3. QED
      BY <3>1, <3>2
  <2>3. next \subseteq {"begin", "standby", "txmode"}
    BY <2>1
  <2>4. QED
    BY <1>0, <1>1, <1>3, <2>1, <2>2, <2>3, ReportType
<1>7. CASE beginPacket_idle
  <2>1. Transfer("standby", {"txmode"}) /\ pc = "standby" /\ UNCHANGED <<from, reported, done>>
        /\ radio' \in {"rx", "standby", "tx"}
    BY <1>7, ModeType DEF beginPacket_idle, Transfer
  <2>2. QED
    BY <1>0, <1>1, <1>3, <2>1, ReportType
<1>8. CASE SPILoRaSendPackets
  <2>1. Transfer("txmode", {"poll"}) /\ pc = "txmode" /\ from' = 0 /\ UNCHANGED done
        /\ radio' \in {"rx", "standby", "tx"}
    BY <1>8, ModeType DEF SPILoRaSendPackets, Transfer
  <2>2. reported' \in [Node -> Nat]
    <3>1. from \in Node /\ reported[from] + Copies \in Nat
      BY <1>1, <1>3, <2>1 DEF Copies
    <3>2. QED
      BY <1>3, <1>8, <3>1 DEF SPILoRaSendPackets
  <2>3. QED
    BY <1>0, <1>3, <2>1, <2>2, ReportType
<1>9. CASE endPacket_poll
  <2>1. PICK next \in SUBSET {"poll", "receive"} :
          Transfer("poll", next) /\ pc = "poll" /\ UNCHANGED <<from, reported, radio>>
    <3>1. (IF Reached THEN {IF done THEN "receive" ELSE "poll"} ELSE {"poll", "receive"})
            \in SUBSET {"poll", "receive"}
      OBVIOUS
    <3>2. QED
      BY <1>9, <3>1 DEF endPacket_poll, Transfer
  <2>2. done' \in BOOLEAN
    BY <1>3, <1>9 DEF endPacket_poll
  <2>3. next \subseteq {"poll", "receive", "listen"} /\ from' = 0
    BY <1>2, <2>1
  <2>4. QED
    BY <1>0, <1>3, <2>1, <2>2, <2>3, ReportType
<1>10. CASE receive
  <2>1. Transfer("receive", {"listen"}) /\ pc = "receive" /\ UNCHANGED <<from, reported, done>>
        /\ radio' \in {"rx", "standby", "tx"}
    BY <1>10, ModeType DEF receive, Transfer, RadioAfter
  <2>2. QED
    BY <1>0, <1>2, <1>3, <2>1, ReportType
<1>11. QED
  BY <1>4, <1>5, <1>6, <1>7, <1>8, <1>9, <1>10 DEF report

LEMMA TypeLoop ==
  ASSUME TypeOK, loop
  PROVE  TypeOK'
<1>1. CASE e32Listen
  <2>1. Len(serial) \in Nat /\ Len(serial) > 0
    BY <1>1 DEF e32Listen, TypeOK
  <2>2. QED
    BY <1>1, <2>1 DEF e32Listen, radioVars, TransferPcs, Node, TypeOK
<1>2. CASE e32Fetch
  <2>1. from' \in Node \cup {0} /\ pc' = (IF from' = 0 THEN "listen" ELSE "idle")
    BY <1>2, SenderType DEF e32Fetch
  <2>2. data_len \in 0 .. Len(serial) /\ Len(serial) \in Nat /\ Len(serial) <= Capacity
    BY DEF TypeOK
  <2>3. serial' \in Seq(Byte) /\ Len(serial') = Len(serial) - data_len
    BY <1>2, <2>2, Suffix DEF e32Fetch, Remaining, TypeOK
  <2>4. Len(serial') <= Capacity /\ 0 <= Len(serial')
    BY <2>2, <2>3, RelayAssumption
  <2>5. odd' \in Nat /\ lone' \in Nat /\ data_len' = 0
    BY <1>2 DEF e32Fetch, LengthAfter, TypeOK
  <2>6. 0 \notin Node
    BY DEF Node
  <2>7. pc' \in {"listen", "idle"} /\ (pc' = "idle") = (from' \in Node)
        /\ pc' \in {"listen", "fetch"} \cup TransferPcs
    BY <2>1, <2>6 DEF TransferPcs
  <2>8. /\ UNCHANGED <<out, radio, done, ss, reported, commands, sent>> /\ pc = "fetch"
        /\ lost' \subseteq TransferPcs
    BY <1>2 DEF e32Fetch
  <2>9. QED
    BY <2>1, <2>3, <2>4, <2>5, <2>7, <2>8 DEF TypeOK
<1>3. QED
  BY <1>1, <1>2, TypeReport DEF loop

LEMMA TypeStep == TypeOK /\ [Next]_vars => TypeOK'
<1>1. TypeOK /\ UNCHANGED vars => TypeOK'
  BY DEF vars, loopVars, radioVars, TypeOK
<1>2. QED
  BY <1>1, TypeWorld, TypeLoop DEF Next

(* Every variable of the relay keeps its type: the bytes counted before a  *)
(* fetch are still there, and a report is always one of a node.            *)
THEOREM TypeCorrect == Spec => []TypeOK
  BY TypeInit, TypeStep, PTL DEF Spec

-----------------------------------------------------------------------------
(* Reports and messages.  Every step keeps the balance: what a node sent   *)
(* is on its way, in the buffer, or reported; what was lost only helps.    *)

LEMMA HeldType ==
  ASSUME TypeOK, NEW n \in Node
  PROVE  /\ Due(n) \in Nat /\ sent[n] \in Nat
         /\ Count(out, Tag(n)) \in Nat /\ Count(serial, Tag(n)) \in Nat
BY CountType DEF TypeOK, Due

(* Nothing is reported that was not held before.                           *)
LEMMA Kept ==
  ASSUME TypeOK, TypeOK', Balance, UNCHANGED <<odd, lone>>,
         \A n \in Node : sent'[n] >= sent[n] /\ Held(n)' - sent'[n] <= Held(n) - sent[n]
  PROVE  Balance'
<1>1. 1 \in Node
  BY DEF Node
<1>2. \A n \in Node : Held(n) \in Nat /\ sent[n] \in Nat
  BY HeldType DEF Held
<1>3. \A n \in Node : Held(n)' \in Nat /\ sent'[n] \in Nat
  <2>1. ASSUME NEW n \in Node
        PROVE  Due(n)' \in Nat /\ sent'[n] \in Nat
    <3>1. reported' \in [Node -> Nat] /\ sent' \in [Node -> 0 .. MaxSends]
      BY Zenon DEF TypeOK
    <3>2. reported'[n] \in Nat /\ sent'[n] \in Nat
      BY <3>1
    <3>3. QED
      BY <3>2 DEF Due
  <2>2. ASSUME NEW n \in Node
        PROVE  Count(out', Tag(n)) \in Nat /\ Count(serial', Tag(n)) \in Nat
    BY CountType DEF TypeOK
  <2>3. QED
    BY <2>1, <2>2 DEF Held
<1>4. odd \in Nat /\ lone \in Nat
  BY DEF TypeOK
<1>5. QED
  BY <1>1, <1>2, <1>3, <1>4 DEF Balance

LEMMA PaidWorld ==
  ASSUME TypeOK, TypeOK', Balance,
         (\E n \in Node : timerIsr(n)) \/ ByteArrives \/ onReceive \/ Transmitted
  PROVE  Balance'
<1>0. out \in Seq(Byte) /\ serial \in Seq(Byte)
  BY DEF TypeOK
<1>1. ASSUME NEW m \in Node, timerIsr(m)
      PROVE  Balance'
  <2>1. UNCHANGED <<serial, from, reported, odd, lone>>
    BY <1>1 DEF timerIsr, loopVars
  <2>2. ASSUME NEW n \in Node
        PROVE  sent'[n] >= sent[n] /\ Held(n)' - sent'[n] <= Held(n) - sent[n]
    <3>1. Due(n)' = Due(n) /\ Count(serial', Tag(n)) = Count(serial, Tag(n))
      BY <2>1 DEF Due
    <3>2. sent'[n] = IF n = m THEN sent[n] + 1 ELSE sent[n]
      BY <1>1 DEF timerIsr, TypeOK
    <3>3. \/ Count(out', Tag(n)) = Count(out, Tag(n))
          \/ Count(out', Tag(n)) = IF m = n THEN Count(out, Tag(n)) + 1 ELSE Count(out, Tag(n))
      <4>1. out' = out \/ out' = out \o Message(m)
        BY <1>1 DEF timerIsr
      <4>2. Count(out \o Message(m), Tag(n)) = IF m = n THEN Count(out, Tag(n)) + 1 ELSE Count(out, Tag(n))
        BY <1>0, CountMessage
      <4>3. QED
        BY <4>1, <4>2
    <3>4. QED
      BY <3>1, <3>2, <3>3, HeldType DEF Held
  <2>3. QED
    BY <2>1, <2>2, Kept
<1>2. CASE Transmitted
  <2>1. UNCHANGED <<out, serial, from, reported, odd, lone, sent>>
    BY <1>2 DEF Transmitted, loopVars
  <2>2. QED
    BY <2>1 DEF Balance, Held, Due
<1>3. CASE ByteArrives
  <2>1. UNCHANGED <<from, reported, odd, lone, sent>> /\ out # <<>> /\ out' = Tail(out)
    BY <1>3 DEF ByteArrives, loopVars
  <2>2. Head(out) \in Byte
    BY <1>0, <2>1, HeadTailProperties
  <2>3. ASSUME NEW n \in Node
        PROVE  sent'[n] >= sent[n] /\ Held(n)' - sent'[n] <= Held(n) - sent[n]
    <3>1. Due(n)' = Due(n)
      BY <2>1 DEF Due
    <3>2. /\ Count(Tail(out), Tag(n)) <= Count(out, Tag(n))
          /\ Head(out) = Tag(n) => Count(Tail(out), Tag(n)) + 1 <= Count(out, Tag(n))
      BY <1>0, <2>1, CountTail
    <3>3. \/ serial' = serial
          \/ serial' = Append(serial, Head(out))
      BY <1>3 DEF ByteArrives
    <3>4. Count(Append(serial, Head(out)), Tag(n))
            = IF Head(out) = Tag(n) THEN Count(serial, Tag(n)) + 1 ELSE Count(serial, Tag(n))
      BY <1>0, <2>2, CountAppend
    <3>5. Count(Tail(out), Tag(n)) \in Nat
      BY <1>0, <2>1, HeadTailProperties, CountType
    <3>6. Count(out, Tag(n)) \in Nat /\ Count(serial, Tag(n)) \in Nat /\ Due(n) \in Nat /\ sent[n] \in Nat
      BY HeldType
    <3>7. /\ Count(out', Tag(n)) + Count(serial', Tag(n)) <= Count(out, Tag(n)) + Count(serial, Tag(n))
          /\ Count(serial', Tag(n)) \in Nat
      <4>1. Count(out', Tag(n)) = Count(Tail(out), Tag(n))
        BY <2>1
      <4>2. CASE serial' = serial
        <5>1. Count(serial', Tag(n)) = Count(serial, Tag(n))
          BY <4>2
        <5>2. QED
          BY <3>2, <3>5, <3>6, <4>1, <5>1
      <4>3. CASE serial' = Append(serial, Head(out))
        <5>1. Count(serial', Tag(n)) = Count(Append(serial, Head(out)), Tag(n))
          BY <4>3
        <5>2. CASE Head(out) = Tag(n)
          BY <3>2, <3>4, <3>5, <3>6, <4>1, <5>1, <5>2
        <5>3. CASE Head(out) # Tag(n)
          BY <3>2, <3>4, <3>5, <3>6, <4>1, <5>1, <5>3
        <5>4. QED
          BY <5>2, <5>3
      <4>4. QED
        BY <3>3, <4>2, <4>3
    <3>8. QED
      BY <2>1, <3>1, <3>5, <3>6, <3>7 DEF Held
  <2>4. QED
    BY <2>1, <2>3, Kept
<1>4. CASE onReceive
  <2>1. UNCHANGED <<serial, from, reported, odd, lone, sent>>
    BY <1>4 DEF onReceive, loopVars
  <2>2. ASSUME NEW n \in Node
        PROVE  sent'[n] >= sent[n] /\ Held(n)' - sent'[n] <= Held(n) - sent[n]
    <3>1. Due(n)' = Due(n) /\ Count(serial', Tag(n)) = Count(serial, Tag(n))
      BY <2>1 DEF Due
    <3>2. Count(out', Tag(n)) <= Count(out, Tag(n))
      BY <1>0, <1>4, CountSuffix DEF onReceive
    <3>3. Count(out', Tag(n)) \in Nat
      BY CountType DEF TypeOK
    <3>4. QED
      BY <2>1, <3>1, <3>2, <3>3, HeldType DEF Held
  <2>3. QED
    BY <2>1, <2>2, Kept
<1>5. QED
  BY <1>1, <1>2, <1>3, <1>4

(* A fetch takes its bytes out of the buffer.  A whole message takes the   *)
(* address byte of the node it makes due; any other fetch is counted, and  *)
(* makes node 1 due only for its address byte unless it is a single byte.  *)
LEMMA PaidFetch ==
  ASSUME TypeOK, Balance, e32Fetch
  PROVE  Balance'
<1>1. /\ UNCHANGED <<out, reported, sent>> /\ pc = "fetch" /\ from = 0
      /\ data_len \in 0 .. Len(serial) /\ data_len > 0 /\ serial \in Seq(Byte)
      /\ serial' = SubSeq(serial, data_len + 1, Len(serial))
  BY DEF e32Fetch, Node, TypeOK, Remaining
<1> DEFINE left == SubSeq(serial, data_len + 1, Len(serial))
<1>2. \A n \in Node : Count(left, Tag(n)) \in Nat /\ Count(left, Tag(n)) <= Count(serial, Tag(n))
  <2>1. left \in Seq(Byte)
    BY <1>1, Suffix
  <2>2. QED
    BY <1>1, <2>1, CountType, CountSuffix
<1>3. \A n \in Node :
        /\ Due(n) = reported[n] /\ reported[n] \in Nat
        /\ Due(n)' = IF from' = n THEN Due(n) + 1 ELSE Due(n)
  BY <1>1 DEF Due, Node, TypeOK
<1>4. \A n \in Node :
        Held(n)' = (IF from' = n THEN Due(n) + 1 ELSE Due(n)) + Count(out, Tag(n)) + Count(left, Tag(n))
  BY <1>1, <1>3 DEF Held
<1>5. odd \in Nat /\ lone \in Nat /\ \A n \in Node : sent'[n] = sent[n]
  BY <1>1 DEF TypeOK
<1> HIDE DEF left
<1>6. ASSUME NEW n \in Node
      PROVE  Held(n)' <= sent'[n] + odd'
  <2>1. Held(n) <= sent[n] + odd /\ Held(n) = Due(n) + Count(out, Tag(n)) + Count(serial, Tag(n))
    BY DEF Balance, Held
  <2>2. CASE odd' = odd + 1
    BY <1>2, <1>4, <1>5, <2>1, <2>2, HeldType
  <2>3. CASE odd' = odd
    <3>1. PICK m \in Node : SubSeq(serial, 1, data_len) = Message(m)
      BY <1>5, <2>3 DEF e32Fetch
    <3>2. /\ Len(SubSeq(serial, 1, data_len)) = data_len
          /\ \A i \in 1 .. data_len : SubSeq(serial, 1, data_len)[i] = serial[i]
      BY <1>1
    <3>3. data_len = 4 /\ serial[2] = Tag(m)
      <4>1. Len(Message(m)) = 4 /\ Message(m)[2] = Tag(m)
        BY MessageType
      <4>2. data_len = 4
        BY <3>1, <3>2, <4>1
      <4>3. SubSeq(serial, 1, data_len)[2] = serial[2]
        BY <3>2, <4>2
      <4>4. QED
        BY <3>1, <4>1, <4>2, <4>3
    <3>4. from' = m
      BY <3>1, <3>3, MessageSender DEF e32Fetch, Fetched
    <3>5. Count(left, Tag(m)) + 1 <= Count(serial, Tag(m))
      BY <1>1, <3>3, CountSuffix DEF left
    <3>6. CASE n = m
      BY <1>2, <1>4, <1>5, <2>1, <2>3, <3>4, <3>5, <3>6, HeldType
    <3>7. CASE n # m
      BY <1>2, <1>4, <1>5, <2>1, <2>3, <3>4, <3>7, HeldType
    <3>8. QED
      BY <3>6, <3>7
  <2>4. odd' = odd \/ odd' = odd + 1
    BY DEF e32Fetch
  <2>5. QED
    BY <2>2, <2>3, <2>4
<1>7. Held(1)' <= sent'[1] + lone'
  <2>0. 1 \in Node
    BY DEF Node
  <2>1. Held(1) <= sent[1] + lone /\ Held(1) = Due(1) + Count(out, Tag(1)) + Count(serial, Tag(1))
    BY DEF Balance, Held
  <2>2. CASE data_len = 1
    <3>1. lone' = lone + 1
      BY <2>2 DEF e32Fetch
    <3>2. QED
      BY <1>2, <1>4, <1>5, <2>0, <2>1, <3>1, HeldType
  <2>3. CASE data_len # 1
    <3>1. data_len > 1 /\ lone' = lone
      BY <1>1, <2>3 DEF e32Fetch
    <3>2. CASE from' # 1
      BY <1>2, <1>4, <1>5, <2>0, <2>1, <3>1, <3>2, HeldType
    <3>3. CASE from' = 1
      <4>1. Sender(SubSeq(serial, 1, data_len)) = 1
        BY <3>1, <3>3 DEF e32Fetch, Fetched
      <4>2. Flag1(SubSeq(serial, 1, data_len))
        BY <4>1 DEF Sender
      <4>3. SubSeq(serial, 1, data_len)[2] = "1"
        BY <4>2, SecondByte, Zenon
      <4>4. serial[2] = Tag(1) /\ 2 \in 1 .. data_len
        BY <1>1, <3>1, <4>3 DEF Tag
      <4>5. Count(left, Tag(1)) + 1 <= Count(serial, Tag(1))
        BY <1>1, <4>4, CountSuffix DEF left
      <4>6. QED
        BY <1>2, <1>4, <1>5, <2>0, <2>1, <3>1, <3>3, <4>5, HeldType
    <3>4. QED
      BY <3>2, <3>3
  <2>4. QED
    BY <2>2, <2>3
<1>8. QED
  BY <1>6, <1>7 DEF Balance

LEMMA PaidLoop ==
  ASSUME TypeOK, Balance, loop
  PROVE  Balance'
<1>1. CASE UNCHANGED <<out, serial, from, reported, odd, lone, sent>>
  BY <1>1 DEF Balance, Held, Due
<1>2. CASE e32Listen \/ Select \/ Deselect \/ idle \/ isTransmitting \/ beginPacket_idle
           \/ endPacket_poll \/ receive
  BY <1>1, <1>2
  DEF e32Listen, Select, Deselect, idle, isTransmitting, beginPacket_idle, endPacket_poll,
      receive, Transfer, loopVars
<1>3. CASE SPILoRaSendPackets
  <2>1. /\ UNCHANGED <<out, serial, odd, lone, sent>>
        /\ from \in Node /\ from' = 0
        /\ reported' = reported \/ reported' = [reported EXCEPT ![from] = @ + 1]
        /\ reported \in [Node -> Nat]
    BY <1>3 DEF SPILoRaSendPackets, Transfer, Copies, TypeOK
  <2>2. ASSUME NEW n \in Node
        PROVE  sent'[n] >= sent[n] /\ Held(n)' - sent'[n] <= Held(n) - sent[n]
    <3>1. 0 # n
      BY DEF Node
    <3>2. Due(n)' <= Due(n) /\ Due(n)' \in Nat /\ Due(n) \in Nat
      BY <2>1, <3>1 DEF Due
    <3>3. QED
      BY <2>1, <3>2, HeldType DEF Held
  <2>3. TypeOK'
    BY TypeLoop
  <2>4. QED
    BY <2>1, <2>2, <2>3, Kept
<1>4. QED
  BY <1>2, <1>3, PaidFetch DEF loop, report

LEMMA PaidStep == PaidInv /\ [Next]_vars => PaidInv'
<1> SUFFICES ASSUME PaidInv, [Next]_vars
             PROVE  PaidInv'
  OBVIOUS
<1>1. TypeOK /\ Balance
  BY DEF PaidInv
<1>2. TypeOK'
  BY <1>1, TypeStep
<1>3. CASE UNCHANGED vars
  <2>1. UNCHANGED <<out, serial, from, reported, odd, lone, sent>>
    BY <1>3 DEF vars, loopVars, radioVars
  <2>2. QED
    BY <1>1, <1>2, <2>1 DEF PaidInv, Balance, Held, Due
<1>4. CASE Next
  <2>1. Balance'
    BY <1>1, <1>2, <1>4, PaidWorld, PaidLoop DEF Next
  <2>2. QED
    BY <1>2, <2>1 DEF PaidInv
<1>5. QED
  BY <1>3, <1>4

(* However messages are cut, joined or lost, no node is reported more      *)
(* often than it sent, but for fetches that were not one whole message,    *)
(* and node 1 only for fetches of a single byte.                           *)
THEOREM AttributionCorrect == Spec => []Attributed
<1>1. Init => PaidInv
  <2> SUFFICES ASSUME Init
               PROVE  PaidInv
    OBVIOUS
  <2>1. TypeOK
    BY TypeInit
  <2>2. \A n \in Node : Count(<<>>, Tag(n)) = 0
    <3>1. \A n \in Node : Places(<<>>, Tag(n)) = {}
      BY DEF Places
    <3>2. QED
      BY <3>1, FS_EmptySet DEF Count
  <2>3. 1 \in Node /\ 0 \notin Node
    BY DEF Node
  <2>4. QED
    BY <2>1, <2>2, <2>3 DEF Init, PaidInv, Balance, Held, Due
<1>2. PaidInv => Attributed
  <2> SUFFICES ASSUME PaidInv
               PROVE  Attributed
    OBVIOUS
  <2>1. TypeOK
    BY DEF PaidInv
  <2>2. 1 \in Node /\ odd \in Nat /\ lone \in Nat
    BY <2>1 DEF Node, TypeOK
  <2>3. \A n \in Node : Due(n) <= Held(n) /\ Due(n) \in Nat /\ Held(n) \in Nat /\ sent[n] \in Nat
    BY <2>1, HeldType DEF Held
  <2>4. QED
    BY <2>2, <2>3 DEF PaidInv, Balance, Attributed
<1>3. QED
  BY <1>1, <1>2, PaidStep, PTL DEF Spec
=============================================================================
