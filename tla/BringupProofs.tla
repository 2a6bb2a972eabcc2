--------------------------- MODULE BringupProofs ---------------------------
(* Starting the concentrator: for any files, boards, faults and number of  *)
(* attempts, what lgw_start reports as started is what the configuration   *)
(* says; and for any channel plan, packet and time, what listen before     *)
(* talk lets out was not last seen free too long ago.                      *)
EXTENDS Bringup, FiniteSetTheorems, SequenceTheorems, WellFoundedInduction, TLAPS

(* Induction on the numbers, for a set instead of a predicate: what is not *)
(* in it would have a smallest member.  PTL takes the two formulas of      *)
(* Smallest's first step as atoms.                                         *)
LEMMA Smallest ==
  ASSUME NEW T, T \subseteq Nat, T # {}
  PROVE  \E x \in T : \A y \in T : x <= y
<1> DEFINE R == OpToRel(<, Nat)
<1>1. IsWellFoundedOn(R, Nat)
  BY NatLessThanWellFounded, PTL
<1> HIDE DEF R
<1>2. PICK x \in T : \A y \in T : ~ (<<y, x>> \in R)
  BY <1>1, WFMin
<1>3. \A y \in T : ~(y < x)
  BY <1>2 DEF R, OpToRel
<1> QED BY <1>3

LEMMA SetInduction ==
  ASSUME NEW S, 0 \in S, \A n \in Nat : n \in S => n + 1 \in S
  PROVE  Nat \subseteq S
<1> DEFINE T == Nat \ S
<1>1. SUFFICES ASSUME T # {} PROVE FALSE
  OBVIOUS
<1>2. PICK x \in T : \A y \in T : x <= y
  BY <1>1, Smallest
<1>3. x \in Nat /\ x \notin S
  OBVIOUS
<1>4. x # 0 /\ x - 1 \in Nat
  BY <1>3
<1>5. x - 1 \in T
  <2>1. (x - 1) + 1 = x
    BY <1>3
  <2> QED BY <1>3, <1>4, <2>1
<1> QED BY <1>2, <1>3, <1>4, <1>5

-----------------------------------------------------------------------------
(* What the objects of a file do to the static configuration. *)

HalOk(h) ==
  /\ h \in Hals /\ Len(h.lut) \in 1 .. LutMax
  /\ h.ifc[Fsk].enable => h.fsk.bw \in FskBandwidths /\ h.fsk.dr \in FskDatarates
  /\ \A i \in DOMAIN h.lut : h.lut[i] # Abort

Conf == [enable : BOOLEAN, rf : Words, freq : Int, bw : Nat, dr : Nat]

LEMMA FskBandwidthType ==
  ASSUME NEW bw \in Nat
  PROVE  FskBandwidth(bw) \in FskBandwidths \cup {0}
<1> DEFINE wider == {w \in FskBandwidths : bw <= w}
<1>1. CASE wider = {}
  BY <1>1 DEF FskBandwidth
<1>2. CASE bw <= 500000
  <2>1. \E w \in wider : \A v \in wider : w <= v
    <3>1. CASE bw <= 7800
      <4>1. 7800 \in wider
        BY <3>1 DEF FskBandwidths
      <4> QED BY <4>1, <3>1 DEF FskBandwidths
    <3>2. CASE bw > 7800 /\ bw <= 15600
      <4>1. 15600 \in wider
        BY <3>2 DEF FskBandwidths
      <4> QED BY <4>1, <3>2 DEF FskBandwidths
    <3>3. CASE bw > 15600 /\ bw <= 31200
      <4>1. 31200 \in wider
        BY <3>3 DEF FskBandwidths
      <4> QED BY <4>1, <3>3 DEF FskBandwidths
    <3>4. CASE bw > 31200 /\ bw <= 62500
      <4>1. 62500 \in wider
        BY <3>4 DEF FskBandwidths
      <4> QED BY <4>1, <3>4 DEF FskBandwidths
    <3>5. CASE bw > 62500 /\ bw <= 125000
      <4>1. 125000 \in wider
        BY <3>5 DEF FskBandwidths
      <4> QED BY <4>1, <3>5 DEF FskBandwidths
    <3>6. CASE bw > 125000 /\ bw <= 250000
      <4>1. 250000 \in wider
        BY <3>6 DEF FskBandwidths
      <4> QED BY <4>1, <3>6 DEF FskBandwidths
    <3>7. CASE bw > 250000 /\ bw <= 500000
      <4>1. 500000 \in wider
        BY <3>7 DEF FskBandwidths
      <4> QED BY <4>1, <3>7 DEF FskBandwidths
    <3> QED BY <1>2, <3>1, <3>2, <3>3, <3>4, <3>5, <3>6, <3>7
  <2>2. (CHOOSE w \in wider : \A v \in wider : w <= v) \in wider
    BY <2>1
  <2> QED BY <2>2 DEF FskBandwidth
<1>3. CASE ~(bw <= 500000)
  <2>1. wider = {}
    BY <1>3 DEF FskBandwidths
  <2> QED BY <2>1 DEF FskBandwidth
<1> QED BY <1>2, <1>3

LEMMA ChanConfType ==
  ASSUME NEW o \in ChanObjects
  PROVE  /\ ChanConf(o) \in Conf
         /\ o.chain \notin Multi \cup {Std} => ChanConf(o).bw \in FskBandwidths \cup {0}
<1>1. o.chain \in Chains /\ o.conf \in Conf
  BY DEF ChanObjects, Conf
<1>2. CASE ~o.conf.enable
  BY <1>2, <1>1 DEF ChanConf, Conf, Words
<1>3. CASE o.conf.enable
  <2>1. FskBandwidth(o.conf.bw) \in FskBandwidths \cup {0}
    BY <1>1, FskBandwidthType DEF Conf
  <2>2. PICK bw : bw = IF o.chain \in Multi THEN 0
            ELSE IF o.chain = Std THEN IF o.conf.bw \in {125000, 250000, 500000} THEN o.conf.bw ELSE 0
            ELSE FskBandwidth(o.conf.bw)
    OBVIOUS
  <2>3. PICK dr : dr = IF o.chain \in Multi \/ (o.chain = Std /\ o.conf.dr \notin 7 .. 12) THEN 0 ELSE o.conf.dr
    OBVIOUS
  <2>4. bw \in Nat /\ (o.chain \notin Multi \cup {Std} => bw \in FskBandwidths \cup {0})
    BY <2>1, <2>2 DEF FskBandwidths
  <2>5. dr \in Nat
    BY <1>1, <2>3 DEF Conf
  <2>6. ChanConf(o) = [enable |-> TRUE, rf |-> o.conf.rf, freq |-> o.conf.freq, bw |-> bw, dr |-> dr]
    BY <1>3, <2>2, <2>3 DEF ChanConf
  <2>7. ChanConf(o) \in Conf
    BY <1>1, <2>4, <2>5, <2>6 DEF Conf
  <2> QED BY <2>4, <2>6, <2>7
<1> QED BY <1>1, <1>2, <1>3 DEF Conf

(* One part of the static configuration replaced.                          *)
LEMMA HalRecord ==
  ASSUME NEW h \in Hals
  PROVE  h = [public |-> h.public, clkout |-> h.clkout, lut |-> h.lut, rf |-> h.rf, ifc |-> h.ifc, std |-> h.std, fsk |-> h.fsk]
  BY DEF Hals

LEMMA HalFields ==
  ASSUME NEW h \in Hals
  PROVE  /\ h.public \in BOOLEAN /\ h.clkout \in Words /\ h.lut \in Seq(Words)
         /\ h.rf \in [RfChain -> RadioSettings] /\ h.ifc \in [Chains -> Chain]
         /\ h.std \in Demodulator /\ h.fsk \in Demodulator
  BY Zenon DEF Hals

LEMMA HalMember ==
  ASSUME NEW public \in BOOLEAN, NEW clkout \in Words, NEW lut \in Seq(Words), NEW rf \in [RfChain -> RadioSettings],
         NEW ifc \in [Chains -> Chain], NEW std \in Demodulator, NEW fsk \in Demodulator
  PROVE  [public |-> public, clkout |-> clkout, lut |-> lut, rf |-> rf, ifc |-> ifc, std |-> std, fsk |-> fsk] \in Hals
  BY Zenon DEF Hals

LEMMA HalUpdates ==
  ASSUME NEW h, h = [public |-> h.public, clkout |-> h.clkout, lut |-> h.lut, rf |-> h.rf, ifc |-> h.ifc, std |-> h.std, fsk |-> h.fsk], NEW x
  PROVE  
         /\ [h EXCEPT !.public = x] = [public |-> x, clkout |-> h.clkout, lut |-> h.lut, rf |-> h.rf, ifc |-> h.ifc, std |-> h.std, fsk |-> h.fsk]
         /\ [h EXCEPT !.clkout = x] = [public |-> h.public, clkout |-> x, lut |-> h.lut, rf |-> h.rf, ifc |-> h.ifc, std |-> h.std, fsk |-> h.fsk]
         /\ [h EXCEPT !.lut = x] = [public |-> h.public, clkout |-> h.clkout, lut |-> x, rf |-> h.rf, ifc |-> h.ifc, std |-> h.std, fsk |-> h.fsk]
         /\ [h EXCEPT !.rf = x] = [public |-> h.public, clkout |-> h.clkout, lut |-> h.lut, rf |-> x, ifc |-> h.ifc, std |-> h.std, fsk |-> h.fsk]
         /\ [h EXCEPT !.ifc = x] = [public |-> h.public, clkout |-> h.clkout, lut |-> h.lut, rf |-> h.rf, ifc |-> x, std |-> h.std, fsk |-> h.fsk]
         /\ [h EXCEPT !.std = x] = [public |-> h.public, clkout |-> h.clkout, lut |-> h.lut, rf |-> h.rf, ifc |-> h.ifc, std |-> x, fsk |-> h.fsk]
         /\ [h EXCEPT !.fsk = x] = [public |-> h.public, clkout |-> h.clkout, lut |-> h.lut, rf |-> h.rf, ifc |-> h.ifc, std |-> h.std, fsk |-> x]
  OBVIOUS

LEMMA BoardApplied ==
  ASSUME NEW h, HalOk(h), NEW o \in BoardObjects
  PROVE  HalOk(Applied(h, o)) /\ Applied(h, o).public = Public(o) /\ Accepts(o) = TRUE
<1>1. o.section = "board" /\ Public(o) \in BOOLEAN /\ o.clksrc \in Words
  BY DEF BoardObjects, Public
<1>2. h \in Hals
  BY DEF HalOk
<1>3. PICK h1 : h1 = [h EXCEPT !.public = Public(o)]
  OBVIOUS
<1>4. PICK h2 : h2 = [h1 EXCEPT !.clkout = o.clksrc]
  OBVIOUS
<1>5. Applied(h, o) = [h EXCEPT !.public = Public(o), !.clkout = o.clksrc]
  BY <1>1 DEF Applied
<1>6. Applied(h, o) = h2
  BY <1>3, <1>4, <1>5, Zenon
<1>7. h1 = [public |-> Public(o), clkout |-> h.clkout, lut |-> h.lut, rf |-> h.rf,
            ifc |-> h.ifc, std |-> h.std, fsk |-> h.fsk]
  BY <1>2, <1>3, HalRecord, HalUpdates
<1>8. h1 \in Hals
  BY <1>1, <1>2, <1>7, HalFields, HalMember, Zenon
<1>9. h2 = [public |-> Public(o), clkout |-> o.clksrc, lut |-> h.lut, rf |-> h.rf,
            ifc |-> h.ifc, std |-> h.std, fsk |-> h.fsk]
  <2>1. h2 = [public |-> h1.public, clkout |-> o.clksrc, lut |-> h1.lut, rf |-> h1.rf,
              ifc |-> h1.ifc, std |-> h1.std, fsk |-> h1.fsk]
    BY <1>4, <1>8, HalRecord, HalUpdates
  <2> QED BY <2>1, <1>7
<1>10. h2 \in Hals
  BY <1>1, <1>2, <1>9, HalFields, HalMember, Zenon
<1>11. HalOk(h2)
  BY <1>9, <1>10 DEF HalOk
<1>12. Accepts(o) = TRUE
  BY <1>1 DEF Accepts
<1> QED BY <1>6, <1>9, <1>11, <1>12

LEMMA LutApplied ==
  ASSUME NEW h, HalOk(h), NEW o \in LutObjects
  PROVE  HalOk(Applied(h, o)) /\ Applied(h, o).public = h.public
<1>1. /\ o.section = "tx_lut" /\ o.objects \in [0 .. LutMax - 1 -> Words \cup {NoEntry}]
      /\ \E i \in DOMAIN o.objects : o.objects[i] # NoEntry
  BY DEF LutObjects
<1>2. h \in Hals /\ LutMax \in Nat
  BY BringupAssumption DEF HalOk
<1>3. h.lut \in Seq(Words)
  BY <1>2, HalFields
<1> DEFINE new == TxLut(o.objects)
           entries == Entries(o.objects)
           n == Cardinality(entries)
<1>4. n \in 1 .. LutMax /\ entries \subseteq 0 .. LutMax - 1
  <2>1. IsFiniteSet(0 .. LutMax - 1) /\ Cardinality(0 .. LutMax - 1) = LutMax
    BY <1>2, FS_Interval
  <2>2. entries \subseteq 0 .. LutMax - 1 /\ entries # {}
    BY <1>1 DEF Entries
  <2>3. IsFiniteSet(entries) /\ n <= LutMax
    <3>1. IsFiniteSet(entries) /\ n <= Cardinality(0 .. LutMax - 1)
      BY <2>1, <2>2, FS_Subset, Zenon
    <3> QED BY <3>1, <2>1
  <2>4. n \in Nat /\ n # 0
    BY <2>2, <2>3, FS_CardinalityType, FS_EmptySet
  <2> HIDE DEF entries, n
  <2> QED BY <1>2, <2>2, <2>3, <2>4
<1>5. new = [i \in 1 .. n |-> IF i - 1 \in entries THEN o.objects[i - 1] ELSE 0]
  BY DEF TxLut
<1> HIDE DEF new, n
<1>6. \A i \in 1 .. n : new[i] \in Words
  <2>1. \A j \in entries : o.objects[j] \in Words
    BY <1>1 DEF Entries
  <2> HIDE DEF entries
  <2>2. 0 \in Words
    BY DEF Words
  <2> QED BY <1>5, <2>1, <2>2
<1> DEFINE lut == [i \in DOMAIN new |-> IF \A j \in 1 .. i : GoodGain(new[j]) THEN new[i]
                                        ELSE IF i \in DOMAIN h.lut THEN h.lut[i]
                                        ELSE IF i \in DOMAIN HalOff.lut THEN HalOff.lut[i] ELSE 0]
<1>7. DOMAIN lut = 1 .. n
  BY <1>5
<1>8. \A i \in 1 .. n : lut[i] \in Words /\ lut[i] # Abort
  <2> SUFFICES ASSUME NEW i \in 1 .. n PROVE lut[i] \in Words /\ lut[i] # Abort
    OBVIOUS
  <2>1. lut[i] = IF \A j \in 1 .. i : GoodGain(new[j]) THEN new[i]
                 ELSE IF i \in DOMAIN h.lut THEN h.lut[i]
                 ELSE IF i \in DOMAIN HalOff.lut THEN HalOff.lut[i] ELSE 0
    BY <1>7
  <2>2. CASE \A j \in 1 .. i : GoodGain(new[j])
    <3>1. i \in 1 .. i
      BY <1>4
    <3>2. GoodGain(new[i]) /\ new[i] \in Words
      BY <3>1, <2>2, <1>6
    <3>3. new[i] # Abort
      BY <3>2 DEF GoodGain, Words, Abort
    <3> QED BY <2>1, <2>2, <3>2, <3>3
  <2>3. CASE ~(\A j \in 1 .. i : GoodGain(new[j])) /\ i \in DOMAIN h.lut
    <3>1. h.lut[i] \in Words /\ h.lut[i] # Abort
      BY <2>3, <1>3, ElementOfSeq, LenProperties DEF HalOk
    <3> QED BY <2>1, <2>3, <3>1
  <2>4. CASE ~(\A j \in 1 .. i : GoodGain(new[j])) /\ i \notin DOMAIN h.lut
    <3>1. lut[i] = IF i \in DOMAIN HalOff.lut THEN HalOff.lut[i] ELSE 0
      BY <2>1, <2>4
    <3>2. i \in DOMAIN HalOff.lut => HalOff.lut[i] = 186 \/ HalOff.lut[i] = 254
      BY DEF HalOff
    <3>3. lut[i] \in {186, 254, 0}
      <4>1. CASE i \in DOMAIN HalOff.lut
        BY <3>1, <3>2, <4>1
      <4>2. CASE i \notin DOMAIN HalOff.lut
        BY <3>1, <4>2
      <4> QED BY <4>1, <4>2
    <3>4. \A g \in {186, 254, 0} : g \in Words /\ g # Abort
      BY DEF Words, Abort
    <3> QED BY <3>3, <3>4
  <2> QED BY <2>2, <2>3, <2>4
<1>9. Applied(h, o) = [h EXCEPT !.lut = lut]
  BY <1>1 DEF Applied, new
<1> HIDE DEF lut
<1>10. lut \in Seq(Words) /\ Len(lut) = n
  <2>1. n \in Nat
    BY <1>4
  <2>2. lut = [i \in 1 .. n |-> lut[i]]
    BY <1>7 DEF lut
  <2>3. \A i \in 1 .. n : lut[i] \in Words
    BY <1>8
  <2> QED BY <2>1, <2>2, <2>3, IsASeq, LenProperties
<1>11. Applied(h, o) = [public |-> h.public, clkout |-> h.clkout, lut |-> lut, rf |-> h.rf,
                        ifc |-> h.ifc, std |-> h.std, fsk |-> h.fsk]
  BY <1>2, <1>9, HalRecord, HalUpdates
<1>12. Applied(h, o) \in Hals
  <2>1. h.public \in BOOLEAN /\ h.clkout \in Words /\ h.rf \in [RfChain -> RadioSettings]
        /\ h.ifc \in [Chains -> Chain] /\ h.std \in Demodulator /\ h.fsk \in Demodulator
    BY <1>2, HalFields
  <2>2. lut \in Seq(Words)
    BY <1>10
  <2> QED BY <2>1, <2>2, <1>11, HalMember
<1>13. HalOk(Applied(h, o))
  BY <1>4, <1>7, <1>8, <1>10, <1>11, <1>12 DEF HalOk
<1> QED BY <1>11, <1>13

LEMMA RadioApplied ==
  ASSUME NEW h, HalOk(h), NEW o \in RadioObjects
  PROVE  HalOk(Applied(h, o)) /\ Applied(h, o).public = h.public
<1>1. /\ o.section = "radio" /\ o.chain \in RfChain
      /\ o.conf \in [enable : BOOLEAN, type : RadioTypes, freq : Nat, tx : BOOLEAN, notch : Nat]
  BY DEF RadioObjects
<1>2. h \in Hals
  BY DEF HalOk
<1>3. Applied(h, o) = IF Accepts(o) THEN [h EXCEPT !.rf[o.chain] = Stored(RadioConf(o.conf))] ELSE h
  BY <1>1 DEF Applied
<1>4. CASE ~Accepts(o)
  BY <1>3, <1>4
<1>5. CASE Accepts(o)
  <2> DEFINE conf == RadioConf(o.conf)
             stored == Stored(conf)
             rf == [h.rf EXCEPT ![o.chain] = stored]
  <2>1. /\ conf.enable \in BOOLEAN /\ conf.type \in RadioTypes /\ conf.freq \in Nat /\ conf.tx \in BOOLEAN
        /\ conf.notch \in Nat /\ (~conf.tx => conf.notch = 0)
        /\ conf = [enable |-> conf.enable, type |-> conf.type, freq |-> conf.freq, tx |-> conf.tx, notch |-> conf.notch]
    <3>1. CASE ~o.conf.enable
      <4>1. conf = RfOff
        BY <3>1 DEF RadioConf
      <4> QED BY <4>1 DEF RfOff, RadioTypes
    <3>2. CASE o.conf.enable /\ o.conf.tx
      <4>1. conf = o.conf
        BY <3>2 DEF RadioConf
      <4> QED BY <4>1, <3>2, <1>1
    <3>3. CASE o.conf.enable /\ ~o.conf.tx
      <4>1. conf = [o.conf EXCEPT !.notch = 0]
        BY <3>3 DEF RadioConf
      <4>2. conf = [enable |-> o.conf.enable, type |-> o.conf.type, freq |-> o.conf.freq, tx |-> o.conf.tx, notch |-> 0]
        BY <4>1, <1>1
      <4> QED BY <4>2, <1>1
    <3> QED BY <1>1, <3>1, <3>2, <3>3
  <2> HIDE DEF conf
  <2>2. stored \in RadioSettings
    <3>1. CASE conf.tx /\ conf.notch \notin NotchFreqs
      <4>1. stored = [conf EXCEPT !.notch = 0]
        BY <3>1 DEF Stored
      <4>2. stored = [enable |-> conf.enable, type |-> conf.type, freq |-> conf.freq, tx |-> conf.tx, notch |-> 0]
        BY <4>1, <2>1
      <4>3. 0 \in {0} \cup NotchFreqs
        OBVIOUS
      <4> QED BY <4>2, <4>3, <2>1 DEF RadioSettings
    <3>2. CASE ~(conf.tx /\ conf.notch \notin NotchFreqs)
      <4>1. stored = conf
        BY <3>2 DEF Stored
      <4>2. conf.notch \in {0} \cup NotchFreqs
        BY <3>2, <2>1
      <4> QED BY <4>1, <4>2, <2>1 DEF RadioSettings
    <3> QED BY <3>1, <3>2
  <2> HIDE DEF stored
  <2>3. h.rf \in [RfChain -> RadioSettings]
    BY <1>2, HalFields
  <2>4. rf \in [RfChain -> RadioSettings]
    BY <1>1, <2>2, <2>3
  <2>5. Applied(h, o) = [h EXCEPT !.rf = rf]
    BY <1>3, <1>5, Zenon DEF stored, conf
  <2> HIDE DEF rf
  <2>6. Applied(h, o) = [public |-> h.public, clkout |-> h.clkout, lut |-> h.lut, rf |-> rf,
                         ifc |-> h.ifc, std |-> h.std, fsk |-> h.fsk]
    BY <1>2, <2>5, HalRecord, HalUpdates
  <2>7. Applied(h, o) \in Hals
    BY <1>2, <2>4, <2>6, HalFields, HalMember
  <2>8. HalOk(Applied(h, o))
    BY <2>6, <2>7 DEF HalOk
  <2> QED BY <2>6, <2>8
<1> QED BY <1>4, <1>5

LEMMA ChanApplied ==
  ASSUME NEW h, HalOk(h), NEW o \in ChanObjects
  PROVE  HalOk(Applied(h, o)) /\ Applied(h, o).public = h.public
<1> DEFINE c == ChanConf(o)
           k == o.chain
           def == WithDefaults(k, c)
<1>1. o.section = "chan" /\ k \in Chains
  BY DEF ChanObjects
<1>2. c \in Conf /\ (k \notin Multi \cup {Std} => c.bw \in FskBandwidths \cup {0})
  BY ChanConfType
<1>3. h \in Hals
  BY DEF HalOk
<1>4. /\ h.ifc \in [Chains -> Chain] /\ h.std \in Demodulator /\ h.fsk \in Demodulator
      /\ h.public \in BOOLEAN /\ h.clkout \in Words /\ h.lut \in Seq(Words) /\ h.rf \in [RfChain -> RadioSettings]
  BY <1>3, HalFields
<1>5. Applied(h, o) = IF Accepts(o) THEN ChanStored(h, k, c) ELSE h
  BY <1>1 DEF Applied
<1>6. Accepts(o) = ChanAccepted(k, c)
  BY <1>1 DEF Accepts
<1> HIDE DEF c, k
<1>7. c.enable \in BOOLEAN /\ c.rf \in Words /\ c.freq \in Int /\ c.bw \in Nat /\ c.dr \in Nat
  BY <1>2 DEF Conf
<1>8. /\ def \in Demodulator
      /\ k = Fsk => def.bw \in FskBandwidths
  <2>1. k = Fsk => k \notin Multi \cup {Std}
    BY BringupAssumption DEF Fsk, Std
  <2>2. def = [bw |-> IF c.bw = 0 THEN (IF k \in Multi THEN 125000 ELSE 250000) ELSE c.bw,
               dr |-> IF c.dr = 0 THEN (IF k = Std THEN 9 ELSE 64000) ELSE c.dr]
    BY DEF WithDefaults
  <2>3. def.bw = (IF c.bw = 0 THEN (IF k \in Multi THEN 125000 ELSE 250000) ELSE c.bw)
    BY <2>2
  <2>4. def.bw \in Nat /\ def.dr \in Nat
    BY <2>2, <1>7
  <2>5. k = Fsk => def.bw \in FskBandwidths
    BY <2>1, <2>3, <1>2 DEF FskBandwidths
  <2> QED BY <2>2, <2>4, <2>5 DEF Demodulator
<1> HIDE DEF def
<1>9. CASE ~Accepts(o)
  BY <1>5, <1>9
<1>10. CASE Accepts(o) /\ ~c.enable
  <2> DEFINE ifc == [h.ifc EXCEPT ![k] = [enable |-> FALSE, rf |-> @.rf, freq |-> 0]]
  <2>1. [enable |-> FALSE, rf |-> h.ifc[k].rf, freq |-> 0] \in Chain
    <3>1. h.ifc[k] \in Chain
      BY <1>1, <1>4 DEF k
    <3> QED BY <3>1 DEF Chain
  <2>2. ifc \in [Chains -> Chain] /\ (ifc[Fsk].enable => h.ifc[Fsk].enable)
    <3>1. ifc \in [Chains -> Chain]
      BY <2>1, <1>4
    <3>2. Fsk \in Chains
      BY DEF Chains
    <3>3. CASE k = Fsk
      <4>1. ifc[Fsk].enable = FALSE
        BY <3>2, <3>3, <1>4
      <4> QED BY <3>1, <4>1
    <3>4. CASE k # Fsk
      <4>1. ifc[Fsk] = h.ifc[Fsk]
        BY <3>2, <3>4, <1>4
      <4> QED BY <3>1, <4>1
    <3> QED BY <3>3, <3>4
  <2>3. Applied(h, o) = [h EXCEPT !.ifc = ifc]
    BY <1>5, <1>10, Zenon DEF ChanStored
  <2> HIDE DEF ifc
  <2>4. Applied(h, o) = [public |-> h.public, clkout |-> h.clkout, lut |-> h.lut, rf |-> h.rf,
                         ifc |-> ifc, std |-> h.std, fsk |-> h.fsk]
    <3>1. h = [public |-> h.public, clkout |-> h.clkout, lut |-> h.lut, rf |-> h.rf,
               ifc |-> h.ifc, std |-> h.std, fsk |-> h.fsk]
      BY <1>3, HalRecord
    <3>2. [h EXCEPT !.ifc = ifc] = [public |-> h.public, clkout |-> h.clkout, lut |-> h.lut, rf |-> h.rf,
                                    ifc |-> ifc, std |-> h.std, fsk |-> h.fsk]
      BY <3>1, HalUpdates
    <3> QED BY <2>3, <3>2
  <2>5. Applied(h, o) \in Hals
    BY <1>4, <2>2, <2>4, HalMember
  <2>6. HalOk(Applied(h, o))
    BY <2>2, <2>4, <2>5 DEF HalOk
  <2> QED BY <2>4, <2>6
<1>11. CASE Accepts(o) /\ c.enable
  <2>1. c.rf \in RfChain /\ (k = Fsk => def.dr \in FskDatarates)
    BY <1>6, <1>11 DEF ChanAccepted, def
  <2> DEFINE new == [enable |-> TRUE, rf |-> c.rf, freq |-> c.freq]
             ifc == [h.ifc EXCEPT ![k] = new]
             std == IF k = Std THEN def ELSE h.std
             fsk == IF k = Fsk THEN def ELSE h.fsk
  <2>2. new \in Chain
    BY <1>7, <2>1 DEF Chain
  <2>3. ifc \in [Chains -> Chain] /\ std \in Demodulator /\ fsk \in Demodulator
    BY <1>4, <1>8, <2>2
  <2>4. ifc[Fsk].enable => fsk.bw \in FskBandwidths /\ fsk.dr \in FskDatarates
    <3>1. CASE k = Fsk
      BY <3>1, <1>8, <2>1
    <3>2. CASE k # Fsk
      <4>1. Fsk \in Chains
        BY DEF Chains
      <4>2. ifc[Fsk] = h.ifc[Fsk] /\ fsk = h.fsk
        BY <3>2, <4>1, <1>4
      <4> QED BY <4>2 DEF HalOk
    <3> QED BY <3>1, <3>2
  <2>5. PICK h1 : h1 = [h EXCEPT !.ifc = ifc]
    OBVIOUS
  <2>6. PICK h2 : h2 = [h1 EXCEPT !.std = std]
    OBVIOUS
  <2>7. PICK h3 : h3 = [h2 EXCEPT !.fsk = fsk]
    OBVIOUS
  <2>8. Applied(h, o) = [h EXCEPT !.ifc[k] = new, !.std = IF k = Std THEN def ELSE @, !.fsk = IF k = Fsk THEN def ELSE @]
    BY <1>5, <1>11 DEF ChanStored, def
  <2>9. h1 = [h EXCEPT !.ifc[k] = new]
    BY <2>5, Zenon DEF ifc
  <2> HIDE DEF new, ifc
  <2>10. h1 = [public |-> h.public, clkout |-> h.clkout, lut |-> h.lut, rf |-> h.rf,
               ifc |-> ifc, std |-> h.std, fsk |-> h.fsk]
    <3>1. h = [public |-> h.public, clkout |-> h.clkout, lut |-> h.lut, rf |-> h.rf,
               ifc |-> h.ifc, std |-> h.std, fsk |-> h.fsk]
      BY <1>3, HalRecord
    <3>2. [h EXCEPT !.ifc = ifc] = [public |-> h.public, clkout |-> h.clkout, lut |-> h.lut, rf |-> h.rf,
                                    ifc |-> ifc, std |-> h.std, fsk |-> h.fsk]
      BY <3>1, HalUpdates
    <3> QED BY <2>5, <3>2
  <2>11. h1.std = h.std /\ h1.fsk = h.fsk
    BY <2>10
  <2>12. h1 \in Hals
    BY <1>4, <2>3, <2>10, HalMember
  <2>13. h2 = [h1 EXCEPT !.std = IF k = Std THEN def ELSE @]
    BY <2>6, <2>11
  <2> HIDE DEF std
  <2>14. h2 = [public |-> h.public, clkout |-> h.clkout, lut |-> h.lut, rf |-> h.rf,
               ifc |-> ifc, std |-> std, fsk |-> h.fsk]
    <3>1. h2 = [public |-> h1.public, clkout |-> h1.clkout, lut |-> h1.lut, rf |-> h1.rf,
                ifc |-> h1.ifc, std |-> std, fsk |-> h1.fsk]
      BY <2>6, <2>12, HalRecord, HalUpdates
    <3> QED BY <3>1, <2>10
  <2>15. h2.fsk = h.fsk
    BY <2>14
  <2>16. h3 = [h2 EXCEPT !.fsk = IF k = Fsk THEN def ELSE @]
    BY <2>7, <2>15
  <2> HIDE DEF fsk
  <2>17. Applied(h, o) = h3
    <3>1. Applied(h, o) = [h1 EXCEPT !.std = IF k = Std THEN def ELSE @, !.fsk = IF k = Fsk THEN def ELSE @]
      BY <2>8, <2>9, Zenon
    <3>2. Applied(h, o) = [h2 EXCEPT !.fsk = IF k = Fsk THEN def ELSE @]
      BY <3>1, <2>13, Zenon
    <3> QED BY <3>2, <2>16, Zenon
  <2>18. h2 \in Hals
    BY <1>4, <2>3, <2>14, HalMember
  <2>19. h3 = [public |-> h.public, clkout |-> h.clkout, lut |-> h.lut, rf |-> h.rf,
               ifc |-> ifc, std |-> std, fsk |-> fsk]
    <3>1. h3 = [public |-> h2.public, clkout |-> h2.clkout, lut |-> h2.lut, rf |-> h2.rf,
                ifc |-> h2.ifc, std |-> h2.std, fsk |-> fsk]
      BY <2>7, <2>18, HalRecord, HalUpdates
    <3> QED BY <3>1, <2>14
  <2>20. h3 \in Hals
    BY <1>4, <2>3, <2>19, HalMember
  <2>21. HalOk(h3)
    BY <2>4, <2>19, <2>20 DEF HalOk
  <2> QED BY <2>17, <2>19, <2>21
<1> QED BY <1>7, <1>9, <1>10, <1>11

(* An object leaves a well-formed configuration, and only the board section*)
(* changes the kind of network.                                            *)
LEMMA ObjectApplied ==
  ASSUME NEW h, HalOk(h), NEW o \in Objects
  PROVE  /\ HalOk(Applied(h, o))
         /\ Applied(h, o).public = IF o.section = "board" THEN Public(o) ELSE h.public
<1>1. CASE o \in BoardObjects
  <2>1. o.section = "board"
    BY <1>1 DEF BoardObjects
  <2> QED BY <1>1, <2>1, BoardApplied
<1>2. CASE o \in LutObjects
  <2>1. o.section = "tx_lut"
    BY <1>2 DEF LutObjects
  <2> QED BY <1>2, <2>1, LutApplied
<1>3. CASE o \in RadioObjects
  <2>1. o.section = "radio"
    BY <1>3 DEF RadioObjects
  <2> QED BY <1>3, <2>1, RadioApplied
<1>4. CASE o \in ChanObjects
  <2>1. o.section = "chan"
    BY <1>4 DEF ChanObjects
  <2> QED BY <1>4, <2>1, ChanApplied
<1> QED BY <1>1, <1>2, <1>3, <1>4 DEF Objects

-----------------------------------------------------------------------------
(* A file, object by object. *)

Result(g, i, h, file) ==
  IF i = 0 THEN [hal |-> h, ok |-> TRUE]
  ELSE IF ~g[i-1].ok THEN g[i-1]
  ELSE [hal |-> Applied(g[i-1].hal, file.objects[i]), ok |-> Accepts(file.objects[i])]
Results(g, n, h, file) == [i \in 0 .. n |-> Result(g, i, h, file)]
UpTo(h, file) == CHOOSE g : g = Results(g, Len(file.objects), h, file)

LEMMA ParseIs ==
  ASSUME NEW h, NEW file
  PROVE parse_SX1301_configuration(h, file) = UpTo(h, file)[Len(file.objects)].hal
  BY DEF parse_SX1301_configuration, UpTo, Results, Result

(* The recursion of parse_SX1301_configuration has a solution, of any      *)
(* length.                                                                 *)
LEMMA ResultsExist ==
  ASSUME NEW h, NEW file, NEW m \in Nat
  PROVE  \E g : g = Results(g, m, h, file)
<1> DEFINE S == {n \in Nat : \E g : g = Results(g, n, h, file)}
<1>1. 0 \in S
  <2> DEFINE g == [i \in 0 .. 0 |-> [hal |-> h, ok |-> TRUE]]
  <2>1. Results(g, 0, h, file) = [i \in 0 .. 0 |-> Result(g, i, h, file)]
    BY DEF Results
  <2>2. \A i \in 0 .. 0 : Result(g, i, h, file) = [hal |-> h, ok |-> TRUE]
    BY DEF Result
  <2>3. g = Results(g, 0, h, file)
    BY <2>1, <2>2
  <2> QED BY <2>3
<1>2. ASSUME NEW n \in Nat, n \in S PROVE n + 1 \in S
  <2>1. PICK g : g = Results(g, n, h, file)
    BY <1>2
  <2> DEFINE f == [i \in 0 .. n + 1 |-> IF i <= n THEN g[i] ELSE Result(g, n + 1, h, file)]
  <2>2. \A i \in 0 .. n : g[i] = Result(g, i, h, file)
    BY <2>1 DEF Results
  <2>3. ASSUME NEW i \in 0 .. n + 1 PROVE Result(f, i, h, file) = f[i]
    <3>1. i # 0 => f[i - 1] = g[i - 1]
      OBVIOUS
    <3> HIDE DEF f
    <3>2. Result(f, i, h, file) = Result(g, i, h, file)
      BY <3>1 DEF Result
    <3>3. CASE i <= n
      BY <3>2, <3>3, <2>2 DEF f
    <3>4. CASE i = n + 1
      BY <3>2, <3>4 DEF f
    <3> QED BY <3>3, <3>4
  <2>4. f = [i \in 0 .. n + 1 |-> f[i]]
    OBVIOUS
  <2> HIDE DEF f
  <2>5. f = Results(f, n + 1, h, file)
    BY <2>3, <2>4 DEF Results
  <2> QED BY <2>5
<1> HIDE DEF S
<1>3. Nat \subseteq S
  BY <1>1, <1>2, SetInduction
<1> QED BY <1>3 DEF S

(* A whole file leaves a well-formed configuration, and the kind of network*)
(* of its board section, if it has one.                                    *)
LEMMA FileApplied ==
  ASSUME NEW h, HalOk(h), NEW file \in Files
  PROVE  /\ HalOk(parse_SX1301_configuration(h, file))
         /\ parse_SX1301_configuration(h, file).public =
              IF file.objects = <<>> THEN h.public ELSE Public(file.objects[1])
<1> DEFINE m == Len(file.objects)
           g == UpTo(h, file)
<1>1. /\ file.objects \in Seq(Objects)
      /\ \A i \in DOMAIN file.objects : file.objects[i].section = "board" <=> i = 1
  BY DEF Files
<1>2. m \in Nat /\ DOMAIN file.objects = 1 .. m /\ \A i \in 1 .. m : file.objects[i] \in Objects
  BY <1>1, LenProperties, ElementOfSeq
<1>3. g = Results(g, m, h, file)
  BY <1>2, ResultsExist DEF UpTo
<1> HIDE DEF g, m
<1>4. \A i \in 0 .. m : g[i] = Result(g, i, h, file)
  BY <1>3 DEF Results
<1> DEFINE Good(n) == /\ HalOk(g[n].hal)
                      /\ g[n].hal.public = IF n = 0 THEN h.public ELSE Public(file.objects[1])
           S == {n \in Nat : n <= m => Good(n)}
<1>5. 0 \in S /\ g[0].ok = TRUE
  <2>1. g[0] = [hal |-> h, ok |-> TRUE]
    <3>1. g[0] = Result(g, 0, h, file)
      BY <1>2, <1>4
    <3>2. Result(g, 0, h, file) = [hal |-> h, ok |-> TRUE]
      BY DEF Result
    <3> QED BY <3>1, <3>2
  <2>2. HalOk(g[0].hal) /\ g[0].hal.public = h.public
    BY <2>1
  <2> QED BY <2>1, <2>2
<1>6. ASSUME NEW n \in Nat, n \in S PROVE n + 1 \in S
  <2> SUFFICES ASSUME n + 1 <= m PROVE Good(n + 1)
    OBVIOUS
  <2>1. Good(n)
    BY <1>2, <1>6
  <2>2. g[n + 1] = IF ~g[n].ok THEN g[n]
                   ELSE [hal |-> Applied(g[n].hal, file.objects[n + 1]), ok |-> Accepts(file.objects[n + 1])]
    <3>1. n + 1 \in 0 .. m /\ n + 1 # 0 /\ (n + 1) - 1 = n
      BY <1>2
    <3> QED BY <3>1, <1>4 DEF Result
  <2>3. CASE ~g[n].ok
    <3>1. n # 0
      BY <2>3, <1>5
    <3>2. g[n + 1] = g[n]
      BY <2>2, <2>3
    <3> QED BY <3>1, <3>2, <2>1
  <2>4. CASE g[n].ok
    <3>1. n + 1 \in 1 .. m
      BY <1>2
    <3> DEFINE o == file.objects[n + 1]
    <3>2. o \in Objects /\ (o.section = "board" <=> n + 1 = 1)
      BY <3>1, <1>1, <1>2
    <3>3. g[n + 1].hal = Applied(g[n].hal, o)
      BY <2>2, <2>4
    <3>4. HalOk(g[n + 1].hal) /\ g[n + 1].hal.public = IF o.section = "board" THEN Public(o) ELSE g[n].hal.public
      BY <3>2, <3>3, <2>1, ObjectApplied
    <3>5. CASE n = 0
      BY <3>2, <3>4, <3>5
    <3>6. CASE n # 0
      BY <3>2, <3>4, <3>6, <2>1
    <3> QED BY <3>5, <3>6
  <2> QED BY <2>3, <2>4
<1>7. m \in S
  <2> HIDE DEF S
  <2>1. Nat \subseteq S
    BY <1>5, <1>6, SetInduction
  <2> QED BY <2>1, <1>2
<1>8. Good(m)
  BY <1>2, <1>7
<1>9. m = 0 <=> file.objects = <<>>
  BY <1>1, EmptySeq DEF m
<1> QED BY <1>8, <1>9, ParseIs DEF g, m

LEMMA HalOffOk == HalOk(HalOff) /\ HalOff.public = FALSE
<1>1. HalOff.lut = <<186, 254>> /\ HalOff.lut \in Seq(Words) /\ Len(HalOff.lut) = 2
  BY DEF HalOff, Words
<1>2. [c \in RfChain |-> RfOff] \in [RfChain -> RadioSettings]
  <2>1. RfOff \in RadioSettings
    <3>1. 0 \in {0} \cup NotchFreqs
      OBVIOUS
    <3> QED BY <3>1 DEF RfOff, RadioSettings, RadioTypes
  <2> QED BY <2>1
<1>3. [c \in Chains |-> IfOff] \in [Chains -> Chain]
  <2>1. IfOff \in Chain
    BY BringupAssumption DEF IfOff, Chain
  <2> QED BY <2>1
<1>4. [bw |-> 0, dr |-> 0] \in Demodulator
  BY DEF Demodulator
<1>5. 0 \in Words
  BY DEF Words
<1>6. HalOff = [public |-> FALSE, clkout |-> 0, lut |-> HalOff.lut, rf |-> [c \in RfChain |-> RfOff],
                ifc |-> [c \in Chains |-> IfOff], std |-> [bw |-> 0, dr |-> 0], fsk |-> [bw |-> 0, dr |-> 0]]
  BY DEF HalOff
<1>7. HalOff \in Hals
  <2> DEFINE rf == [c \in RfChain |-> RfOff]
             ifc == [c \in Chains |-> IfOff]
             none == [bw |-> 0, dr |-> 0]
  <2>1. rf \in [RfChain -> RadioSettings] /\ ifc \in [Chains -> Chain] /\ none \in Demodulator
    BY <1>2, <1>3, <1>4
  <2>2. HalOff = [public |-> FALSE, clkout |-> 0, lut |-> HalOff.lut, rf |-> rf, ifc |-> ifc, std |-> none, fsk |-> none]
    BY <1>6
  <2> HIDE DEF rf, ifc, none
  <2>3. [public |-> FALSE, clkout |-> 0, lut |-> HalOff.lut, rf |-> rf, ifc |-> ifc, std |-> none, fsk |-> none] \in Hals
    BY <1>1, <1>5, <2>1, HalMember
  <2> QED BY <2>2, <2>3
<1>8. HalOff.ifc[Fsk].enable = FALSE
  <2>1. Fsk \in Chains
    BY DEF Chains
  <2> QED BY <1>6, <2>1 DEF IfOff
<1>9. \A i \in DOMAIN HalOff.lut : HalOff.lut[i] # Abort
  <2>1. HalOff.lut[1] = 186 /\ HalOff.lut[2] = 254 /\ DOMAIN HalOff.lut = 1 .. 2
    BY <1>1
  <2> QED BY <2>1 DEF Abort
<1> QED BY <1>1, <1>6, <1>7, <1>8, <1>9, BringupAssumption DEF HalOk

-----------------------------------------------------------------------------
(* The files that are read. *)

After1(file) ==
  [hal |-> parse_SX1301_configuration(HalOff, file), lgwm |-> parse_gateway_configuration(0, file)]
After2(first, second) ==
  [hal  |-> parse_SX1301_configuration(After1(first).hal, second),
   lgwm |-> parse_gateway_configuration(After1(first).lgwm, second)]

(* At most two are: the recursion of Configured ends after as many steps.  *)
LEMMA ConfiguredFew ==
  /\ Configured(<<>>) = [hal |-> HalOff, lgwm |-> 0]
  /\ \A file : Configured(<<file>>) = After1(file)
  /\ \A first, second : Configured(<<first, second>>) = After2(first, second)
<1> DEFINE Entry(g, i, files) ==
             IF i = 0 THEN [hal |-> HalOff, lgwm |-> 0]
             ELSE [hal  |-> parse_SX1301_configuration(g[i-1].hal, files[i]),
                   lgwm |-> parse_gateway_configuration(g[i-1].lgwm, files[i])]
           Body(g, files) == [i \in 0 .. Len(files) |-> Entry(g, i, files)]
           Sol(files) == CHOOSE g : g = Body(g, files)
<1>1. ASSUME NEW files PROVE Configured(files) = Sol(files)[Len(files)]
  BY DEF Configured
<1>2. ASSUME NEW files, Len(files) \in 0 .. 2
      PROVE  \A i \in 0 .. Len(files) : Sol(files)[i] = Entry(Sol(files), i, files)
  <2> DEFINE base == [hal |-> HalOff, lgwm |-> 0]
             one == After1(files[1])
             two == After2(files[1], files[2])
             g == [i \in 0 .. Len(files) |-> IF i = 0 THEN base ELSE IF i = 1 THEN one ELSE two]
  <2>1. ASSUME NEW i \in 0 .. Len(files) PROVE g[i] = Entry(g, i, files)
    <3>1. CASE i = 0
      BY <3>1
    <3>2. CASE i = 1
      <4>1. g[0] = base /\ g[1] = one
        BY <1>2, <3>2
      <4>2. Entry(g, 1, files) = [hal  |-> parse_SX1301_configuration(g[0].hal, files[1]),
                                 lgwm |-> parse_gateway_configuration(g[0].lgwm, files[1])]
        OBVIOUS
      <4> QED BY <3>2, <4>1, <4>2 DEF After1
    <3>3. CASE i = 2
      <4>1. g[1] = one /\ g[2] = two
        BY <1>2, <3>3
      <4>2. Entry(g, 2, files) = [hal  |-> parse_SX1301_configuration(g[1].hal, files[2]),
                                 lgwm |-> parse_gateway_configuration(g[1].lgwm, files[2])]
        OBVIOUS
      <4> QED BY <3>3, <4>1, <4>2 DEF After2
    <3> QED BY <1>2, <3>1, <3>2, <3>3
  <2>2. g = [i \in 0 .. Len(files) |-> g[i]]
    OBVIOUS
  <2> HIDE DEF g, Entry
  <2>3. g = Body(g, files)
    BY <2>1, <2>2
  <2>4. Sol(files) = Body(Sol(files), files)
    BY <2>3
  <2> HIDE DEF Sol
  <2> QED BY <2>4
<1> HIDE DEF Sol, Body
<1>3. ASSUME NEW files, Len(files) \in 0 .. 2 PROVE Sol(files)[0] = [hal |-> HalOff, lgwm |-> 0]
  <2>1. 0 \in 0 .. Len(files)
    BY <1>3
  <2>2. Sol(files)[0] = Entry(Sol(files), 0, files)
    BY <1>2, <1>3, <2>1
  <2>3. Entry(Sol(files), 0, files) = [hal |-> HalOff, lgwm |-> 0]
    OBVIOUS
  <2> QED BY <2>2, <2>3
<1>4. ASSUME NEW files, Len(files) \in 1 .. 2 PROVE Sol(files)[1] = After1(files[1])
  <2>1. Len(files) \in 0 .. 2 /\ 1 \in 0 .. Len(files)
    BY <1>4
  <2>2. Sol(files)[1] = Entry(Sol(files), 1, files)
    BY <1>2, <2>1
  <2>3. Entry(Sol(files), 1, files) = [hal  |-> parse_SX1301_configuration(Sol(files)[0].hal, files[1]),
                                      lgwm |-> parse_gateway_configuration(Sol(files)[0].lgwm, files[1])]
    OBVIOUS
  <2> QED BY <1>3, <2>1, <2>2, <2>3 DEF After1
<1>5. ASSUME NEW files, Len(files) = 2 PROVE Sol(files)[2] = After2(files[1], files[2])
  <2>1. Len(files) \in 0 .. 2 /\ Len(files) \in 1 .. 2 /\ 2 \in 0 .. Len(files)
    BY <1>5
  <2>2. Sol(files)[2] = Entry(Sol(files), 2, files)
    BY <1>2, <2>1
  <2>3. Entry(Sol(files), 2, files) = [hal  |-> parse_SX1301_configuration(Sol(files)[1].hal, files[2]),
                                      lgwm |-> parse_gateway_configuration(Sol(files)[1].lgwm, files[2])]
    OBVIOUS
  <2> QED BY <1>4, <2>1, <2>2, <2>3 DEF After2
<1> HIDE DEF Entry
<1>6. Len(<<>>) = 0 /\ \A x, y : Len(<<x>>) = 1 /\ Len(<<x, y>>) = 2 /\ <<x>>[1] = x /\ <<x, y>>[1] = x /\ <<x, y>>[2] = y
  OBVIOUS
<1>7. Configured(<<>>) = [hal |-> HalOff, lgwm |-> 0]
  BY <1>1, <1>3, <1>6
<1>8. ASSUME NEW file PROVE Configured(<<file>>) = After1(file)
  <2>1. Len(<<file>>) = 1 /\ <<file>>[1] = file
    BY <1>6
  <2>2. Sol(<<file>>)[1] = After1(<<file>>[1])
    BY <1>4, <2>1
  <2>3. Configured(<<file>>) = Sol(<<file>>)[Len(<<file>>)]
    BY <1>1
  <2> QED BY <2>1, <2>2, <2>3
<1>9. ASSUME NEW first, NEW second PROVE Configured(<<first, second>>) = After2(first, second)
  <2>1. /\ Len(<<first, second>>) = 2
        /\ <<first, second>>[1] = first /\ <<first, second>>[2] = second
    BY <1>6, Zenon
  <2>2. Sol(<<first, second>>)[2] = After2(<<first, second>>[1], <<first, second>>[2])
    BY <1>5, <2>1, Zenon
  <2>3. Configured(<<first, second>>) = Sol(<<first, second>>)[Len(<<first, second>>)]
    BY <1>1, Zenon
  <2> QED BY <2>1, <2>2, <2>3
<1> QED BY <1>7, <1>8, <1>9

LEMMA FileFacts ==
  ASSUME NEW f \in Files
  PROVE  /\ f.kind = "file" /\ f # Absent /\ f # Invalid /\ f.gateway_ID \in Nat
         /\ HasSection(f) <=> f.objects # <<>>
         /\ Says(f, "public") <=> HasSection(f) /\ f.objects[1].named
         /\ Says(f, "id") <=> f.gateway_ID # 0
         /\ HasSection(f) => f.objects[1].named \in BOOLEAN /\ f.objects[1].public \in BOOLEAN
<1>1. f.kind = "file" /\ f.gateway_ID \in Nat
  BY DEF Files
<1>2. f # Absent /\ f # Invalid
  BY <1>1 DEF Absent, Invalid
<1>3. ASSUME f.objects # <<>> PROVE f.objects[1].named \in BOOLEAN /\ f.objects[1].public \in BOOLEAN
  <2>1. f.objects \in Seq(Objects) /\ \A i \in DOMAIN f.objects : f.objects[i].section = "board" <=> i = 1
    BY DEF Files
  <2>2. Len(f.objects) \in Nat \ {0} /\ DOMAIN f.objects = 1 .. Len(f.objects)
    BY <1>3, <2>1, EmptySeq, LenProperties
  <2>3. 1 \in 1 .. Len(f.objects)
    BY <2>2
  <2>4. f.objects[1] \in Objects /\ f.objects[1].section = "board"
    BY <2>1, <2>2, <2>3, ElementOfSeq
  <2>5. f.objects[1] \in BoardObjects
    BY <2>4 DEF Objects, LutObjects, RadioObjects, ChanObjects
  <2> QED BY <2>5 DEF BoardObjects
<1>4. /\ HasSection(f) <=> f.objects # <<>>
      /\ Says(f, "public") <=> HasSection(f) /\ f.objects[1].named
  <2>1. f.kind # "invalid"
    BY <1>1
  <2>2. HasSection(f) <=> f.objects # <<>>
    BY <1>2, <2>1, Zenon DEF HasSection
  <2>3. Says(f, "public") <=> HasSection(f) /\ f.objects[1].named
    BY Zenon DEF Says
  <2> QED BY <2>2, <2>3
<1>5. Says(f, "id") <=> f.gateway_ID # 0
  <2>1. "id" # "public"
    OBVIOUS
  <2> QED BY <1>1, <1>2, <2>1, Zenon DEF Says
<1> QED BY <1>1, <1>2, <1>3, <1>4, <1>5

LEMMA SaysNothing ==
  ASSUME NEW f \in {Absent, Invalid}, NEW what PROVE ~Says(f, what) /\ ~HasSection(f)
<1>1. f = Absent \/ f.kind = "invalid"
  BY DEF Absent, Invalid
<1> QED BY <1>1 DEF Says, HasSection

(* One file, over what was there before.                                   *)
LEMMA After1Ok ==
  ASSUME NEW f \in Files
  PROVE  /\ HalOk(After1(f).hal) /\ After1(f).lgwm \in Nat
         /\ After1(f).hal.public = (Says(f, "public") /\ f.objects[1].public)
         /\ After1(f).lgwm = IF Says(f, "id") THEN f.gateway_ID ELSE 0
<1>1. After1(f).hal = parse_SX1301_configuration(HalOff, f) /\ After1(f).lgwm = parse_gateway_configuration(0, f)
  BY DEF After1
<1>2. HalOk(After1(f).hal) /\ After1(f).hal.public = IF f.objects = <<>> THEN FALSE ELSE Public(f.objects[1])
  BY <1>1, HalOffOk, FileApplied
<1>3. After1(f).hal.public = (Says(f, "public") /\ f.objects[1].public)
  <2>1. CASE f.objects = <<>>
    <3>1. After1(f).hal.public = FALSE
      BY <1>2, <2>1
    <3>2. ~Says(f, "public")
      BY <2>1, FileFacts
    <3> QED BY <3>1, <3>2
  <2>2. CASE f.objects # <<>>
    <3>1. After1(f).hal.public = Public(f.objects[1])
      BY <1>2, <2>2
    <3>2. Says(f, "public") <=> f.objects[1].named
      BY <2>2, FileFacts
    <3> QED BY <3>1, <3>2 DEF Public
  <2> QED BY <2>1, <2>2
<1>4. After1(f).lgwm = IF f.gateway_ID = 0 THEN 0 ELSE f.gateway_ID
  BY <1>1 DEF parse_gateway_configuration
<1> QED BY <1>2, <1>3, <1>4, FileFacts

LEMMA After2Ok ==
  ASSUME NEW f \in Files, NEW e \in Files
  PROVE  /\ HalOk(After2(f, e).hal) /\ After2(f, e).lgwm \in Nat
         /\ After2(f, e).hal.public = IF HasSection(e) THEN Public(e.objects[1]) ELSE After1(f).hal.public
         /\ After2(f, e).lgwm = IF Says(e, "id") THEN e.gateway_ID ELSE After1(f).lgwm
<1>1. /\ After2(f, e).hal = parse_SX1301_configuration(After1(f).hal, e)
      /\ After2(f, e).lgwm = parse_gateway_configuration(After1(f).lgwm, e)
  BY DEF After2
<1>2. /\ HalOk(After2(f, e).hal)
      /\ After2(f, e).hal.public = IF e.objects = <<>> THEN After1(f).hal.public ELSE Public(e.objects[1])
  BY <1>1, After1Ok, FileApplied
<1>3. After2(f, e).lgwm = IF e.gateway_ID = 0 THEN After1(f).lgwm ELSE e.gateway_ID
  BY <1>1 DEF parse_gateway_configuration
<1>4. After1(f).lgwm \in Nat
  BY After1Ok
<1> QED BY <1>2, <1>3, <1>4, FileFacts

LEMMA Two ==
  ASSUME NEW x, NEW y
  PROVE  <<x>> \o <<y>> = <<x, y>>
<1> DEFINE S == {x, y}
           s == <<x>> \o <<y>>
<1>1. <<x>> \in Seq(S) /\ <<y>> \in Seq(S) /\ <<x, y>> \in Seq(S)
  OBVIOUS
<1>2. Len(<<x>>) = 1 /\ Len(<<y>>) = 1 /\ Len(<<x, y>>) = 2 /\ <<x>>[1] = x /\ <<y>>[1] = y
  OBVIOUS
<1>3. s \in Seq(S) /\ Len(s) = 2 /\ \A i \in 1 .. 2 : s[i] = IF i <= 1 THEN <<x>>[i] ELSE <<y>>[i - 1]
  BY <1>1, <1>2, ConcatProperties
<1>4. s[1] = x /\ s[2] = y
  BY <1>2, <1>3
<1>5. <<x, y>>[1] = x /\ <<x, y>>[2] = y
  OBVIOUS
<1> HIDE DEF s, S
<1>6. \A i \in 1 .. 2 : s[i] = <<x, y>>[i]
  BY <1>4, <1>5
<1>7. s = <<x, y>>
  BY <1>1, <1>2, <1>3, <1>6, SeqEqual
<1> QED BY <1>7 DEF s

(* The files leave a well-formed configuration, with the identity of the   *)
(* documented precedence, and with its kind of network too unless a local  *)
(* section that names none hides that of the global file.                  *)
LEMMA FilesConfigured ==
  ASSUME NEW debug \in Debugs, NEW global \in Globals, NEW local \in Locals,
         ~Broken(Read(debug, global, local))
  PROVE  LET found == Configured(Read(debug, global, local))
             says  == Wanted(debug, global, local)
         IN /\ HalOk(found.hal) /\ found.lgwm \in Nat
            /\ ~says.hidden => found.hal.public = says.public
            /\ found.lgwm = says.lgwm
            /\ says \in [public : BOOLEAN, hidden : BOOLEAN, lgwm : Nat]
<1> DEFINE files == Read(debug, global, local)
           found == Configured(files)
           says  == Wanted(debug, global, local)
           kind  == Decides(debug, global, local, "public")
           id    == Decides(debug, global, local, "id")
           same  == ~says.hidden => found.hal.public = says.public
<1>1. debug \in Files \cup {Absent, Invalid} /\ global \in Files \cup {Absent, Invalid} /\ local \in Files \cup {Absent, Invalid}
  BY FilesAssumption
<1>2. says.public = (Says(kind, "public") /\ kind.objects[1].public)
      /\ says.lgwm = (IF Says(id, "id") THEN id.gateway_ID ELSE 0)
      /\ says.hidden = Hidden(debug, global, local)
      /\ says = [public |-> says.public, hidden |-> says.hidden, lgwm |-> says.lgwm]
  BY DEF Wanted
<1>3. HalOk(found.hal) /\ found.lgwm \in Nat /\ same /\ found.lgwm = says.lgwm
  <2> HIDE DEF says
  <2>1. CASE debug # Absent
    <3>1. files = <<debug>> /\ kind = debug /\ id = debug
      BY <2>1, Zenon DEF Read, Decides
    <3>2. debug \in Files
      <4>1. debug # Invalid
        BY <3>1 DEF Broken, Invalid
      <4> QED BY <1>1, <2>1, <4>1
    <3>3. found = After1(debug)
      BY <3>1, ConfiguredFew
    <3> QED BY <1>2, <3>1, <3>2, <3>3, After1Ok
  <2>2. CASE debug = Absent /\ global # Absent /\ local # Absent
    <3>1. files = <<global, local>>
      <4>1. files = <<global>> \o <<local>>
        BY <2>2, Zenon DEF Read
      <4> QED BY <4>1, Two
    <3>2. global \in Files /\ local \in Files
      <4>1. DOMAIN files = {1, 2} /\ files[1] = global /\ files[2] = local
        BY <3>1
      <4>2. global # Invalid /\ local # Invalid
        BY <4>1 DEF Broken, Invalid
      <4> QED BY <1>1, <2>2, <4>2
    <3>3. found = After2(global, local)
      BY <3>1, ConfiguredFew
    <3>4. kind = (IF Says(local, "public") THEN local ELSE global) /\ id = (IF Says(local, "id") THEN local ELSE global)
      BY <2>2 DEF Decides
    <3> HIDE DEF kind, id, found, files
    <3>5. same
      <4>1. CASE Says(local, "public")
        <5>1. HasSection(local) /\ local.objects[1].named
          BY <4>1, Zenon DEF Says
        <5>2. found.hal.public = Public(local.objects[1])
          BY <3>2, <3>3, <5>1, After2Ok
        <5>3. Public(local.objects[1]) = local.objects[1].public
          BY <3>2, <5>1, FileFacts DEF Public
        <5>4. local.objects[1].public \in BOOLEAN
          BY <3>2, <5>1, FileFacts
        <5>5. says.public = local.objects[1].public
          BY <1>2, <3>4, <4>1, <5>4
        <5> QED BY <5>2, <5>3, <5>5
      <4>2. CASE ~Says(local, "public") /\ HasSection(local)
        <5>1. found.hal.public = Public(local.objects[1])
          BY <3>2, <3>3, <4>2, After2Ok
        <5>2. ~local.objects[1].named
          BY <3>2, <4>2, FileFacts
        <5>3. found.hal.public = FALSE
          BY <5>1, <5>2 DEF Public
        <5>4. Says(global, "public") => says.hidden
          <6>1. Says(global, "public") => Hidden(debug, global, local)
            BY <2>2, <4>2 DEF Hidden
          <6> QED BY <1>2, <6>1
        <5>5. ~Says(global, "public") => says.public = FALSE
          BY <1>2, <3>4, <4>2
        <5> QED BY <5>3, <5>4, <5>5
      <4>3. CASE ~Says(local, "public") /\ ~HasSection(local)
        <5>1. found.hal.public = After1(global).hal.public
          BY <3>2, <3>3, <4>3, After2Ok
        <5>2. After1(global).hal.public = (Says(global, "public") /\ global.objects[1].public)
          BY <3>2, After1Ok
        <5> QED BY <1>2, <3>4, <4>3, <5>1, <5>2
      <4> QED BY <4>1, <4>2, <4>3
    <3>6. found.lgwm = says.lgwm
      <4>1. found.lgwm = IF Says(local, "id") THEN local.gateway_ID ELSE After1(global).lgwm
        BY <3>2, <3>3, After2Ok
      <4>2. After1(global).lgwm = IF Says(global, "id") THEN global.gateway_ID ELSE 0
        BY <3>2, After1Ok
      <4> QED BY <1>2, <3>4, <4>1, <4>2
    <3>7. HalOk(found.hal) /\ found.lgwm \in Nat
      BY <3>2, <3>3, After2Ok
    <3> QED BY <3>5, <3>6, <3>7
  <2>3. CASE debug = Absent /\ global # Absent /\ local = Absent
    <3>1. files = <<global>>
      BY <2>3 DEF Read
    <3>2. global \in Files
      <4>1. global # Invalid
        BY <3>1 DEF Broken, Invalid
      <4> QED BY <1>1, <2>3, <4>1
    <3>3. found = After1(global)
      BY <3>1, ConfiguredFew
    <3>4. kind = global /\ id = global
      BY <2>3, SaysNothing DEF Decides
    <3> QED BY <1>2, <3>2, <3>3, <3>4, After1Ok
  <2>4. CASE debug = Absent /\ global = Absent /\ local # Absent
    <3>1. files = <<local>>
      BY <2>4 DEF Read
    <3>2. local \in Files
      <4>1. local # Invalid
        BY <3>1 DEF Broken, Invalid
      <4> QED BY <1>1, <2>4, <4>1
    <3>3. found = After1(local)
      BY <3>1, ConfiguredFew
    <3>4. kind = (IF Says(local, "public") THEN local ELSE Absent) /\ id = (IF Says(local, "id") THEN local ELSE Absent)
      BY <2>4 DEF Decides
    <3>5. ~Says(Absent, "public") /\ ~Says(Absent, "id")
      BY SaysNothing
    <3> HIDE DEF kind, id, found, files
    <3>6. found.hal.public = (Says(local, "public") /\ local.objects[1].public)
      BY <3>2, <3>3, After1Ok
    <3>7. says.public = (Says(local, "public") /\ local.objects[1].public)
      <4>1. CASE Says(local, "public")
        BY <4>1, <1>2, <3>4
      <4>2. CASE ~Says(local, "public")
        BY <4>2, <1>2, <3>4, <3>5
      <4> QED BY <4>1, <4>2
    <3>8. found.lgwm = says.lgwm
      <4>1. found.lgwm = IF Says(local, "id") THEN local.gateway_ID ELSE 0
        BY <3>2, <3>3, After1Ok
      <4> QED BY <1>2, <3>4, <3>5, <4>1
    <3> QED BY <3>2, <3>3, <3>6, <3>7, <3>8, After1Ok
  <2>5. CASE debug = Absent /\ global = Absent /\ local = Absent
    <3>1. files = <<>>
      BY <2>5 DEF Read
    <3>2. found = [hal |-> HalOff, lgwm |-> 0]
      BY <3>1, ConfiguredFew
    <3>3. ~Says(kind, "public") /\ ~Says(id, "id")
      BY <2>5, SaysNothing DEF Decides
    <3>4. says.public = FALSE /\ says.lgwm = 0
      BY <1>2, <3>3
    <3> HIDE DEF found
    <3> QED BY <3>2, <3>4, HalOffOk
  <2> QED BY <2>1, <2>2, <2>3, <2>4, <2>5
<1>4. says \in [public : BOOLEAN, hidden : BOOLEAN, lgwm : Nat]
  <2>1. says.public \in BOOLEAN
    BY <1>2
  <2>2. says.hidden \in BOOLEAN
    <3>1. Hidden(debug, global, local) \in BOOLEAN
      BY DEF Hidden
    <3> QED BY <1>2, <3>1
  <2> HIDE DEF says, found
  <2>3. says.lgwm \in Nat
    BY <1>3
  <2> QED BY <1>2, <2>1, <2>2, <2>3
<1> QED BY <1>3, <1>4

-----------------------------------------------------------------------------
(* The hand-shake. *)

(* Each word by its place: the table, the word that ends a short one, and  *)
(* three more.                                                             *)
Sent == Script(Len(hal.lut))

LEMMA ScriptWords ==
  ASSUME ConfigurationOK
  PROVE  /\ Len(hal.lut) \in 1 .. LutMax /\ TableWords \in Nat
         /\ TableWords = Len(hal.lut) + (IF Len(hal.lut) < LutMax THEN 1 ELSE 0)
         /\ Len(Sent) = TableWords + 3
         /\ \A i \in 1 .. Len(hal.lut) :
              Sent[i] = [word |-> hal.lut[i], status |-> 47 + i] /\ hal.lut[i] \in Words
         /\ Len(hal.lut) < LutMax => Sent[Len(hal.lut) + 1] = [word |-> Abort, status |-> 48]
         /\ Sent[TableWords + 1] = [word |-> 3, status |-> 51]
         /\ Sent[TableWords + 2] = [word |-> 0, status |-> 48]
         /\ Sent[TableWords + 3] = [word |-> RadioSelect, status |-> 64]
         /\ RadioSelect \in Words
<1> DEFINE k == Len(hal.lut)
           table == [i \in 1 .. k |-> [word |-> hal.lut[i], status |-> 47 + i]]
           end == IF k < LutMax THEN <<[word |-> Abort, status |-> 48]>> ELSE <<>>
           rest == <<[word |-> 3, status |-> 51], [word |-> 0, status |-> 48], [word |-> RadioSelect, status |-> 64]>>
           S == [word : Words, status : Nat]
<1>1. k \in 1 .. LutMax /\ LutMax \in Nat /\ hal.lut \in Seq(Words) /\ TableWords = k + (IF k < LutMax THEN 1 ELSE 0)
  BY HalFields, BringupAssumption DEF ConfigurationOK, TableWords
<1>2. \A i \in 1 .. k : hal.lut[i] \in Words
  BY <1>1, ElementOfSeq, LenProperties
<1>3. RadioSelect \in Words
  BY SelectAssumption DEF RadioSelect
<1>4. Script(k) = (table \o end) \o rest
  BY DEF Script
<1> HIDE DEF k
<1>5. k \in Nat /\ TableWords \in Nat
  <2>1. k \in Nat
    BY <1>1
  <2>2. CASE k < LutMax
    BY <2>1, <2>2, <1>1
  <2>3. CASE ~(k < LutMax)
    BY <2>1, <2>3, <1>1
  <2> QED BY <2>1, <2>2, <2>3
<1>6. table \in Seq(S) /\ Len(table) = k
  <2>1. \A i \in 1 .. k : [word |-> hal.lut[i], status |-> 47 + i] \in S
    BY <1>2
  <2> HIDE DEF S
  <2>2. \A i \in 1 .. k : table[i] \in S
    BY <2>1
  <2> QED BY <1>5, <2>2, IsASeq, LenProperties
<1>7. end \in Seq(S) /\ Len(end) = TableWords - k /\ (k < LutMax => end[1] = [word |-> Abort, status |-> 48])
  <2>1. [word |-> Abort, status |-> 48] \in S
    BY DEF Abort, Words
  <2> HIDE DEF S
  <2>2. CASE k < LutMax
    <3>1. end = <<[word |-> Abort, status |-> 48]>>
      BY <2>2
    <3> QED BY <3>1, <2>1, <2>2, <1>1, <1>5
  <2>3. CASE ~(k < LutMax)
    <3>1. end = <<>>
      BY <2>3
    <3> QED BY <3>1, <2>3, <1>1, <1>5
  <2> QED BY <2>2, <2>3
<1>8. /\ rest \in Seq(S) /\ Len(rest) = 3 /\ rest[1] = [word |-> 3, status |-> 51]
      /\ rest[2] = [word |-> 0, status |-> 48] /\ rest[3] = [word |-> RadioSelect, status |-> 64]
  <2>1. 3 \in Words /\ 0 \in Words
    BY DEF Words
  <2>2. [word |-> 3, status |-> 51] \in S /\ [word |-> 0, status |-> 48] \in S /\ [word |-> RadioSelect, status |-> 64] \in S
    BY <1>3, <2>1
  <2> HIDE DEF S
  <2> QED BY <2>2
<1>9. \A i \in 1 .. k : table[i] = [word |-> hal.lut[i], status |-> 47 + i]
  OBVIOUS
<1> HIDE DEF table, end, rest, S
<1> DEFINE front == table \o end
<1>10. /\ front \in Seq(S) /\ Len(front) = TableWords
       /\ \A i \in 1 .. k : front[i] = table[i]
       /\ k < LutMax => front[k + 1] = end[1]
  <2>1. /\ front \in Seq(S) /\ Len(front) = k + (TableWords - k)
        /\ \A i \in 1 .. k + (TableWords - k) : front[i] = IF i <= k THEN table[i] ELSE end[i - k]
    <3>1. /\ front \in Seq(S) /\ Len(front) = Len(table) + Len(end)
          /\ \A i \in 1 .. Len(table) + Len(end) : front[i] = IF i <= Len(table) THEN table[i] ELSE end[i - Len(table)]
      BY <1>6, <1>7, ConcatProperties, Zenon
    <3> QED BY <3>1, <1>6, <1>7, Zenon
  <2> HIDE DEF front
  <2>2. k + (TableWords - k) = TableWords
    BY <1>5
  <2>3. \A i \in 1 .. k : front[i] = table[i]
    BY <1>1, <1>5, <2>1, <2>2
  <2>4. k < LutMax => front[k + 1] = end[1]
    <3>1. k < LutMax => k + 1 \in 1 .. k + (TableWords - k) /\ ~(k + 1 <= k) /\ (k + 1) - k = 1
      BY <1>1, <1>5
    <3> QED BY <2>1, <3>1
  <2> QED BY <2>1, <2>2, <2>3, <2>4
<1> HIDE DEF front
<1> DEFINE s == front \o rest
<1>11. /\ Len(s) = TableWords + 3
       /\ \A i \in 1 .. TableWords + 3 : s[i] = IF i <= TableWords THEN front[i] ELSE rest[i - TableWords]
  <2>1. /\ Len(s) = Len(front) + Len(rest)
        /\ \A i \in 1 .. Len(front) + Len(rest) : s[i] = IF i <= Len(front) THEN front[i] ELSE rest[i - Len(front)]
    <3>1. front \in Seq(S) /\ rest \in Seq(S)
      BY <1>8, <1>10
    <3> QED BY <3>1, ConcatProperties
  <2> QED BY <2>1, <1>8, <1>10, Zenon
<1>12. s = Script(k)
  BY <1>4 DEF front
<1> HIDE DEF s
<1>13. \A i \in 1 .. k : s[i] = [word |-> hal.lut[i], status |-> 47 + i]
  BY <1>1, <1>5, <1>9, <1>10, <1>11
<1>14. k < LutMax => s[k + 1] = [word |-> Abort, status |-> 48]
  <2>1. k < LutMax => k + 1 \in 1 .. TableWords + 3 /\ k + 1 <= TableWords
    BY <1>1, <1>5
  <2> QED BY <2>1, <1>7, <1>10, <1>11
<1>15. /\ s[TableWords + 1] = rest[1] /\ s[TableWords + 2] = rest[2] /\ s[TableWords + 3] = rest[3]
  <2>1. \A j \in 1 .. 3 : s[TableWords + j] = rest[j]
    <3> TAKE j \in 1 .. 3
    <3>1. TableWords + j \in 1 .. TableWords + 3 /\ ~(TableWords + j <= TableWords) /\ (TableWords + j) - TableWords = j
      BY <1>5
    <3> QED BY <1>11, <3>1
  <2> QED BY <2>1
<1>16. Sent = s
  BY <1>12 DEF Sent, k
<1>17. k = Len(hal.lut)
  BY DEF k
<1>18. \A i \in 1 .. k : Sent[i] = [word |-> hal.lut[i], status |-> 47 + i] /\ hal.lut[i] \in Words
  BY <1>2, <1>13, <1>16, <1>17
<1>19. /\ Len(Sent) = TableWords + 3
       /\ k < LutMax => Sent[k + 1] = [word |-> Abort, status |-> 48]
       /\ Sent[TableWords + 1] = [word |-> 3, status |-> 51]
       /\ Sent[TableWords + 2] = [word |-> 0, status |-> 48]
       /\ Sent[TableWords + 3] = [word |-> RadioSelect, status |-> 64]
  BY <1>8, <1>11, <1>14, <1>15, <1>16
<1> QED BY <1>1, <1>3, <1>5, <1>17, <1>18, <1>19

LEMMA SentWord ==
  ASSUME ConfigurationOK, NEW i \in 1 .. TableWords + 3
  PROVE  Sent[i].word \in Words
<1>1. /\ Len(hal.lut) \in Nat /\ LutMax \in Nat /\ TableWords = Len(hal.lut) + (IF Len(hal.lut) < LutMax THEN 1 ELSE 0)
  BY ScriptWords, BringupAssumption
<1>2. \/ i \in 1 .. Len(hal.lut) \/ (Len(hal.lut) < LutMax /\ i = Len(hal.lut) + 1)
      \/ i = TableWords + 1 \/ i = TableWords + 2 \/ i = TableWords + 3
  <2>1. CASE Len(hal.lut) < LutMax
    BY <1>1, <2>1
  <2>2. CASE ~(Len(hal.lut) < LutMax)
    BY <1>1, <2>2
  <2> QED BY <2>1, <2>2
<1>3. 3 \in Words /\ 0 \in Words /\ Abort \in Words
  BY DEF Words, Abort
<1>4. /\ \A j \in 1 .. Len(hal.lut) : Sent[j].word = hal.lut[j] /\ hal.lut[j] \in Words
      /\ Len(hal.lut) < LutMax => Sent[Len(hal.lut) + 1].word = Abort
      /\ Sent[TableWords + 1].word = 3 /\ Sent[TableWords + 2].word = 0
      /\ Sent[TableWords + 3].word = RadioSelect /\ RadioSelect \in Words
  <2>1. \A j \in 1 .. Len(hal.lut) : Sent[j] = [word |-> hal.lut[j], status |-> 47 + j] /\ hal.lut[j] \in Words
    BY ScriptWords
  <2>2. Len(hal.lut) < LutMax => Sent[Len(hal.lut) + 1] = [word |-> Abort, status |-> 48]
    BY ScriptWords, Zenon
  <2>3. /\ Sent[TableWords + 1] = [word |-> 3, status |-> 51]
        /\ Sent[TableWords + 2] = [word |-> 0, status |-> 48]
        /\ Sent[TableWords + 3] = [word |-> RadioSelect, status |-> 64]
        /\ RadioSelect \in Words
    BY ScriptWords, Zenon
  <2>4. \A j \in 1 .. Len(hal.lut) : Sent[j].word = hal.lut[j] /\ hal.lut[j] \in Words
    <3> TAKE j \in 1 .. Len(hal.lut)
    <3>1. PICK sent : sent = Sent[j]
      OBVIOUS
    <3>2. PICK status : status = 47 + j
      OBVIOUS
    <3>3. sent = [word |-> hal.lut[j], status |-> status] /\ hal.lut[j] \in Words
      BY <2>1, <3>1, <3>2, Zenon
    <3>4. sent.word = hal.lut[j]
      BY <3>3
    <3> QED BY <3>1, <3>3, <3>4
  <2>5. Len(hal.lut) < LutMax => Sent[Len(hal.lut) + 1].word = Abort
    BY <2>2
  <2>6. Sent[TableWords + 1].word = 3 /\ Sent[TableWords + 2].word = 0 /\ Sent[TableWords + 3].word = RadioSelect
    BY <2>3
  <2> QED BY <2>3, <2>4, <2>5, <2>6
<1>5. CASE i \in 1 .. Len(hal.lut)
  BY <1>4, <1>5
<1>6. CASE Len(hal.lut) < LutMax /\ i = Len(hal.lut) + 1
  BY <1>3, <1>4, <1>6, Zenon
<1>7. CASE i = TableWords + 1 \/ i = TableWords + 2 \/ i = TableWords + 3
  BY <1>3, <1>4, <1>7, Zenon
<1> QED BY <1>2, <1>5, <1>6, <1>7

-----------------------------------------------------------------------------
(* The registers and the states of the hardware, one part replaced.        *)

LEMMA FpgaRecord ==
  ASSUME NEW h \in Fpgas
  PROVE  h = [scan |-> h.scan, offset |-> h.offset, notch |-> h.notch, fsm |-> h.fsm, level |-> h.level, receiving |-> h.receiving]
  BY DEF Fpgas

LEMMA FpgaFields ==
  ASSUME NEW h \in Fpgas
  PROVE  /\ h.scan \in [Slots -> {0, 1}]
         /\ h.offset \in [Slots -> Words]
         /\ h.notch \in 0 .. 63
         /\ h.fsm \in BOOLEAN
         /\ h.level \in {0, 1}
         /\ h.receiving \in BOOLEAN
  BY DEF Fpgas

LEMMA FpgaUpdates ==
  ASSUME NEW h, h = [scan |-> h.scan, offset |-> h.offset, notch |-> h.notch, fsm |-> h.fsm, level |-> h.level, receiving |-> h.receiving], NEW x
  PROVE  /\ [h EXCEPT !.scan = x] = [scan |-> x, offset |-> h.offset, notch |-> h.notch, fsm |-> h.fsm, level |-> h.level, receiving |-> h.receiving]
         /\ [h EXCEPT !.offset = x] = [scan |-> h.scan, offset |-> x, notch |-> h.notch, fsm |-> h.fsm, level |-> h.level, receiving |-> h.receiving]
         /\ [h EXCEPT !.notch = x] = [scan |-> h.scan, offset |-> h.offset, notch |-> x, fsm |-> h.fsm, level |-> h.level, receiving |-> h.receiving]
         /\ [h EXCEPT !.fsm = x] = [scan |-> h.scan, offset |-> h.offset, notch |-> h.notch, fsm |-> x, level |-> h.level, receiving |-> h.receiving]
         /\ [h EXCEPT !.level = x] = [scan |-> h.scan, offset |-> h.offset, notch |-> h.notch, fsm |-> h.fsm, level |-> x, receiving |-> h.receiving]
         /\ [h EXCEPT !.receiving = x] = [scan |-> h.scan, offset |-> h.offset, notch |-> h.notch, fsm |-> h.fsm, level |-> h.level, receiving |-> x]
  OBVIOUS

LEMMA ChipRecord ==
  ASSUME NEW h \in Chips
  PROVE  h = [clock |-> h.clock, peaks |-> h.peaks, ifc |-> h.ifc, std |-> h.std, fsk |-> h.fsk, agc |-> h.agc, arb |-> h.arb, drift |-> h.drift]
  BY DEF Chips

LEMMA ChipFields ==
  ASSUME NEW h \in Chips
  PROVE  /\ h.clock \in BOOLEAN
         /\ h.peaks \in [{"multi", "std", "tx"} -> {<<1, 2>>, <<3, 4>>}]
         /\ h.ifc \in [Chains -> Chain]
         /\ h.std \in Demodulator
         /\ h.fsk \in Demodulator
         /\ h.agc \in {"none", "cal", "agc", "damaged"}
         /\ h.arb \in {"none", "arb", "damaged"}
         /\ h.drift \in BOOLEAN
  BY DEF Chips

LEMMA ChipMember ==
  ASSUME NEW clock_ \in BOOLEAN,
         NEW peaks_ \in [{"multi", "std", "tx"} -> {<<1, 2>>, <<3, 4>>}],
         NEW ifc_ \in [Chains -> Chain],
         NEW std_ \in Demodulator,
         NEW fsk_ \in Demodulator,
         NEW agc_ \in {"none", "cal", "agc", "damaged"},
         NEW arb_ \in {"none", "arb", "damaged"},
         NEW drift_ \in BOOLEAN
  PROVE  [clock |-> clock_, peaks |-> peaks_, ifc |-> ifc_, std |-> std_, fsk |-> fsk_, agc |-> agc_, arb |-> arb_, drift |-> drift_] \in Chips
  BY DEF Chips

LEMMA ChipUpdates ==
  ASSUME NEW h, h = [clock |-> h.clock, peaks |-> h.peaks, ifc |-> h.ifc, std |-> h.std, fsk |-> h.fsk, agc |-> h.agc, arb |-> h.arb, drift |-> h.drift], NEW x
  PROVE  /\ [h EXCEPT !.clock = x] = [clock |-> x, peaks |-> h.peaks, ifc |-> h.ifc, std |-> h.std, fsk |-> h.fsk, agc |-> h.agc, arb |-> h.arb, drift |-> h.drift]
         /\ [h EXCEPT !.peaks = x] = [clock |-> h.clock, peaks |-> x, ifc |-> h.ifc, std |-> h.std, fsk |-> h.fsk, agc |-> h.agc, arb |-> h.arb, drift |-> h.drift]
         /\ [h EXCEPT !.ifc = x] = [clock |-> h.clock, peaks |-> h.peaks, ifc |-> x, std |-> h.std, fsk |-> h.fsk, agc |-> h.agc, arb |-> h.arb, drift |-> h.drift]
         /\ [h EXCEPT !.std = x] = [clock |-> h.clock, peaks |-> h.peaks, ifc |-> h.ifc, std |-> x, fsk |-> h.fsk, agc |-> h.agc, arb |-> h.arb, drift |-> h.drift]
         /\ [h EXCEPT !.fsk = x] = [clock |-> h.clock, peaks |-> h.peaks, ifc |-> h.ifc, std |-> h.std, fsk |-> x, agc |-> h.agc, arb |-> h.arb, drift |-> h.drift]
         /\ [h EXCEPT !.agc = x] = [clock |-> h.clock, peaks |-> h.peaks, ifc |-> h.ifc, std |-> h.std, fsk |-> h.fsk, agc |-> x, arb |-> h.arb, drift |-> h.drift]
         /\ [h EXCEPT !.arb = x] = [clock |-> h.clock, peaks |-> h.peaks, ifc |-> h.ifc, std |-> h.std, fsk |-> h.fsk, agc |-> h.agc, arb |-> x, drift |-> h.drift]
         /\ [h EXCEPT !.drift = x] = [clock |-> h.clock, peaks |-> h.peaks, ifc |-> h.ifc, std |-> h.std, fsk |-> h.fsk, agc |-> h.agc, arb |-> h.arb, drift |-> x]
  OBVIOUS

LEMMA AgcRecord ==
  ASSUME NEW h \in Agcs
  PROVE  h = [phase |-> h.phase, lut |-> h.lut, msb |-> h.msb, option |-> h.option, select |-> h.select]
  BY DEF Agcs

LEMMA AgcFields ==
  ASSUME NEW h \in Agcs
  PROVE  /\ h.phase \in {"boot", "msb", "option", "select", "run"}
         /\ h.lut \in Seq(Words)
         /\ h.msb \in Words
         /\ h.option \in Words
         /\ h.select \in Words
  BY DEF Agcs

LEMMA AgcUpdates ==
  ASSUME NEW h, h = [phase |-> h.phase, lut |-> h.lut, msb |-> h.msb, option |-> h.option, select |-> h.select], NEW x
  PROVE  /\ [h EXCEPT !.phase = x] = [phase |-> x, lut |-> h.lut, msb |-> h.msb, option |-> h.option, select |-> h.select]
         /\ [h EXCEPT !.lut = x] = [phase |-> h.phase, lut |-> x, msb |-> h.msb, option |-> h.option, select |-> h.select]
         /\ [h EXCEPT !.msb = x] = [phase |-> h.phase, lut |-> h.lut, msb |-> x, option |-> h.option, select |-> h.select]
         /\ [h EXCEPT !.option = x] = [phase |-> h.phase, lut |-> h.lut, msb |-> h.msb, option |-> x, select |-> h.select]
         /\ [h EXCEPT !.select = x] = [phase |-> h.phase, lut |-> h.lut, msb |-> h.msb, option |-> h.option, select |-> x]
  OBVIOUS

LEMMA ResetTypes ==
  ASSUME ConfigurationOK
  PROVE  FpgaReset \in Fpgas /\ ChipReset \in Chips /\ AgcBoot \in Agcs /\ RadioOff \in Radios
<1>1. FpgaReset \in Fpgas
  BY DEF FpgaReset, Fpgas, Words
<1>2. ChipReset \in Chips
  <2>1. IfOff \in Chain /\ [bw |-> 0, dr |-> 0] \in Demodulator
    BY BringupAssumption DEF IfOff, Chain, Demodulator
  <2>2. [c \in Chains |-> IfOff] \in [Chains -> Chain]
    BY <2>1
  <2>3. [modem \in {"multi", "std", "tx"} |-> <<1, 2>>] \in [{"multi", "std", "tx"} -> {<<1, 2>>, <<3, 4>>}]
    OBVIOUS
  <2> QED BY <2>1, <2>2, <2>3 DEF ChipReset, Chips
<1>3. AgcBoot \in Agcs
  BY DEF AgcBoot, Agcs, Words
<1>4. RadioOff \in Radios
  BY DEF RadioOff, Radios
<1> QED BY <1>1, <1>2, <1>3, <1>4

LEMMA AfterResetIs ==
  ASSUME ConfigurationOK, NEW regs \in Fpgas
  PROVE  /\ AfterReset(regs) \in Fpgas
         /\ AfterReset(regs) = [scan |-> [i \in Slots |-> 0], offset |-> [i \in Slots |-> 0], notch |-> 0, fsm |-> FALSE,
                                level |-> 0, receiving |-> regs.receiving /\ board.sx127x = "SX1272"]
<1> DEFINE on == regs.receiving /\ board.sx127x = "SX1272"
<1>1. FpgaReset \in Fpgas
  BY ResetTypes
<1>2. on \in BOOLEAN
  OBVIOUS
<1>3. AfterReset(regs) = [FpgaReset EXCEPT !.receiving = on]
  BY DEF AfterReset
<1> HIDE DEF on
<1>4. AfterReset(regs) = [scan |-> FpgaReset.scan, offset |-> FpgaReset.offset, notch |-> FpgaReset.notch,
                          fsm |-> FpgaReset.fsm, level |-> FpgaReset.level, receiving |-> on]
  BY <1>1, <1>3, FpgaRecord, FpgaUpdates
<1>5. AfterReset(regs) \in Fpgas
  <2>1. /\ FpgaReset.scan \in [Slots -> {0, 1}] /\ FpgaReset.offset \in [Slots -> Words] /\ FpgaReset.notch \in 0 .. 63
        /\ FpgaReset.fsm \in BOOLEAN /\ FpgaReset.level \in {0, 1}
    BY <1>1, FpgaFields
  <2>2. [scan |-> FpgaReset.scan, offset |-> FpgaReset.offset, notch |-> FpgaReset.notch,
         fsm |-> FpgaReset.fsm, level |-> FpgaReset.level, receiving |-> on] \in Fpgas
    BY <1>2, <2>1, Zenon DEF Fpgas
  <2> QED BY <1>4, <2>2, Zenon
<1>6. /\ FpgaReset.scan = [i \in Slots |-> 0] /\ FpgaReset.offset = [i \in Slots |-> 0] /\ FpgaReset.notch = 0
      /\ FpgaReset.fsm = FALSE /\ FpgaReset.level = 0
  BY DEF FpgaReset
<1>7. AfterReset(regs) = [scan |-> [i \in Slots |-> 0], offset |-> [i \in Slots |-> 0], notch |-> 0, fsm |-> FALSE,
                          level |-> 0, receiving |-> on]
  BY <1>4, <1>6
<1> QED BY <1>5, <1>7 DEF on

LEMMA ConfigureIs ==
  ASSUME ConfigurationOK, NEW regs \in Fpgas
  PROVE  \E notch \in 0 .. 63 :
           /\ lgw_fpga_configure(regs) = [scan |-> regs.scan, offset |-> regs.offset, notch |-> notch, fsm |-> regs.fsm,
                                          level |-> regs.level, receiving |-> regs.receiving]
           /\ lgw_fpga_configure(regs) \in Fpgas
<1> DEFINE notch == IF board.notch THEN NotchOffset(NotchFreq) ELSE regs.notch
<1>1. notch \in 0 .. 63
  <2>1. \A f : NotchOffset(f) \in 0 .. 63
    <3> TAKE f
    <3>1. PICK g : g = IF f \in NotchFreqs THEN f ELSE 129000
      OBVIOUS
    <3>2. g \in Nat /\ g > 0
      BY <3>1 DEF NotchFreqs
    <3>3. 2 * g \in Nat /\ 2 * g > 0
      BY <3>2
    <3>4. PICK d : d = 2 * g
      OBVIOUS
    <3>5. d \in Nat /\ d > 0
      BY <3>3, <3>4
    <3>6. 32000000 \div d \in Int
      BY <3>5
    <3>7. NotchOffset(f) = (32000000 \div d - 64) % 64
      BY <3>1, <3>4 DEF NotchOffset
    <3>8. PICK q : q = 32000000 \div d
      OBVIOUS
    <3>9. q \in Int /\ NotchOffset(f) = (q - 64) % 64
      BY <3>6, <3>7, <3>8
    <3> QED BY <3>9
  <2>2. regs.notch \in 0 .. 63
    BY FpgaFields
  <2> QED BY <2>1, <2>2
<1>2. lgw_fpga_configure(regs) = [regs EXCEPT !.notch = notch]
  BY DEF lgw_fpga_configure
<1> HIDE DEF notch
<1>3. lgw_fpga_configure(regs) = [scan |-> regs.scan, offset |-> regs.offset, notch |-> notch, fsm |-> regs.fsm,
                                  level |-> regs.level, receiving |-> regs.receiving]
  BY <1>2, FpgaRecord, FpgaUpdates
<1>4. lgw_fpga_configure(regs) \in Fpgas
  <2>1. /\ regs.scan \in [Slots -> {0, 1}] /\ regs.offset \in [Slots -> Words]
        /\ regs.fsm \in BOOLEAN /\ regs.level \in {0, 1} /\ regs.receiving \in BOOLEAN
    BY FpgaFields
  <2>2. [scan |-> regs.scan, offset |-> regs.offset, notch |-> notch, fsm |-> regs.fsm,
         level |-> regs.level, receiving |-> regs.receiving] \in Fpgas
    BY <1>1, <2>1, Zenon DEF Fpgas
  <2> QED BY <1>3, <2>2, Zenon
<1> QED BY <1>1, <1>3, <1>4

(* The registers after lbt_setup has got as far as slot n.                 *)
LEMMA ScanRegistersIs ==
  ASSUME ConfigurationOK, fpga \in Fpgas, NEW n \in Nat, NEW level \in {0, 1}
  PROVE  LET start == lbt_start_freq(board.initial)
             regs == ScanRegisters(n, level)
         IN /\ regs \in Fpgas
            /\ regs.notch = fpga.notch /\ regs.fsm = fpga.fsm /\ regs.level = level /\ regs.receiving = TRUE
            /\ regs.offset = [i \in Slots |-> IF i <= n THEN OffsetsWritten(lbt, start)[i] ELSE fpga.offset[i]]
            /\ regs.scan = [i \in Slots |-> IF i <= n THEN ScansWritten(lbt, start, fpga.scan)[i] ELSE fpga.scan[i]]
<1> DEFINE start == lbt_start_freq(board.initial)
           offset == [i \in Slots |-> IF i <= n THEN OffsetsWritten(lbt, start)[i] ELSE fpga.offset[i]]
           scan == [i \in Slots |-> IF i <= n THEN ScansWritten(lbt, start, fpga.scan)[i] ELSE fpga.scan[i]]
           regs == ScanRegisters(n, level)
<1>0. /\ fpga.scan \in [Slots -> {0, 1}] /\ fpga.offset \in [Slots -> Words] /\ fpga.notch \in 0 .. 63
      /\ fpga.fsm \in BOOLEAN /\ fpga.level \in {0, 1} /\ fpga.receiving \in BOOLEAN
  BY FpgaFields
<1>1. scan \in [Slots -> {0, 1}]
  <2>1. \A i \in Slots : ScansWritten(lbt, start, fpga.scan)[i] \in {0, 1}
    BY <1>0 DEF ScansWritten
  <2> HIDE DEF start
  <2> QED BY <1>0, <2>1
<1>2. offset \in [Slots -> Words]
  <2>1. start \in Int
    BY DEF lbt_start_freq
  <2> HIDE DEF start
  <2>2. \A i \in Slots : OffsetsWritten(lbt, start)[i] \in Words
    <3> TAKE i \in Slots
    <3>1. PICK x : x = Filled(lbt, start)[i].freq_hz
      OBVIOUS
    <3>2. x \in Int
      <4>1. Filled(lbt, start)[i] = IF i <= Len(lbt.channels) THEN lbt.channels[i]
                                    ELSE [freq_hz |-> start, scan_time_us |-> 128]
        BY DEF Filled
      <4>2. i \in Nat \ {0}
        BY BringupAssumption DEF Slots
      <4>3. CASE i <= Len(lbt.channels)
        <5>1. lbt.channels \in Seq([freq_hz : Nat, scan_time_us : Nat])
          BY DEF ConfigurationOK, LbtConf
        <5>2. lbt.channels[i] \in [freq_hz : Nat, scan_time_us : Nat]
          <6>1. i \in 1 .. Len(lbt.channels)
            BY <4>2, <4>3, <5>1, LenProperties
          <6> QED BY <5>1, <6>1, ElementOfSeq
        <5> QED BY <3>1, <4>1, <4>3, <5>2
      <4>4. CASE ~(i <= Len(lbt.channels))
        BY <2>1, <3>1, <4>1, <4>4
      <4> QED BY <4>3, <4>4
    <3>3. OffsetsWritten(lbt, start)[i] = ((x - start) \div 100000) % 256
      BY <3>1 DEF OffsetsWritten
    <3>4. PICK q \in Int : q = (x - start) \div 100000
      BY <2>1, <3>2
    <3> QED BY <3>3, <3>4 DEF Words
  <2> QED BY <1>0, <2>2
<1>3. PICK f1 : f1 = [fpga EXCEPT !.receiving = TRUE]
  OBVIOUS
<1>4. PICK f2 : f2 = [f1 EXCEPT !.level = level]
  OBVIOUS
<1>5. PICK f3 : f3 = [f2 EXCEPT !.offset = offset]
  OBVIOUS
<1>6. PICK f4 : f4 = [f3 EXCEPT !.scan = scan]
  OBVIOUS
<1>7. regs = [f1 EXCEPT !.level = level, !.offset = offset, !.scan = scan]
  BY <1>3 DEF ScanRegisters, setup_FSK
<1>8. f1 = [scan |-> fpga.scan, offset |-> fpga.offset, notch |-> fpga.notch, fsm |-> fpga.fsm,
            level |-> fpga.level, receiving |-> TRUE]
  BY <1>3, FpgaRecord, FpgaUpdates
<1>9. f2 = [scan |-> fpga.scan, offset |-> fpga.offset, notch |-> fpga.notch, fsm |-> fpga.fsm,
            level |-> level, receiving |-> TRUE]
  <2>1. f1 \in Fpgas
    BY <1>0, <1>8, Zenon DEF Fpgas
  <2>2. f2 = [scan |-> f1.scan, offset |-> f1.offset, notch |-> f1.notch, fsm |-> f1.fsm,
              level |-> level, receiving |-> f1.receiving]
    BY <2>1, <1>4, FpgaRecord, FpgaUpdates
  <2> QED BY <1>8, <2>2
<1>10. f2 \in Fpgas
  BY <1>0, <1>9, Zenon DEF Fpgas
<1> HIDE DEF offset, scan
<1>11. f3 = [scan |-> fpga.scan, offset |-> offset, notch |-> fpga.notch, fsm |-> fpga.fsm,
             level |-> level, receiving |-> TRUE]
  <2>1. f3 = [scan |-> f2.scan, offset |-> offset, notch |-> f2.notch, fsm |-> f2.fsm,
              level |-> f2.level, receiving |-> f2.receiving]
    BY <1>10, <1>5, FpgaRecord, FpgaUpdates
  <2> QED BY <1>9, <2>1
<1>12. f3 \in Fpgas
  BY <1>0, <1>2, <1>11, Zenon DEF Fpgas
<1>13. f4 = [scan |-> scan, offset |-> offset, notch |-> fpga.notch, fsm |-> fpga.fsm,
             level |-> level, receiving |-> TRUE]
  <2>1. f4 = [scan |-> scan, offset |-> f3.offset, notch |-> f3.notch, fsm |-> f3.fsm,
              level |-> f3.level, receiving |-> f3.receiving]
    BY <1>12, <1>6, FpgaRecord, FpgaUpdates
  <2> QED BY <1>11, <2>1
<1>14. f4 \in Fpgas
  BY <1>0, <1>1, <1>2, <1>13, Zenon DEF Fpgas
<1>15. regs = f4
  BY <1>7, <1>4, <1>5, <1>6, Zenon
<1> QED BY <1>13, <1>14, <1>15 DEF offset, scan

-----------------------------------------------------------------------------
(* Types. *)

LEMMA ConfigurationStep ==
  ASSUME TypeOK, Next
  PROVE  ConfigurationOK'
<1>0. ConfigurationOK
  BY DEF TypeOK
<1>1. CASE rak831_config
  <2>1. lbt' = lbt /\ board' = board
    BY <1>1 DEF rak831_config
  <2>2. CASE UNCHANGED <<hal, lgwm, wanted>>
    BY <2>1, <2>2, <1>0 DEF ConfigurationOK
  <2>3. CASE ~UNCHANGED <<hal, lgwm, wanted>>
    <3>1. PICK debug \in Debugs, global \in Globals, local \in Locals :
            /\ ~Broken(Read(debug, global, local))
            /\ hal' = Configured(Read(debug, global, local)).hal
            /\ lgwm' = Configured(Read(debug, global, local)).lgwm
            /\ wanted' = Wanted(debug, global, local)
      BY <1>1, <2>3, Zenon DEF rak831_config
    <3>2. HalOk(hal') /\ lgwm' \in Nat /\ wanted' \in [public : BOOLEAN, hidden : BOOLEAN, lgwm : Nat]
      BY <3>1, FilesConfigured
    <3> QED BY <2>1, <3>2, <1>0 DEF ConfigurationOK, HalOk
  <2> QED BY <2>2, <2>3
<1>2. CASE \E conf \in LbtConfs : lgw_lbt_setconf(conf)
  <2>1. PICK conf \in LbtConfs : lgw_lbt_setconf(conf)
    BY <1>2
  <2>2. lbt' = conf /\ UNCHANGED <<hal, lgwm, board, wanted>> /\ Len(conf.channels) \in 1 .. LbtChannels
    BY <2>1 DEF lgw_lbt_setconf, lbt_setconf_accepts, Slots
  <2>3. conf \in LbtConf
    BY LbtAssumption
  <2>4. Len(lbt'.channels) \in 0 .. LbtChannels
    BY <2>2, BringupAssumption
  <2> QED BY <2>2, <2>3, <2>4, <1>0 DEF ConfigurationOK
<1>3. CASE UNCHANGED <<hal, lgwm, lbt, board, wanted>>
  BY <1>0, <1>3 DEF ConfigurationOK
<1>4. ASSUME NEW c \in RfChain, lgw_setup_sx125x(c) \/ lock_pll(c) PROVE UNCHANGED <<hal, lgwm, lbt, board, wanted>>
  BY <1>4 DEF lgw_setup_sx125x, lock_pll, configuration
<1>5. lgw_start \/ rak831_start \/ lgw_stop \/ lgw_send => UNCHANGED <<hal, lgwm, lbt, board, wanted>>
  BY <1>4 DEF lgw_start, rak831_start, lgw_stop, lgw_send, lgw_connect, lbt_setup, lbt_start, Clock, Calibrate,
              Modems, load_firmware, AgcInit, configuration
<1> QED BY <1>1, <1>2, <1>3, <1>5 DEF Next

LEMMA AskedBy ==
  ASSUME Next
  PROVE  lgw_stop \/ lgw_send \/ UNCHANGED asked
<1>1. ASSUME NEW c \in RfChain, lgw_setup_sx125x(c) \/ lock_pll(c) PROVE UNCHANGED asked
  BY <1>1 DEF lgw_setup_sx125x, lock_pll, configuration
<1>2. ASSUME NEW conf \in LbtConfs, lgw_lbt_setconf(conf) PROVE UNCHANGED asked
  BY <1>2 DEF lgw_lbt_setconf
<1>3. lgw_start \/ rak831_start \/ rak831_config => UNCHANGED asked
  BY <1>1 DEF lgw_start, rak831_start, rak831_config, lgw_connect, lbt_setup, lbt_start, Clock, Calibrate,
              Modems, load_firmware, AgcInit, configuration
<1> QED BY <1>2, <1>3 DEF Next

LEMMA AskedStep ==
  ASSUME TypeOK, Next
  PROVE  AskedOK'
<1>0. AskedOK
  BY DEF TypeOK
<1>1. CASE lgw_stop
  BY <1>1 DEF lgw_stop, NotAsked, AskedOK
<1>2. CASE lgw_send
  <2>1. PICK pkt \in Packets, odd \in Frees, even \in Frees, wait \in Starts :
          LET free == [i \in Slots |-> IF i % 2 = 1 THEN odd ELSE even]
              time == odd + wait
              start == Start(pkt, time)
          IN \E read \in {time} \cup (IF pkt.tx_mode = "ON_GPS" THEN {0} ELSE {}),
                shown \in [Decoded(lbt, pkt) -> Shown(free)] :
               asked' = [verdict |-> Verdict(lbt, pkt, Start(pkt, read), shown),
                         known   |-> read = time /\ Heard(pkt, free, shown) /\ Comparable(pkt, start, free),
                         overdue |-> Overdue(pkt, start, free)]
    BY <1>2 DEF lgw_send
  <2>2. ASSUME NEW start, NEW shown
        PROVE  Verdict(lbt, pkt, start, shown) \in {"allowed", "busy", "error"}
    BY DEF Verdict
  <2> DEFINE free == [i \in Slots |-> IF i % 2 = 1 THEN odd ELSE even]
             time == odd + wait
             start == Start(pkt, time)
  <2>3. \E read, shown :
          asked' = [verdict |-> Verdict(lbt, pkt, Start(pkt, read), shown),
                    known   |-> read = time /\ Heard(pkt, free, shown) /\ Comparable(pkt, start, free),
                    overdue |-> Overdue(pkt, start, free)]
    BY <2>1
  <2> HIDE DEF free, start, time
  <2>4. PICK read, shown :
          asked' = [verdict |-> Verdict(lbt, pkt, Start(pkt, read), shown),
                    known   |-> read = time /\ Heard(pkt, free, shown) /\ Comparable(pkt, start, free),
                    overdue |-> Overdue(pkt, start, free)]
    BY <2>3
  <2> DEFINE known == read = time /\ Heard(pkt, free, shown) /\ Comparable(pkt, start, free)
  <2>5. known \in BOOLEAN /\ Overdue(pkt, start, free) \in BOOLEAN
    BY DEF Overdue
  <2>6. asked' = [verdict |-> Verdict(lbt, pkt, Start(pkt, read), shown), known |-> known,
                  overdue |-> Overdue(pkt, start, free)]
    BY <2>4
  <2> HIDE DEF known
  <2> QED BY <2>2, <2>5, <2>6 DEF AskedOK
<1>3. CASE UNCHANGED asked
  BY <1>0, <1>3 DEF AskedOK
<1> QED BY <1>1, <1>2, <1>3, AskedBy

LEMMA ControlStep ==
  ASSUME TypeOK, Next
  PROVE  ControlOK'
<1>0. /\ ControlOK /\ PLL_LOCK_MAX_ATTEMPTS \in Nat \ {0} /\ MaxFaults \in Nat
      /\ attempts \in 0 .. PLL_LOCK_MAX_ATTEMPTS /\ faults \in 0 .. MaxFaults /\ lost \subseteq Parts
  BY BringupAssumption DEF TypeOK, ControlOK
<1> DEFINE Kind == faults' \in 0 .. MaxFaults /\ lost' \subseteq Parts
           Once == faults < MaxFaults /\ faults' = faults + 1
<1>1. Once \/ faults' = faults => faults' \in 0 .. MaxFaults
  BY <1>0
<1>2. Fault => Kind /\ pc' = "failed"
  BY <1>0, <1>1 DEF Fault
<1>3. UNCHANGED failures => Kind
  BY <1>0 DEF failures
<1>4. ASSUME NEW part \in Parts, Lose(part) PROVE Kind
  BY <1>0, <1>1, <1>4 DEF Lose
<1>5. CASE rak831_config \/ rak831_start
  <2>1. UNCHANGED <<attempts, failures>> /\ pc' \in {"exited", "configured", "connect"}
    BY <1>5 DEF rak831_config, rak831_start
  <2> QED BY <1>0, <1>3, <2>1 DEF ControlOK
<1>6. CASE lgw_stop
  <2>1. UNCHANGED <<attempts, lost>> /\ pc' = "stopped" /\ (Once \/ faults' = faults)
    BY <1>6 DEF lgw_stop
  <2> QED BY <1>0, <1>1, <2>1 DEF ControlOK
<1>7. CASE lgw_send \/ \E conf \in LbtConfs : lgw_lbt_setconf(conf)
  <2>1. UNCHANGED <<pc, attempts, failures>>
    BY <1>7 DEF lgw_send, lgw_lbt_setconf
  <2> QED BY <1>0, <1>3, <2>1 DEF ControlOK
<1>8. ASSUME NEW c \in RfChain, lgw_setup_sx125x(c) PROVE ControlOK'
  <2>1. UNCHANGED attempts /\ pc' \in {"pll0", "pll1", "setup1", "lbt"} /\ (UNCHANGED failures \/ Lose(Part(c)))
    BY <1>8 DEF lgw_setup_sx125x, Lock, After
  <2>2. Part(c) \in Parts
    BY DEF Part, Parts
  <2> QED BY <1>0, <1>3, <1>4, <2>1, <2>2 DEF ControlOK
<1>9. ASSUME NEW c \in RfChain, lock_pll(c) PROVE ControlOK'
  <2>1. attempts' \in 0 .. PLL_LOCK_MAX_ATTEMPTS
    BY <1>0, <1>9 DEF lock_pll, Attempt
  <2>2. Kind
    <3>1. UNCHANGED failures \/ Lose(Part(c)) \/ ((Once \/ faults' = faults) /\ lost' = lost)
      BY <1>9 DEF lock_pll
    <3>2. Part(c) \in Parts
      BY DEF Part, Parts
    <3> QED BY <1>0, <1>1, <1>3, <1>4, <3>1, <3>2
  <2>3. pc' \in {"setup1", "lbt", "failed"} \/ pc' = pc
    BY <1>9 DEF lock_pll, After
  <2> QED BY <1>0, <2>1, <2>2, <2>3 DEF ControlOK
<1>10. CASE lgw_connect
  <2>1. UNCHANGED attempts /\ pc' \in {"failed", "setup0"} /\ (Once \/ faults' = faults)
    BY <1>10 DEF lgw_connect
  <2>2. lost' = {} \/ lost' \subseteq Losable
    BY <1>10 DEF lgw_connect
  <2>3. Losable \subseteq Parts
    BY DEF Losable, Parts
  <2> QED BY <1>0, <1>1, <2>1, <2>2, <2>3 DEF ControlOK
<1>11. CASE lbt_setup \/ lbt_start \/ Calibrate \/ load_firmware
  <2>1. UNCHANGED attempts /\ (Fault \/ UNCHANGED failures)
    BY <1>11 DEF lbt_setup, lbt_start, Calibrate, load_firmware
  <2>2. Fault \/ pc' \in {"clock", "failed", "fsm", "modems", "agc"}
    BY <1>11 DEF lbt_setup, lbt_start, Calibrate, load_firmware
  <2> QED BY <1>0, <1>2, <1>3, <2>1, <2>2 DEF ControlOK
<1>12. CASE Clock
  <2>1. UNCHANGED attempts /\ pc' = "calibrate" /\ (UNCHANGED failures \/ Lose("clock"))
    BY <1>12 DEF Clock
  <2> QED BY <1>0, <1>3, <1>4, <2>1 DEF ControlOK, Parts
<1>13. CASE Modems
  <2>1. UNCHANGED attempts /\ pc' \in {"load", "failed"} /\ (UNCHANGED failures \/ Lose("modems"))
    BY <1>13 DEF Modems
  <2> QED BY <1>0, <1>3, <1>4, <2>1 DEF ControlOK, Parts
<1>14. CASE AgcInit
  <2>1. UNCHANGED attempts /\ (Fault \/ pc' \in {"failed", "started"} \/ pc' = pc)
    BY <1>14 DEF AgcInit, Compare
  <2>2. Kind
    <3>1. Fault \/ UNCHANGED failures \/ (Once /\ lost' = lost)
      BY <1>14 DEF AgcInit
    <3> QED BY <1>0, <1>1, <1>2, <1>3, <3>1
  <2> QED BY <1>0, <1>2, <2>1, <2>2 DEF ControlOK
<1> QED BY <1>5, <1>6, <1>7, <1>8, <1>9, <1>10, <1>11, <1>12, <1>13, <1>14 DEF Next, lgw_start

LEMMA FpgaStep ==
  ASSUME TypeOK, Next
  PROVE  fpga' \in Fpgas
<1>0. fpga \in Fpgas /\ ConfigurationOK
  BY DEF TypeOK, HardwareOK
<1>1. CASE lgw_connect
  <2>1. AfterReset(fpga) \in Fpgas
    BY <1>0, AfterResetIs
  <2>2. lgw_fpga_configure(AfterReset(fpga)) \in Fpgas /\ lgw_fpga_configure(fpga) \in Fpgas
    BY <1>0, <2>1, ConfigureIs
  <2>3. fpga' \in {fpga, AfterReset(fpga), lgw_fpga_configure(fpga), lgw_fpga_configure(AfterReset(fpga))}
    BY <1>1 DEF lgw_connect
  <2> QED BY <1>0, <2>1, <2>2, <2>3
<1>2. CASE lbt_setup
  <2>1. ASSUME NEW i \in 1 .. 2, fpga' = [fpga EXCEPT !.level = Probes[i].level, !.receiving = FALSE]
        PROVE  fpga' \in Fpgas
    <3>1. PICK level \in {0, 1} : level = Probes[i].level
      BY DEF Probes
    <3>2. PICK f1 : f1 = [fpga EXCEPT !.level = level]
      OBVIOUS
    <3>3. fpga' = [f1 EXCEPT !.receiving = FALSE]
      BY <2>1, <3>1, <3>2, Zenon
    <3>4. f1 = [scan |-> fpga.scan, offset |-> fpga.offset, notch |-> fpga.notch, fsm |-> fpga.fsm,
                level |-> level, receiving |-> fpga.receiving]
      BY <1>0, <3>2, FpgaRecord, FpgaUpdates
    <3>5. /\ fpga.scan \in [Slots -> {0, 1}] /\ fpga.offset \in [Slots -> Words] /\ fpga.notch \in 0 .. 63
          /\ fpga.fsm \in BOOLEAN /\ fpga.receiving \in BOOLEAN
      BY <1>0, FpgaFields
    <3>6. f1 \in Fpgas
      BY <3>4, <3>5, Zenon DEF Fpgas
    <3>7. fpga' = [scan |-> f1.scan, offset |-> f1.offset, notch |-> f1.notch, fsm |-> f1.fsm,
                   level |-> f1.level, receiving |-> FALSE]
      BY <3>3, <3>6, FpgaRecord, FpgaUpdates
    <3>8. fpga' = [scan |-> fpga.scan, offset |-> fpga.offset, notch |-> fpga.notch, fsm |-> fpga.fsm,
                   level |-> level, receiving |-> FALSE]
      BY <3>4, <3>7
    <3> QED BY <3>5, <3>8, Zenon DEF Fpgas
  <2>2. ASSUME NEW i \in Found(board.sx127x), NEW n \in {0} \cup Accepted(lbt, lbt_start_freq(board.initial)),
               fpga' = ScanRegisters(n, Probes[i].level)
        PROVE  fpga' \in Fpgas
    <3>1. Probes[i].level \in {0, 1}
      BY DEF Found, Probes
    <3>2. n \in Nat
      BY BringupAssumption DEF Accepted, Slots
    <3> QED BY <1>0, <2>2, <3>1, <3>2, ScanRegistersIs
  <2> QED BY <1>0, <1>2, <2>1, <2>2 DEF lbt_setup
<1>3. CASE lbt_start
  <2>1. [fpga EXCEPT !.fsm = TRUE] \in Fpgas
    <3>1. [fpga EXCEPT !.fsm = TRUE] = [scan |-> fpga.scan, offset |-> fpga.offset, notch |-> fpga.notch, fsm |-> TRUE,
                                        level |-> fpga.level, receiving |-> fpga.receiving]
      <4>1. fpga = [scan |-> fpga.scan, offset |-> fpga.offset, notch |-> fpga.notch, fsm |-> fpga.fsm,
                    level |-> fpga.level, receiving |-> fpga.receiving]
        BY <1>0, FpgaRecord, Zenon
      <4> QED BY <4>1, FpgaUpdates, Zenon
    <3>2. /\ fpga.scan \in [Slots -> {0, 1}] /\ fpga.offset \in [Slots -> Words] /\ fpga.notch \in 0 .. 63
          /\ fpga.level \in {0, 1} /\ fpga.receiving \in BOOLEAN
      BY <1>0, FpgaFields
    <3>3. [scan |-> fpga.scan, offset |-> fpga.offset, notch |-> fpga.notch, fsm |-> TRUE,
           level |-> fpga.level, receiving |-> fpga.receiving] \in Fpgas
      BY <3>2, Zenon DEF Fpgas
    <3> QED BY <3>1, <3>3, Zenon
  <2> QED BY <1>0, <1>3, <2>1 DEF lbt_start
<1>4. ASSUME NEW c \in RfChain, lgw_setup_sx125x(c) \/ lock_pll(c) PROVE UNCHANGED fpga
  BY <1>4 DEF lgw_setup_sx125x, lock_pll
<1>5. ASSUME NEW conf \in LbtConfs, lgw_lbt_setconf(conf) PROVE UNCHANGED fpga
  BY <1>5 DEF lgw_lbt_setconf, hardware
<1>6. rak831_config \/ rak831_start \/ lgw_stop \/ lgw_send \/ Clock \/ Calibrate \/ Modems \/ load_firmware \/ AgcInit
      => UNCHANGED fpga
  BY DEF rak831_config, rak831_start, lgw_stop, lgw_send, Clock, Calibrate, Modems, load_firmware, AgcInit, hardware
<1> QED BY <1>0, <1>1, <1>2, <1>3, <1>4, <1>5, <1>6 DEF Next, lgw_start

LEMMA RadioStep ==
  ASSUME TypeOK, Next
  PROVE  radio' \in [RfChain -> Radios]
<1>0. radio \in [RfChain -> Radios] /\ ConfigurationOK
  BY DEF TypeOK, HardwareOK
<1>1. CASE lgw_connect \/ lgw_stop
  <2>1. [c \in RfChain |-> RadioOff] \in [RfChain -> Radios]
    BY <1>0, ResetTypes
  <2>2. radio' = radio \/ radio' = [c \in RfChain |-> RadioOff]
    BY <1>1 DEF lgw_connect, lgw_stop
  <2> QED BY <1>0, <2>1, <2>2
<1>2. ASSUME NEW c \in RfChain, lgw_setup_sx125x(c) \/ lock_pll(c) PROVE radio' \in [RfChain -> Radios]
  <2>1. radio[c] \in Radios /\ radio[c].freq \in Nat /\ radio[c].clock \in BOOLEAN
    BY <1>0 DEF Radios
  <2>2. Freq(c) \in Nat
    <3>1. hal.rf \in [RfChain -> RadioSettings]
      BY <1>0, HalFields DEF ConfigurationOK
    <3>2. hal.rf[c].freq \in Nat
      BY <3>1 DEF RadioSettings
    <3> QED BY <2>1, <3>2 DEF Freq
  <2>3. ASSUME NEW clock \in BOOLEAN, NEW freq \in Nat PROVE Tuned(c, clock, freq) \in Radios
    BY <2>1 DEF Tuned, Radios
  <2>4. CASE lgw_setup_sx125x(c)
    <3>1. \E clock \in BOOLEAN, freq \in Nat : radio' = [radio EXCEPT ![c] = Tuned(c, clock, freq)]
      <4>1. \/ radio' = [radio EXCEPT ![c] = Tuned(c, hal.clkout = c, Freq(c))]
            \/ \E clock \in {radio[c].clock, hal.clkout = c}, freq \in {radio[c].freq, Torn, Freq(c)} :
                 radio' = [radio EXCEPT ![c] = Tuned(c, clock, freq)]
        BY <2>4 DEF lgw_setup_sx125x
      <4>2. (hal.clkout = c) \in BOOLEAN /\ Torn \in Nat
        BY DEF Torn
      <4>3. CASE radio' = [radio EXCEPT ![c] = Tuned(c, hal.clkout = c, Freq(c))]
        BY <2>2, <4>2, <4>3, Zenon
      <4>4. CASE \E clock \in {radio[c].clock, hal.clkout = c}, freq \in {radio[c].freq, Torn, Freq(c)} :
                   radio' = [radio EXCEPT ![c] = Tuned(c, clock, freq)]
        <5>1. PICK clock \in {radio[c].clock, hal.clkout = c}, freq \in {radio[c].freq, Torn, Freq(c)} :
                radio' = [radio EXCEPT ![c] = Tuned(c, clock, freq)]
          BY <4>4
        <5>2. clock \in BOOLEAN /\ freq \in Nat
          BY <2>1, <2>2, <4>2
        <5> QED BY <5>1, <5>2, Zenon
      <4> QED BY <4>1, <4>3, <4>4
    <3> QED BY <1>0, <2>3, <3>1
  <2>5. CASE lock_pll(c)
    <3>1. radio' = radio \/ \E state \in {"locked", "unlocked"} : radio' = [radio EXCEPT ![c].state = state]
      BY <2>5 DEF lock_pll, Switched
    <3>2. ASSUME NEW state \in {"locked", "unlocked"} PROVE [radio[c] EXCEPT !.state = state] \in Radios
      BY <2>1 DEF Radios
    <3> QED BY <1>0, <3>1, <3>2
  <2> QED BY <1>2, <2>4, <2>5
<1>3. ASSUME NEW conf \in LbtConfs, lgw_lbt_setconf(conf) PROVE UNCHANGED radio
  BY <1>3 DEF lgw_lbt_setconf, hardware
<1>4. rak831_config \/ rak831_start \/ lgw_send \/ lbt_setup \/ lbt_start \/ Clock \/ Calibrate \/ Modems \/ load_firmware \/ AgcInit
      => UNCHANGED radio
  BY DEF rak831_config, rak831_start, lgw_send, lbt_setup, lbt_start, Clock, Calibrate, Modems, load_firmware, AgcInit, hardware
<1> QED BY <1>0, <1>1, <1>2, <1>3, <1>4 DEF Next, lgw_start

(* What each step makes of the concentrator.                               *)
LEMMA ClockChip ==
  ASSUME chip \in Chips, NEW on \in BOOLEAN, NEW drift \in BOOLEAN
  PROVE  /\ [chip EXCEPT !.clock = on] = [chip EXCEPT !.clock = on, !.drift = chip.drift]
         /\ [chip EXCEPT !.clock = on, !.drift = drift] \in Chips
         /\ [chip EXCEPT !.clock = on, !.drift = drift] =
              [clock |-> on, peaks |-> chip.peaks, ifc |-> chip.ifc, std |-> chip.std,
               fsk |-> chip.fsk, agc |-> chip.agc, arb |-> chip.arb, drift |-> drift]
<1>0. /\ chip.peaks \in [{"multi", "std", "tx"} -> {<<1, 2>>, <<3, 4>>}] /\ chip.ifc \in [Chains -> Chain]
      /\ chip.std \in Demodulator /\ chip.fsk \in Demodulator
      /\ chip.clock \in BOOLEAN /\ chip.agc \in {"none", "cal", "agc", "damaged"}
      /\ chip.arb \in {"none", "arb", "damaged"} /\ chip.drift \in BOOLEAN
  BY ChipFields
<1>1. ASSUME NEW d \in BOOLEAN
      PROVE  /\ [chip EXCEPT !.clock = on, !.drift = d] \in Chips
             /\ [chip EXCEPT !.clock = on, !.drift = d] =
                  [clock |-> on, peaks |-> chip.peaks, ifc |-> chip.ifc, std |-> chip.std,
                   fsk |-> chip.fsk, agc |-> chip.agc, arb |-> chip.arb, drift |-> d]
  <2>1. PICK c1 : c1 = [chip EXCEPT !.clock = on]
    OBVIOUS
  <2>2. PICK c2 : c2 = [c1 EXCEPT !.drift = d]
    OBVIOUS
  <2>3. [chip EXCEPT !.clock = on, !.drift = d] = c2
    BY <2>1, <2>2, Zenon
  <2>4. c1 = [clock |-> on, peaks |-> chip.peaks, ifc |-> chip.ifc, std |-> chip.std,
              fsk |-> chip.fsk, agc |-> chip.agc, arb |-> chip.arb, drift |-> chip.drift]
    BY <2>1, ChipRecord, ChipUpdates
  <2>5. c1 \in Chips
    BY <1>0, <2>4, ChipMember, SMTT(30)
  <2>6. c2 = [clock |-> c1.clock, peaks |-> c1.peaks, ifc |-> c1.ifc, std |-> c1.std,
              fsk |-> c1.fsk, agc |-> c1.agc, arb |-> c1.arb, drift |-> d]
    BY <2>2, <2>5, ChipRecord, ChipUpdates
  <2>7. c2 = [clock |-> on, peaks |-> chip.peaks, ifc |-> chip.ifc, std |-> chip.std,
              fsk |-> chip.fsk, agc |-> chip.agc, arb |-> chip.arb, drift |-> d]
    BY <2>4, <2>6
  <2>8. c2 \in Chips
    BY <1>0, <2>7, ChipMember, SMTT(30)
  <2> QED BY <2>3, <2>7, <2>8
<1>2. [chip EXCEPT !.clock = on] =
        [clock |-> on, peaks |-> chip.peaks, ifc |-> chip.ifc, std |-> chip.std,
         fsk |-> chip.fsk, agc |-> chip.agc, arb |-> chip.arb, drift |-> chip.drift]
  BY ChipRecord, ChipUpdates
<1>3. [chip EXCEPT !.clock = on, !.drift = chip.drift] =
        [clock |-> on, peaks |-> chip.peaks, ifc |-> chip.ifc, std |-> chip.std,
         fsk |-> chip.fsk, agc |-> chip.agc, arb |-> chip.arb, drift |-> chip.drift]
  BY <1>0, <1>1
<1> QED BY <1>1, <1>2, <1>3

LEMMA CalibrateChip ==
  ASSUME chip \in Chips, NEW fw \in {"none", "cal", "agc", "damaged"}, NEW drift \in BOOLEAN
  PROVE  /\ [chip EXCEPT !.agc = fw, !.drift = drift] \in Chips
         /\ [chip EXCEPT !.agc = fw, !.drift = drift] =
              [clock |-> chip.clock, peaks |-> chip.peaks, ifc |-> chip.ifc, std |-> chip.std,
               fsk |-> chip.fsk, agc |-> fw, arb |-> chip.arb, drift |-> drift]
<1>0. /\ chip.peaks \in [{"multi", "std", "tx"} -> {<<1, 2>>, <<3, 4>>}] /\ chip.ifc \in [Chains -> Chain]
      /\ chip.std \in Demodulator /\ chip.fsk \in Demodulator
      /\ chip.clock \in BOOLEAN /\ chip.agc \in {"none", "cal", "agc", "damaged"}
      /\ chip.arb \in {"none", "arb", "damaged"} /\ chip.drift \in BOOLEAN
  BY ChipFields
<1>1. PICK c1 : c1 = [chip EXCEPT !.agc = fw]
  OBVIOUS
<1>2. PICK c2 : c2 = [c1 EXCEPT !.drift = drift]
  OBVIOUS
<1>3. [chip EXCEPT !.agc = fw, !.drift = drift] = c2
  BY <1>1, <1>2, Zenon
<1>4. c1 = [clock |-> chip.clock, peaks |-> chip.peaks, ifc |-> chip.ifc, std |-> chip.std,
            fsk |-> chip.fsk, agc |-> fw, arb |-> chip.arb, drift |-> chip.drift]
  BY <1>1, ChipRecord, ChipUpdates
<1>5. c1 \in Chips
  <2>1. [clock |-> chip.clock, peaks |-> chip.peaks, ifc |-> chip.ifc, std |-> chip.std,
         fsk |-> chip.fsk, agc |-> fw, arb |-> chip.arb, drift |-> chip.drift] \in Chips
    BY <1>0, Zenon DEF Chips
  <2> QED BY <1>4, <2>1, Zenon
<1>6. c2 = [clock |-> c1.clock, peaks |-> c1.peaks, ifc |-> c1.ifc, std |-> c1.std,
            fsk |-> c1.fsk, agc |-> c1.agc, arb |-> c1.arb, drift |-> drift]
  BY <1>2, <1>5, ChipRecord, ChipUpdates
<1>7. c2 = [clock |-> chip.clock, peaks |-> chip.peaks, ifc |-> chip.ifc, std |-> chip.std,
            fsk |-> chip.fsk, agc |-> fw, arb |-> chip.arb, drift |-> drift]
  BY <1>4, <1>6
<1>8. c2 \in Chips
  <2>1. [clock |-> chip.clock, peaks |-> chip.peaks, ifc |-> chip.ifc, std |-> chip.std,
         fsk |-> chip.fsk, agc |-> fw, arb |-> chip.arb, drift |-> drift] \in Chips
    BY <1>0, Zenon DEF Chips
  <2> QED BY <1>7, <2>1, Zenon
<1> QED BY <1>3, <1>7, <1>8

LEMMA LoadChip ==
  ASSUME chip \in Chips, NEW fw \in {"none", "cal", "agc", "damaged"}, NEW arb \in {"none", "arb", "damaged"}
  PROVE  /\ [chip EXCEPT !.arb = arb, !.agc = fw] \in Chips
         /\ [chip EXCEPT !.arb = arb, !.agc = fw] =
              [clock |-> chip.clock, peaks |-> chip.peaks, ifc |-> chip.ifc, std |-> chip.std,
               fsk |-> chip.fsk, agc |-> fw, arb |-> arb, drift |-> chip.drift]
<1>0. /\ chip.peaks \in [{"multi", "std", "tx"} -> {<<1, 2>>, <<3, 4>>}] /\ chip.ifc \in [Chains -> Chain]
      /\ chip.std \in Demodulator /\ chip.fsk \in Demodulator
      /\ chip.clock \in BOOLEAN /\ chip.agc \in {"none", "cal", "agc", "damaged"}
      /\ chip.arb \in {"none", "arb", "damaged"} /\ chip.drift \in BOOLEAN
  BY ChipFields
<1>1. PICK c1 : c1 = [chip EXCEPT !.arb = arb]
  OBVIOUS
<1>2. PICK c2 : c2 = [c1 EXCEPT !.agc = fw]
  OBVIOUS
<1>3. [chip EXCEPT !.arb = arb, !.agc = fw] = c2
  BY <1>1, <1>2, Zenon
<1>4. c1 = [clock |-> chip.clock, peaks |-> chip.peaks, ifc |-> chip.ifc, std |-> chip.std,
            fsk |-> chip.fsk, agc |-> chip.agc, arb |-> arb, drift |-> chip.drift]
  BY <1>1, ChipRecord, ChipUpdates
<1>5. c1 \in Chips
  <2>1. [clock |-> chip.clock, peaks |-> chip.peaks, ifc |-> chip.ifc, std |-> chip.std,
         fsk |-> chip.fsk, agc |-> chip.agc, arb |-> arb, drift |-> chip.drift] \in Chips
    BY <1>0, Zenon DEF Chips
  <2> QED BY <1>4, <2>1, Zenon
<1>6. c2 = [clock |-> c1.clock, peaks |-> c1.peaks, ifc |-> c1.ifc, std |-> c1.std,
            fsk |-> c1.fsk, agc |-> fw, arb |-> c1.arb, drift |-> c1.drift]
  BY <1>2, <1>5, ChipRecord, ChipUpdates
<1>7. c2 = [clock |-> chip.clock, peaks |-> chip.peaks, ifc |-> chip.ifc, std |-> chip.std,
            fsk |-> chip.fsk, agc |-> fw, arb |-> arb, drift |-> chip.drift]
  BY <1>4, <1>6
<1>8. c2 \in Chips
  <2>1. [clock |-> chip.clock, peaks |-> chip.peaks, ifc |-> chip.ifc, std |-> chip.std,
         fsk |-> chip.fsk, agc |-> fw, arb |-> arb, drift |-> chip.drift] \in Chips
    BY <1>0, Zenon DEF Chips
  <2> QED BY <1>7, <2>1, Zenon
<1> QED BY <1>3, <1>7, <1>8

LEMMA WrittenIs ==
  ASSUME NEW kept
  PROVE  /\ Written(kept).peaks = IF "peaks" \in kept THEN chip.peaks ELSE lgw_constant_adjust
         /\ Written(kept).ifc = IF "ifc" \in kept THEN chip.ifc ELSE hal.ifc
         /\ Written(kept).std = IF "std" \in kept \/ ~hal.ifc[Std].enable THEN chip.std ELSE hal.std
         /\ Written(kept).fsk = IF "fsk" \in kept \/ ~hal.ifc[Fsk].enable THEN chip.fsk ELSE hal.fsk
<1>1. Written(kept).peaks = IF "peaks" \in kept THEN chip.peaks ELSE lgw_constant_adjust
  BY DEF Written
<1>2. Written(kept).ifc = IF "ifc" \in kept THEN chip.ifc ELSE hal.ifc
  BY DEF Written
<1>3. Written(kept).std = IF "std" \in kept \/ ~hal.ifc[Std].enable THEN chip.std ELSE hal.std
  BY DEF Written
<1>4. Written(kept).fsk = IF "fsk" \in kept \/ ~hal.ifc[Fsk].enable THEN chip.fsk ELSE hal.fsk
  BY DEF Written
<1> QED BY <1>1, <1>2, <1>3, <1>4

LEMMA ModemsChip ==
  ASSUME chip \in Chips, ConfigurationOK, Modems
  PROVE  /\ chip' \in Chips /\ chip'.clock = chip.clock /\ chip'.drift = chip.drift
         /\ pc' = "load" /\ "modems" \notin lost' =>
              chip'.peaks = lgw_constant_adjust /\ ModemsRun'
<1>1. PICK kept \in SUBSET Kept :
        /\ chip' = [chip EXCEPT !.peaks = Written(kept).peaks, !.ifc = Written(kept).ifc,
                                !.std = Written(kept).std, !.fsk = Written(kept).fsk]
        /\ pc' = "load" /\ "modems" \notin lost' => kept = {}
  BY DEF Modems, Lose
<1> DEFINE std == Written(kept).std
           fsk == Written(kept).fsk
           peaks == Written(kept).peaks
           ifc == Written(kept).ifc
<1>2. /\ hal.ifc \in [Chains -> Chain] /\ hal.std \in Demodulator /\ hal.fsk \in Demodulator
      /\ lgw_constant_adjust \in [{"multi", "std", "tx"} -> {<<1, 2>>, <<3, 4>>}]
  <2>1. lgw_constant_adjust \in [{"multi", "std", "tx"} -> {<<1, 2>>, <<3, 4>>}]
    BY DEF lgw_constant_adjust
  <2> QED BY <2>1, HalFields DEF ConfigurationOK
<1>3. /\ chip.clock \in BOOLEAN /\ chip.drift \in BOOLEAN
      /\ chip.peaks \in [{"multi", "std", "tx"} -> {<<1, 2>>, <<3, 4>>}]
      /\ chip.ifc \in [Chains -> Chain] /\ chip.std \in Demodulator /\ chip.fsk \in Demodulator
      /\ chip.agc \in {"none", "cal", "agc", "damaged"} /\ chip.arb \in {"none", "arb", "damaged"}
  BY ChipFields
<1>4. /\ ifc \in [Chains -> Chain] /\ std \in Demodulator /\ fsk \in Demodulator
      /\ peaks \in [{"multi", "std", "tx"} -> {<<1, 2>>, <<3, 4>>}]
  BY <1>2, <1>3, WrittenIs
<1>5. kept = {} => /\ peaks = lgw_constant_adjust /\ ifc = hal.ifc
                   /\ hal.ifc[Std].enable => std = hal.std
                   /\ hal.ifc[Fsk].enable => fsk = hal.fsk
  BY WrittenIs
<1>6. UNCHANGED hal
  BY DEF Modems, configuration
<1>7. chip' = [chip EXCEPT !.peaks = peaks, !.ifc = ifc, !.std = std, !.fsk = fsk]
  BY <1>1
<1> HIDE DEF std, fsk, peaks, ifc
<1>8. chip' \in Chips /\ chip' = [clock |-> chip.clock, peaks |-> peaks, ifc |-> ifc, std |-> std,
                                  fsk |-> fsk, agc |-> chip.agc, arb |-> chip.arb, drift |-> chip.drift]
  <2>1. PICK c1 : c1 = [chip EXCEPT !.peaks = peaks]
    OBVIOUS
  <2>2. PICK c2 : c2 = [c1 EXCEPT !.ifc = ifc]
    OBVIOUS
  <2>3. PICK c3 : c3 = [c2 EXCEPT !.std = std]
    OBVIOUS
  <2>4. PICK c4 : c4 = [c3 EXCEPT !.fsk = fsk]
    OBVIOUS
  <2>5. chip' = c4
    BY <1>7, <2>1, <2>2, <2>3, <2>4, Zenon
  <2>6. c1 = [clock |-> chip.clock, peaks |-> peaks, ifc |-> chip.ifc, std |-> chip.std,
              fsk |-> chip.fsk, agc |-> chip.agc, arb |-> chip.arb, drift |-> chip.drift]
    BY <2>1, ChipRecord, ChipUpdates
  <2>7. c1 \in Chips
    BY <2>6, <1>3, <1>4, ChipMember
  <2>8. c2 = [clock |-> chip.clock, peaks |-> peaks, ifc |-> ifc, std |-> chip.std,
              fsk |-> chip.fsk, agc |-> chip.agc, arb |-> chip.arb, drift |-> chip.drift]
    <3>1. c2 = [clock |-> c1.clock, peaks |-> c1.peaks, ifc |-> ifc, std |-> c1.std,
                fsk |-> c1.fsk, agc |-> c1.agc, arb |-> c1.arb, drift |-> c1.drift]
      <4>1. c1 = [clock |-> c1.clock, peaks |-> c1.peaks, ifc |-> c1.ifc, std |-> c1.std,
                  fsk |-> c1.fsk, agc |-> c1.agc, arb |-> c1.arb, drift |-> c1.drift]
        BY <2>7, ChipRecord
      <4>2. [c1 EXCEPT !.ifc = ifc] = [clock |-> c1.clock, peaks |-> c1.peaks, ifc |-> ifc, std |-> c1.std,
                                       fsk |-> c1.fsk, agc |-> c1.agc, arb |-> c1.arb, drift |-> c1.drift]
        BY <4>1, ChipUpdates
      <4> QED BY <2>2, <4>2
    <3> QED BY <3>1, <2>6
  <2>9. c2 \in Chips
    BY <2>8, <1>3, <1>4, ChipMember
  <2>10. c3 = [clock |-> chip.clock, peaks |-> peaks, ifc |-> ifc, std |-> std,
               fsk |-> chip.fsk, agc |-> chip.agc, arb |-> chip.arb, drift |-> chip.drift]
    <3>1. c3 = [clock |-> c2.clock, peaks |-> c2.peaks, ifc |-> c2.ifc, std |-> std,
                fsk |-> c2.fsk, agc |-> c2.agc, arb |-> c2.arb, drift |-> c2.drift]
      BY <2>3, <2>9, ChipRecord, ChipUpdates
    <3> QED BY <3>1, <2>8
  <2>11. c3 \in Chips
    BY <2>10, <1>3, <1>4, ChipMember
  <2>12. c4 = [clock |-> chip.clock, peaks |-> peaks, ifc |-> ifc, std |-> std,
               fsk |-> fsk, agc |-> chip.agc, arb |-> chip.arb, drift |-> chip.drift]
    <3>1. c4 = [clock |-> c3.clock, peaks |-> c3.peaks, ifc |-> c3.ifc, std |-> c3.std,
                fsk |-> fsk, agc |-> c3.agc, arb |-> c3.arb, drift |-> c3.drift]
      BY <2>4, <2>11, ChipRecord, ChipUpdates
    <3> QED BY <3>1, <2>10
  <2>13. c4 \in Chips
    BY <2>12, <1>3, <1>4, ChipMember
  <2> QED BY <2>5, <2>12, <2>13
<1>9. /\ chip'.clock = chip.clock /\ chip'.drift = chip.drift /\ chip'.peaks = peaks
      /\ chip'.ifc = ifc /\ chip'.std = std /\ chip'.fsk = fsk
  BY <1>8
<1>10. pc' = "load" /\ "modems" \notin lost' => chip'.peaks = lgw_constant_adjust /\ ModemsRun'
  BY <1>1, <1>5, <1>6, <1>9 DEF ModemsRun
<1> QED BY <1>8, <1>9, <1>10

LEMMA ChipStep ==
  ASSUME TypeOK, Next
  PROVE  chip' \in Chips
<1>0. chip \in Chips /\ ConfigurationOK
  BY DEF TypeOK, HardwareOK
<1>1. CASE lgw_connect \/ lgw_stop
  <2>1. ChipReset \in Chips
    BY <1>0, ResetTypes
  <2>2. [chip EXCEPT !.clock = FALSE, !.drift = TRUE] \in Chips
    BY <1>0, ClockChip
  <2>3. chip' \in {chip, ChipReset, [chip EXCEPT !.clock = FALSE, !.drift = TRUE]}
    BY <1>1 DEF lgw_connect, lgw_stop
  <2> QED BY <1>0, <2>1, <2>2, <2>3
<1>2. CASE Clock
  <2>1. \E on \in BOOLEAN : chip' = [chip EXCEPT !.clock = on] \/ chip' = [chip EXCEPT !.clock = on, !.drift = TRUE]
    BY <1>2 DEF Clock
  <2>2. chip.drift \in BOOLEAN
    BY <1>0, ChipFields
  <2>3. PICK on \in BOOLEAN : chip' = [chip EXCEPT !.clock = on] \/ chip' = [chip EXCEPT !.clock = on, !.drift = TRUE]
    BY <2>1
  <2>4. PICK drift \in BOOLEAN : drift = chip.drift
    BY <2>2
  <2>5. [chip EXCEPT !.clock = on] = [chip EXCEPT !.clock = on, !.drift = drift]
    <3>1. [chip EXCEPT !.clock = on] = [chip EXCEPT !.clock = on, !.drift = chip.drift]
      BY <1>0, ClockChip
    <3> QED BY <3>1, <2>4
  <2>6. [chip EXCEPT !.clock = on, !.drift = drift] \in Chips
    BY <1>0, ClockChip
  <2>7. [chip EXCEPT !.clock = on, !.drift = TRUE] \in Chips
    BY <1>0, ClockChip
  <2> QED BY <2>3, <2>5, <2>6, <2>7
<1>3. CASE Calibrate
  <2> DEFINE drifts == chip.drift \/ (lbt.enable /\ fpga.fsm # chip.clock)
  <2>1. PICK fw \in Programs("cal") : chip' = [chip EXCEPT !.agc = fw, !.drift = drifts]
    BY <1>3 DEF Calibrate
  <2>2. fw \in {"none", "cal", "agc", "damaged"}
    BY DEF Programs
  <2>3. PICK drift \in BOOLEAN : drift = drifts
    OBVIOUS
  <2>4. chip' = [chip EXCEPT !.agc = fw, !.drift = drift]
    BY <2>1, <2>3, Zenon
  <2> QED BY <1>0, <2>2, <2>4, CalibrateChip
<1>4. CASE Modems
  BY <1>0, <1>4, ModemsChip
<1>5. CASE load_firmware
  <2>1. PICK arb \in Programs("arb"), fw \in Programs("agc") : chip' = [chip EXCEPT !.arb = arb, !.agc = fw]
    BY <1>5 DEF load_firmware
  <2>2. arb \in {"none", "arb", "damaged"} /\ fw \in {"none", "cal", "agc", "damaged"}
    BY DEF Programs
  <2> QED BY <1>0, <2>1, <2>2, LoadChip
<1>6. ASSUME NEW c \in RfChain, lgw_setup_sx125x(c) \/ lock_pll(c) PROVE UNCHANGED chip
  BY <1>6 DEF lgw_setup_sx125x, lock_pll
<1>7. ASSUME NEW conf \in LbtConfs, lgw_lbt_setconf(conf) PROVE UNCHANGED chip
  BY <1>7 DEF lgw_lbt_setconf, hardware
<1>8. rak831_config \/ rak831_start \/ lgw_send \/ lbt_setup \/ lbt_start \/ AgcInit => UNCHANGED chip
  BY DEF rak831_config, rak831_start, lgw_send, lbt_setup, lbt_start, AgcInit, hardware
<1> QED BY <1>0, <1>1, <1>2, <1>3, <1>4, <1>5, <1>6, <1>7, <1>8 DEF Next, lgw_start

(* What the firmware makes of a word.                                      *)
LEMMA TakenIs ==
  ASSUME agc \in Agcs, NEW word
  PROVE  /\ agc.phase = "boot" /\ word = Abort => Taken(word) = [phase |-> "msb", lut |-> agc.lut, msb |-> agc.msb, option |-> agc.option, select |-> agc.select]
         /\ agc.phase = "boot" /\ word # Abort =>
              Taken(word) = [phase |-> IF Len(agc.lut) + 1 = LutMax THEN "msb" ELSE "boot", lut |-> Append(agc.lut, word), msb |-> agc.msb, option |-> agc.option, select |-> agc.select]
         /\ agc.phase = "msb" => Taken(word) = [phase |-> "option", lut |-> agc.lut, msb |-> word, option |-> agc.option, select |-> agc.select]
         /\ agc.phase = "option" => Taken(word) = [phase |-> "select", lut |-> agc.lut, msb |-> agc.msb, option |-> word, select |-> agc.select]
         /\ agc.phase = "select" => Taken(word) = [phase |-> "run", lut |-> agc.lut, msb |-> agc.msb, option |-> agc.option, select |-> word]
         /\ agc.phase = "run" => Taken(word) = agc
<1>0. agc = [phase |-> agc.phase, lut |-> agc.lut, msb |-> agc.msb, option |-> agc.option, select |-> agc.select]
  BY AgcRecord
<1>1. ASSUME agc.phase = "boot", word = Abort PROVE Taken(word) = [phase |-> "msb", lut |-> agc.lut, msb |-> agc.msb, option |-> agc.option, select |-> agc.select]
  <2>1. Taken(word) = [agc EXCEPT !.phase = "msb"]
    BY <1>1 DEF Taken
  <2> QED BY <1>0, <2>1, AgcUpdates
<1>2. ASSUME agc.phase = "boot", word # Abort PROVE Taken(word) = [phase |-> IF Len(agc.lut) + 1 = LutMax THEN "msb" ELSE "boot", lut |-> Append(agc.lut, word), msb |-> agc.msb, option |-> agc.option, select |-> agc.select]
  <2>1. PICK next : next = IF Len(agc.lut) + 1 = LutMax THEN "msb" ELSE "boot"
    OBVIOUS
  <2>2. PICK x : x = Append(agc.lut, word)
    OBVIOUS
  <2>3. Taken(word) = [agc EXCEPT !.lut = x, !.phase = next]
    BY <1>2, <2>1, <2>2 DEF Taken
  <2>4. PICK a1 : a1 = [agc EXCEPT !.lut = x]
    OBVIOUS
  <2>5. Taken(word) = [a1 EXCEPT !.phase = next]
    BY <2>3, <2>4, Zenon
  <2>6. a1 = [phase |-> agc.phase, lut |-> x, msb |-> agc.msb, option |-> agc.option, select |-> agc.select]
    BY <1>0, <2>4, AgcUpdates
  <2>7. a1 = [phase |-> a1.phase, lut |-> a1.lut, msb |-> a1.msb, option |-> a1.option, select |-> a1.select]
    BY <2>6
  <2>8. Taken(word) = [phase |-> next, lut |-> a1.lut, msb |-> a1.msb, option |-> a1.option, select |-> a1.select]
    BY <2>5, <2>7, AgcUpdates
  <2> QED BY <2>1, <2>2, <2>6, <2>8
<1>3. ASSUME agc.phase = "msb" PROVE Taken(word) = [phase |-> "option", lut |-> agc.lut, msb |-> word, option |-> agc.option, select |-> agc.select]
  <2>1. PICK next : next = "option"
    OBVIOUS
  <2>2. PICK x : x = word
    OBVIOUS
  <2>3. Taken(word) = [agc EXCEPT !.msb = x, !.phase = next]
    BY <1>3, <2>1, <2>2 DEF Taken
  <2>4. PICK a1 : a1 = [agc EXCEPT !.msb = x]
    OBVIOUS
  <2>5. Taken(word) = [a1 EXCEPT !.phase = next]
    BY <2>3, <2>4, Zenon
  <2>6. a1 = [phase |-> agc.phase, lut |-> agc.lut, msb |-> x, option |-> agc.option, select |-> agc.select]
    BY <1>0, <2>4, AgcUpdates
  <2>7. a1 = [phase |-> a1.phase, lut |-> a1.lut, msb |-> a1.msb, option |-> a1.option, select |-> a1.select]
    BY <2>6
  <2>8. Taken(word) = [phase |-> next, lut |-> a1.lut, msb |-> a1.msb, option |-> a1.option, select |-> a1.select]
    BY <2>5, <2>7, AgcUpdates
  <2> QED BY <2>1, <2>2, <2>6, <2>8
<1>4. ASSUME agc.phase = "option" PROVE Taken(word) = [phase |-> "select", lut |-> agc.lut, msb |-> agc.msb, option |-> word, select |-> agc.select]
  <2>1. PICK next : next = "select"
    OBVIOUS
  <2>2. PICK x : x = word
    OBVIOUS
  <2>3. Taken(word) = [agc EXCEPT !.option = x, !.phase = next]
    BY <1>4, <2>1, <2>2 DEF Taken
  <2>4. PICK a1 : a1 = [agc EXCEPT !.option = x]
    OBVIOUS
  <2>5. Taken(word) = [a1 EXCEPT !.phase = next]
    BY <2>3, <2>4, Zenon
  <2>6. a1 = [phase |-> agc.phase, lut |-> agc.lut, msb |-> agc.msb, option |-> x, select |-> agc.select]
    BY <1>0, <2>4, AgcUpdates
  <2>7. a1 = [phase |-> a1.phase, lut |-> a1.lut, msb |-> a1.msb, option |-> a1.option, select |-> a1.select]
    BY <2>6
  <2>8. Taken(word) = [phase |-> next, lut |-> a1.lut, msb |-> a1.msb, option |-> a1.option, select |-> a1.select]
    BY <2>5, <2>7, AgcUpdates
  <2> QED BY <2>1, <2>2, <2>6, <2>8
<1>5. ASSUME agc.phase = "select" PROVE Taken(word) = [phase |-> "run", lut |-> agc.lut, msb |-> agc.msb, option |-> agc.option, select |-> word]
  <2>1. PICK next : next = "run"
    OBVIOUS
  <2>2. PICK x : x = word
    OBVIOUS
  <2>3. Taken(word) = [agc EXCEPT !.select = x, !.phase = next]
    BY <1>5, <2>1, <2>2 DEF Taken
  <2>4. PICK a1 : a1 = [agc EXCEPT !.select = x]
    OBVIOUS
  <2>5. Taken(word) = [a1 EXCEPT !.phase = next]
    BY <2>3, <2>4, Zenon
  <2>6. a1 = [phase |-> agc.phase, lut |-> agc.lut, msb |-> agc.msb, option |-> agc.option, select |-> x]
    BY <1>0, <2>4, AgcUpdates
  <2>7. a1 = [phase |-> a1.phase, lut |-> a1.lut, msb |-> a1.msb, option |-> a1.option, select |-> a1.select]
    BY <2>6
  <2>8. Taken(word) = [phase |-> next, lut |-> a1.lut, msb |-> a1.msb, option |-> a1.option, select |-> a1.select]
    BY <2>5, <2>7, AgcUpdates
  <2> QED BY <2>1, <2>2, <2>6, <2>8
<1>6. ASSUME agc.phase = "run" PROVE Taken(word) = agc
  BY <1>6 DEF Taken
<1> QED BY <1>1, <1>2, <1>3, <1>4, <1>5, <1>6

LEMMA FirmwareStep ==
  ASSUME TypeOK, Next
  PROVE  FirmwareOK'
<1>0. FirmwareOK /\ ConfigurationOK /\ LutMax \in Nat /\ LutMax >= 2 /\ step \in 1 .. LutMax + 3
  BY BringupAssumption DEF TypeOK, FirmwareOK
<1>1. /\ AgcBoot \in Agcs /\ Len(AgcBoot.lut) = 0
  BY <1>0, ResetTypes DEF AgcBoot
<1>2. CASE lgw_connect
  <2>1. pc' # "agc" /\ step' = step /\ (agc' = agc \/ agc' = AgcBoot)
    BY <1>2 DEF lgw_connect, Fault
  <2> QED BY <1>0, <1>1, <2>1 DEF FirmwareOK
<1>3. CASE lgw_stop
  <2>1. pc' # "agc" /\ step' = step /\ (agc' = agc \/ agc' = AgcBoot)
    BY <1>3 DEF lgw_stop
  <2> QED BY <1>0, <1>1, <2>1 DEF FirmwareOK
<1>4. CASE load_firmware
  <2>1. agc' = AgcBoot /\ hal' = hal /\ (step' = 1 \/ (step' = step /\ pc' # "agc"))
    BY <1>4 DEF load_firmware, Fault, configuration
  <2>2. step' \in 1 .. LutMax + 3
    BY <1>0, <2>1
  <2>3. pc' = "agc" => step' <= Len(Script(Len(hal.lut)))
    <3>1. Len(Sent) = TableWords + 3 /\ TableWords \in Nat
      BY <1>0, ScriptWords
    <3> QED BY <2>1, <3>1 DEF Sent
  <2>4. Script(Len(hal.lut))' = Script(Len(hal.lut))
    BY <2>1 DEF Script, RadioSelect
  <2> QED BY <1>0, <1>1, <2>1, <2>2, <2>3, <2>4 DEF FirmwareOK
<1>5. CASE AgcInit
  <2> DEFINE word == Sent[step].word
  <2>1. /\ pc = "agc" /\ hal' = hal /\ (agc' = Taken(word) \/ agc' = agc)
        /\ \/ step' = step /\ pc' # "agc"
           \/ step # Len(Sent) /\ step' = step + 1
           \/ step' = 1 /\ pc' # "agc"
    <3>1. /\ pc = "agc" /\ hal' = hal /\ (agc' = Taken(word) \/ agc' = agc)
          /\ \/ step' = step /\ pc' # "agc"
             \/ \E status : Compare(status, Sent)
      BY <1>5 DEF AgcInit, Fault, configuration, Sent
    <3>2. ASSUME NEW status, Compare(status, Sent), pc = "agc"
          PROVE  \/ step' = step /\ pc' # "agc"
                 \/ step # Len(Sent) /\ step' = step + 1
                 \/ step' = 1 /\ pc' # "agc"
      BY <3>2 DEF Compare
    <3> QED BY <3>1, <3>2
  <2>2. Len(Sent) = TableWords + 3 /\ TableWords \in Nat /\ TableWords <= LutMax
    <3>1. /\ Len(Sent) = TableWords + 3 /\ TableWords \in Nat /\ Len(hal.lut) \in 1 .. LutMax
          /\ TableWords = Len(hal.lut) + (IF Len(hal.lut) < LutMax THEN 1 ELSE 0)
      BY <1>0, ScriptWords
    <3>2. CASE Len(hal.lut) < LutMax
      BY <1>0, <3>1, <3>2
    <3>3. CASE ~(Len(hal.lut) < LutMax)
      BY <1>0, <3>1, <3>3
    <3> QED BY <3>1, <3>2, <3>3
  <2>3. step <= Len(Sent) /\ Sent[step].word \in Words
    <3>1. step <= Len(Sent)
      BY <1>0, <2>1 DEF FirmwareOK, Sent
    <3>2. step \in 1 .. TableWords + 3
      BY <1>0, <2>2, <3>1
    <3> QED BY <1>0, <3>1, <3>2, SentWord
  <2>4. agc \in Agcs /\ Len(agc.lut) <= LutMax /\ (agc.phase = "boot" => Len(agc.lut) < LutMax)
    BY <1>0 DEF FirmwareOK
  <2>5. /\ agc.phase \in {"boot", "msb", "option", "select", "run"} /\ agc.lut \in Seq(Words)
        /\ agc.msb \in Words /\ agc.option \in Words /\ agc.select \in Words
    BY <2>4, AgcFields
  <2> HIDE DEF word
  <2>6. word \in Words
    BY <2>3 DEF word
  <2>7. Len(agc.lut) \in Nat
    BY <2>5, LenProperties
  <2>8. agc' \in Agcs /\ Len(agc'.lut) <= LutMax /\ (agc'.phase = "boot" => Len(agc'.lut) < LutMax)
    <3>0. CASE agc' = agc
      BY <2>4, <3>0
    <3>7. SUFFICES ASSUME agc' = Taken(word)
                   PROVE  agc' \in Agcs /\ Len(agc'.lut) <= LutMax /\ (agc'.phase = "boot" => Len(agc'.lut) < LutMax)
      BY <2>1, <3>0
    <3>1. CASE agc.phase = "boot" /\ word = Abort
      <4>1. agc' = [phase |-> "msb", lut |-> agc.lut, msb |-> agc.msb, option |-> agc.option, select |-> agc.select]
        BY <3>7, <2>4, <3>1, TakenIs
      <4> QED BY <2>4, <2>5, <4>1, Zenon DEF Agcs
    <3>2. CASE agc.phase = "boot" /\ word # Abort
      <4> DEFINE lut == Append(agc.lut, word)
                 next == IF Len(agc.lut) + 1 = LutMax THEN "msb" ELSE "boot"
      <4>1. agc' = [phase |-> next, lut |-> lut, msb |-> agc.msb, option |-> agc.option, select |-> agc.select]
        BY <3>7, <2>4, <3>2, TakenIs
      <4>2. lut \in Seq(Words) /\ Len(lut) = Len(agc.lut) + 1
        BY <2>5, <2>6, AppendProperties
      <4>3. next \in {"boot", "msb", "option", "select", "run"} /\ (next = "boot" => Len(agc.lut) + 1 # LutMax)
        OBVIOUS
      <4>4. Len(agc.lut) < LutMax
        BY <2>4, <3>2
      <4>5. Len(lut) <= LutMax /\ (next = "boot" => Len(lut) < LutMax)
        BY <1>0, <2>7, <4>2, <4>3, <4>4
      <4> HIDE DEF lut, next
      <4>6. agc' \in Agcs
        BY <2>5, <4>1, <4>2, <4>3, Zenon DEF Agcs
      <4> QED BY <4>1, <4>5, <4>6
    <3>3. CASE agc.phase = "msb"
      <4>1. agc' = [phase |-> "option", lut |-> agc.lut, msb |-> word, option |-> agc.option, select |-> agc.select]
        BY <3>7, <2>4, <3>3, TakenIs
      <4> QED BY <2>4, <2>5, <2>6, <4>1, Zenon DEF Agcs
    <3>4. CASE agc.phase = "option"
      <4>1. agc' = [phase |-> "select", lut |-> agc.lut, msb |-> agc.msb, option |-> word, select |-> agc.select]
        BY <3>7, <2>4, <3>4, TakenIs
      <4> QED BY <2>4, <2>5, <2>6, <4>1, Zenon DEF Agcs
    <3>5. CASE agc.phase = "select"
      <4>1. agc' = [phase |-> "run", lut |-> agc.lut, msb |-> agc.msb, option |-> agc.option, select |-> word]
        BY <3>7, <2>4, <3>5, TakenIs
      <4> QED BY <2>4, <2>5, <2>6, <4>1, Zenon DEF Agcs
    <3>6. CASE agc.phase = "run"
      <4>1. agc' = agc
        BY <3>7, <2>4, <3>6, TakenIs
      <4> QED BY <2>4, <4>1
    <3> QED BY <2>5, <3>1, <3>2, <3>3, <3>4, <3>5, <3>6
  <2>9. step' \in 1 .. LutMax + 3 /\ (pc' = "agc" => step' <= Len(Sent))
    <3>1. Len(Sent) \in Nat /\ Len(Sent) <= LutMax + 3
      BY <1>0, <2>2
    <3> QED BY <1>0, <2>1, <2>3, <3>1
  <2>10. Sent' = Sent
    BY <2>1 DEF Script, RadioSelect, Sent
  <2> QED BY <2>8, <2>9, <2>10 DEF FirmwareOK, Sent
<1>6. CASE UNCHANGED <<agc, step>> /\ (pc' # "agc" \/ UNCHANGED <<pc, hal>>)
  <2>1. CASE pc' # "agc"
    BY <1>0, <1>6, <2>1 DEF FirmwareOK
  <2>2. CASE pc' = "agc"
    <3>1. pc' = pc /\ hal' = hal /\ agc' = agc /\ step' = step
      BY <1>6, <2>2
    <3>2. Script(Len(hal.lut))' = Script(Len(hal.lut))
      BY <3>1 DEF Script, RadioSelect
    <3> QED BY <1>0, <3>1, <3>2 DEF FirmwareOK
  <2> QED BY <2>1, <2>2
<1>7. ASSUME NEW c \in RfChain, lgw_setup_sx125x(c) \/ lock_pll(c)
      PROVE  UNCHANGED <<agc, step>> /\ (pc' # "agc" \/ UNCHANGED <<pc, hal>>)
  BY <1>7 DEF lgw_setup_sx125x, lock_pll, configuration, After, Lock
<1>8. ASSUME NEW conf \in LbtConfs, lgw_lbt_setconf(conf) PROVE UNCHANGED <<agc, step, pc, hal>>
  BY <1>8 DEF lgw_lbt_setconf, hardware
<1>9. rak831_config \/ rak831_start \/ lgw_send \/ lbt_setup \/ lbt_start \/ Clock \/ Calibrate \/ Modems
      => UNCHANGED <<agc, step>> /\ (pc' # "agc" \/ UNCHANGED <<pc, hal>>)
  BY DEF rak831_config, rak831_start, lgw_send, lbt_setup, lbt_start, Clock, Calibrate, Modems, hardware,
         configuration, Fault
<1> QED BY <1>2, <1>3, <1>4, <1>5, <1>6, <1>7, <1>8, <1>9 DEF Next, lgw_start

LEMMA TypeStart == Init => TypeOK
<1> SUFFICES ASSUME Init PROVE TypeOK
  OBVIOUS
<1>0. LutMax \in Nat /\ LutMax >= 2 /\ PLL_LOCK_MAX_ATTEMPTS \in Nat \ {0} /\ MaxFaults \in Nat /\ LbtChannels \in Nat
  BY BringupAssumption
<1>1. ControlOK
  BY <1>0 DEF Init, ControlOK, Parts
<1>2. ConfigurationOK
  <2>1. lbt \in LbtConf /\ Len(lbt.channels) = 0
    BY DEF Init, NoLbt, LbtConf
  <2>2. hal = HalOff /\ lgwm = 0 /\ wanted = [public |-> FALSE, hidden |-> FALSE, lgwm |-> 0] /\ board \in Board
    BY BringupAssumption DEF Init
  <2> QED BY <1>0, <2>1, <2>2, HalOffOk DEF ConfigurationOK, HalOk
<1>3. FpgaReset \in Fpgas /\ ChipReset \in Chips /\ AgcBoot \in Agcs /\ RadioOff \in Radios
  BY <1>2, ResetTypes
<1>4. HardwareOK
  BY <1>3 DEF Init, HardwareOK
<1>5. FirmwareOK
  <2>1. Len(AgcBoot.lut) = 0
    BY DEF AgcBoot
  <2> QED BY <1>0, <1>3, <2>1 DEF Init, FirmwareOK
<1>6. AskedOK
  BY DEF Init, NotAsked, AskedOK
<1> QED BY <1>1, <1>2, <1>4, <1>5, <1>6 DEF TypeOK

LEMMA TypeStep == TypeOK /\ [Next]_vars => TypeOK'
<1> SUFFICES ASSUME TypeOK, [Next]_vars PROVE TypeOK'
  OBVIOUS
<1>1. CASE Next
  <2>1. HardwareOK'
    BY <1>1, FpgaStep, RadioStep, ChipStep DEF HardwareOK
  <2> QED BY <1>1, <2>1, ConfigurationStep, AskedStep, ControlStep, FirmwareStep DEF TypeOK
<1>2. CASE UNCHANGED vars
  <2>1. /\ UNCHANGED <<pc, hal, lgwm, lbt, board, attempts, fpga>>
        /\ UNCHANGED <<radio, chip, agc, step, faults, lost, wanted, asked>>
    BY <1>2 DEF vars, program, hardware, failures
  <2>2. ControlOK' /\ ConfigurationOK' /\ HardwareOK' /\ AskedOK'
    BY <2>1 DEF TypeOK, ControlOK, ConfigurationOK, HardwareOK, AskedOK
  <2>3. Script(Len(hal.lut))' = Script(Len(hal.lut))
    BY <2>1 DEF Script, RadioSelect
  <2>4. FirmwareOK'
    BY <2>1, <2>3 DEF TypeOK, FirmwareOK
  <2> QED BY <2>2, <2>4 DEF TypeOK
<1> QED BY <1>1, <1>2

(* Types, for every set of files, boards, channels and packets: no attempt *)
(* of lgw_setup_sx125x is beyond the last (loragw_radio.c 462), no FSK     *)
(* datarate in use is 0, no gain table is longer than the firmware's.      *)
THEOREM TypeCorrect == Spec => []TypeOK
  BY TypeStart, TypeStep, PTL DEF Spec

-----------------------------------------------------------------------------
(* A started concentrator. *)

(* The parts of lgw_start by name.                                         *)
LEMMA Places ==
  /\ PeaksDone = {"load", "agc", "started"}
  /\ CalibrateDone = {"modems", "load", "agc", "started"}
  /\ ClockDone = {"calibrate", "modems", "load", "agc", "started"}
  /\ ScanDone = {"clock", "calibrate", "modems", "load", "agc", "started"}
  /\ LbtDone = {"fsm", "clock", "calibrate", "modems", "load", "agc", "started"}
  /\ Pll1Done = {"lbt", "fsm", "clock", "calibrate", "modems", "load", "agc", "started"}
  /\ Setup1Done = {"pll1", "lbt", "fsm", "clock", "calibrate", "modems", "load", "agc", "started"}
  /\ Pll0Done = {"setup1", "pll1", "lbt", "fsm", "clock", "calibrate", "modems", "load", "agc", "started"}
  /\ Setup0Done = {"pll0", "setup1", "pll1", "lbt", "fsm", "clock", "calibrate", "modems", "load", "agc", "started"}
  /\ ConnectDone = {"setup0", "pll0", "setup1", "pll1", "lbt", "fsm", "clock", "calibrate", "modems", "load", "agc", "started"}
<1>1. /\ PeaksDone = {"load", "agc", "started"}
      /\ CalibrateDone = {"modems", "load", "agc", "started"}
  BY DEF PeaksDone, CalibrateDone
<1>2. /\ ClockDone = {"calibrate", "modems", "load", "agc", "started"}
      /\ ScanDone = {"clock", "calibrate", "modems", "load", "agc", "started"}
  BY <1>1 DEF ClockDone, ScanDone
<1>3. /\ LbtDone = {"fsm", "clock", "calibrate", "modems", "load", "agc", "started"}
      /\ Pll1Done = {"lbt", "fsm", "clock", "calibrate", "modems", "load", "agc", "started"}
  BY <1>2 DEF LbtDone, Pll1Done
<1>4. /\ Setup1Done = {"pll1", "lbt", "fsm", "clock", "calibrate", "modems", "load", "agc", "started"}
      /\ Pll0Done = {"setup1", "pll1", "lbt", "fsm", "clock", "calibrate", "modems", "load", "agc", "started"}
  BY <1>3 DEF Setup1Done, Pll0Done
<1>5. Setup0Done = {"pll0", "setup1", "pll1", "lbt", "fsm", "clock", "calibrate", "modems", "load", "agc", "started"}
  BY <1>4 DEF Setup0Done
<1>6. ConnectDone = {"setup0", "pll0", "setup1", "pll1", "lbt", "fsm", "clock", "calibrate", "modems", "load", "agc", "started"}
  BY <1>5 DEF ConnectDone
<1> QED BY <1>1, <1>2, <1>3, <1>4, <1>5, <1>6

(* The steps of an attempt of lgw_start that has not failed, and of the    *)
(* gateway while it runs; none of them touches the configuration.          *)
LEMMA Where ==
  ASSUME Next, pc' \in ConnectDone
  PROVE  /\ UNCHANGED <<hal, lgwm, lbt, board, wanted>>
         /\ \/ lgw_connect /\ pc' = "setup0"
            \/ lgw_setup_sx125x(0) /\ pc = "setup0" /\ pc' \in {"pll0", "setup1"}
            \/ lock_pll(0) /\ pc = "pll0" /\ pc' \in {"pll0", "setup1"}
            \/ lgw_setup_sx125x(1) /\ pc = "setup1" /\ pc' \in {"pll1", "lbt"}
            \/ lock_pll(1) /\ pc = "pll1" /\ pc' \in {"pll1", "lbt"}
            \/ lbt_setup /\ pc = "lbt" /\ pc' \in {"clock", "fsm"}
            \/ lbt_start /\ pc = "fsm" /\ pc' = "clock"
            \/ Clock /\ pc = "clock" /\ pc' = "calibrate"
            \/ Calibrate /\ pc = "calibrate" /\ pc' = "modems"
            \/ Modems /\ pc = "modems" /\ pc' = "load"
            \/ load_firmware /\ pc = "load" /\ pc' = "agc"
            \/ AgcInit /\ pc = "agc" /\ pc' \in {"agc", "started"}
            \/ lgw_send /\ pc = "started" /\ pc' = "started"
<1>0. pc' \in {"setup0", "pll0", "setup1", "pll1", "lbt", "fsm", "clock", "calibrate", "modems", "load", "agc", "started"}
  BY Places
<1>1. ~rak831_config /\ ~rak831_start /\ ~lgw_stop
  BY <1>0 DEF rak831_config, rak831_start, lgw_stop
<1>2. ASSUME NEW conf \in LbtConfs, lgw_lbt_setconf(conf) PROVE FALSE
  BY <1>0, <1>2 DEF lgw_lbt_setconf
<1>3. ASSUME NEW c \in RfChain, lgw_setup_sx125x(c)
      PROVE  /\ UNCHANGED configuration
             /\ \/ c = 0 /\ pc = "setup0" /\ pc' \in {"pll0", "setup1"}
                \/ c = 1 /\ pc = "setup1" /\ pc' \in {"pll1", "lbt"}
  <2>1. UNCHANGED configuration /\ pc' \in {Lock(c), After(c)} /\ pc = IF c = 0 THEN "setup0" ELSE "setup1"
    BY <1>3 DEF lgw_setup_sx125x
  <2>2. c = 0 \/ c = 1
    BY BringupAssumption
  <2> QED BY <2>1, <2>2 DEF Lock, After
<1>4. ASSUME NEW c \in RfChain, lock_pll(c)
      PROVE  /\ UNCHANGED configuration
             /\ \/ c = 0 /\ pc = "pll0" /\ pc' \in {"pll0", "setup1"}
                \/ c = 1 /\ pc = "pll1" /\ pc' \in {"pll1", "lbt"}
  <2>1. UNCHANGED configuration /\ pc' \in {"failed", pc, After(c)} /\ pc = Lock(c)
    BY <1>4 DEF lock_pll
  <2>2. c = 0 \/ c = 1
    BY BringupAssumption
  <2> QED BY <1>0, <2>1, <2>2 DEF Lock, After
<1>5. lgw_connect => pc' = "setup0" /\ UNCHANGED configuration
  BY <1>0 DEF lgw_connect
<1>6. lbt_setup => pc = "lbt" /\ pc' \in {"clock", "fsm"} /\ UNCHANGED configuration
  BY <1>0 DEF lbt_setup, Fault
<1>7. /\ lbt_start => pc = "fsm" /\ pc' = "clock" /\ UNCHANGED configuration
      /\ Clock => pc = "clock" /\ pc' = "calibrate" /\ UNCHANGED configuration
      /\ Calibrate => pc = "calibrate" /\ pc' = "modems" /\ UNCHANGED configuration
      /\ Modems => pc = "modems" /\ pc' = "load" /\ UNCHANGED configuration
      /\ load_firmware => pc = "load" /\ pc' = "agc" /\ UNCHANGED configuration
  BY <1>0 DEF lbt_start, Clock, Calibrate, Modems, load_firmware, Fault
<1>8. AgcInit => pc = "agc" /\ pc' \in {"agc", "started"} /\ UNCHANGED configuration
  BY <1>0 DEF AgcInit, Fault, Compare
<1>9. lgw_send => pc = "started" /\ pc' = "started" /\ UNCHANGED <<hal, lgwm, lbt, board, wanted>>
  BY DEF lgw_send
<1>10. UNCHANGED configuration => UNCHANGED <<hal, lgwm, lbt, board, wanted>>
  BY DEF configuration
<1>11. (\E c \in RfChain : lgw_setup_sx125x(c) \/ lock_pll(c))
       => lgw_setup_sx125x(0) \/ lock_pll(0) \/ lgw_setup_sx125x(1) \/ lock_pll(1)
  BY BringupAssumption
<1>12. 0 \in RfChain /\ 1 \in RfChain
  BY BringupAssumption
<1>13. /\ lgw_setup_sx125x(0) => UNCHANGED configuration /\ pc = "setup0" /\ pc' \in {"pll0", "setup1"}
       /\ lock_pll(0) => UNCHANGED configuration /\ pc = "pll0" /\ pc' \in {"pll0", "setup1"}
       /\ lgw_setup_sx125x(1) => UNCHANGED configuration /\ pc = "setup1" /\ pc' \in {"pll1", "lbt"}
       /\ lock_pll(1) => UNCHANGED configuration /\ pc = "pll1" /\ pc' \in {"pll1", "lbt"}
  BY <1>3, <1>4, <1>12
<1> QED BY <1>1, <1>2, <1>5, <1>6, <1>7, <1>8, <1>9, <1>10, <1>11, <1>13 DEF Next, lgw_start

(* Once connected, an attempt only loses more.                             *)
LEMMA LostGrows ==
  ASSUME Next, pc' \in ConnectDone, pc' # "setup0"
  PROVE  lost \subseteq lost'
<1>1. ASSUME NEW c, lgw_setup_sx125x(c) \/ lock_pll(c) PROVE lost \subseteq lost'
  BY <1>1 DEF lgw_setup_sx125x, lock_pll, Lose, Fault, failures
<1>2. lbt_setup \/ lbt_start \/ Clock \/ Calibrate => lost \subseteq lost'
  BY DEF lbt_setup, lbt_start, Clock, Calibrate, Lose, Fault, failures
<1>3. Modems \/ load_firmware => lost \subseteq lost'
  BY DEF Modems, load_firmware, Lose, Fault, failures
<1>4. AgcInit \/ lgw_send => lost \subseteq lost'
  BY DEF AgcInit, lgw_send, Fault, failures
<1> QED BY <1>1, <1>2, <1>3, <1>4, Where

LEMMA FilesReadStep ==
  ASSUME FilesRead, Next
  PROVE  FilesRead'
<1>1. CASE rak831_config
  <2>1. CASE UNCHANGED <<hal, lgwm, wanted>>
    BY <2>1 DEF FilesRead
  <2>2. CASE ~UNCHANGED <<hal, lgwm, wanted>>
    <3>1. PICK debug \in Debugs, global \in Globals, local \in Locals :
            /\ ~Broken(Read(debug, global, local))
            /\ hal' = Configured(Read(debug, global, local)).hal
            /\ lgwm' = Configured(Read(debug, global, local)).lgwm
            /\ wanted' = Wanted(debug, global, local)
      BY <1>1, <2>2, Zenon DEF rak831_config
    <3>2. HalOk(hal') /\ (~wanted'.hidden => hal'.public = wanted'.public) /\ lgwm' = wanted'.lgwm
      BY <3>1, FilesConfigured
    <3> QED BY <3>2 DEF FilesRead, HalOk
  <2> QED BY <2>1, <2>2
<1>2. CASE \E conf \in LbtConfs : lgw_lbt_setconf(conf)
  BY <1>2 DEF lgw_lbt_setconf, FilesRead
<1>3. CASE UNCHANGED <<hal, lgwm, wanted>>
  BY <1>3 DEF FilesRead
<1>4. ASSUME NEW c \in RfChain, lgw_setup_sx125x(c) \/ lock_pll(c) PROVE UNCHANGED <<hal, lgwm, wanted>>
  BY <1>4 DEF lgw_setup_sx125x, lock_pll, configuration
<1>5. lgw_start \/ rak831_start \/ lgw_stop \/ lgw_send => UNCHANGED <<hal, lgwm, wanted>>
  BY <1>4 DEF lgw_start, rak831_start, lgw_stop, lgw_send, lgw_connect, lbt_setup, lbt_start, Clock, Calibrate,
              Modems, load_firmware, AgcInit, configuration
<1> QED BY <1>1, <1>2, <1>3, <1>5 DEF Next

(* What a radio is given, and what its PLL's lock changes of it.           *)
LEMMA TunedIs ==
  ASSUME NEW c, NEW clock, NEW freq
  PROVE  /\ Tuned(c, clock, freq).clock = clock /\ Tuned(c, clock, freq).freq = freq
         /\ radio[c].state = "off" => Tuned(c, clock, freq).state = "standby"
  BY DEF Tuned

LEMMA SetupRadio ==
  ASSUME radio \in [RfChain -> Radios], NEW c \in RfChain, NEW d \in RfChain, d # c, lgw_setup_sx125x(c)
  PROVE  /\ radio'[d] = radio[d]
         /\ lost' = lost \/ lost' = lost \cup {Part(c)}
         /\ Part(c) \notin lost' =>
              /\ RadioSet(c)'
              /\ radio[c].state = "off" => radio'[c].state = "standby"
         /\ pc' = IF hal'.rf[c].enable THEN Lock(c) ELSE After(c)
<1>1. UNCHANGED hal /\ pc' = IF hal.rf[c].enable THEN Lock(c) ELSE After(c)
  BY DEF lgw_setup_sx125x, configuration
<1>2. lost' = lost \/ lost' = lost \cup {Part(c)}
  BY DEF lgw_setup_sx125x, Lose, failures
<1>3. radio'[d] = radio[d]
  <2>1. \E tuned : radio' = [radio EXCEPT ![c] = tuned]
    BY DEF lgw_setup_sx125x
  <2> QED BY <2>1
<1>4. ASSUME Part(c) \notin lost'
      PROVE  RadioSet(c)' /\ (radio[c].state = "off" => radio'[c].state = "standby")
  <2>1. PICK clock \in BOOLEAN : clock = (hal.clkout = c)
    OBVIOUS
  <2>2. radio' = [radio EXCEPT ![c] = Tuned(c, clock, Freq(c))]
    BY <1>4, <2>1, Zenon DEF lgw_setup_sx125x, Lose
  <2>3. radio'[c] = Tuned(c, clock, Freq(c))
    BY <2>2
  <2>4. radio'[c].clock = clock /\ radio'[c].freq = Freq(c) /\ (radio[c].state = "off" => radio'[c].state = "standby")
    BY <2>3, TunedIs
  <2>5. hal.rf[c].enable => Freq(c) = hal.rf[c].freq
    BY DEF Freq
  <2>6. clock <=> c = hal.clkout
    BY <2>1
  <2>7. radio'[c].clock <=> c = hal'.clkout
    BY <1>1, <2>4, <2>6, Zenon
  <2> QED BY <1>1, <2>4, <2>5, <2>7, Zenon DEF RadioSet
<1> QED BY <1>1, <1>2, <1>3, <1>4

LEMMA LockRadio ==
  ASSUME radio \in [RfChain -> Radios], NEW c \in RfChain, NEW d \in RfChain, d # c, lock_pll(c),
         pc' \in {Lock(c), After(c)}
  PROVE  /\ radio'[d] = radio[d]
         /\ lost' = lost \/ lost' = lost \cup {Part(c)}
         /\ RadioSet(c) => RadioSet(c)'
         /\ pc' = After(c) /\ Part(c) \notin lost' => radio'[c].state = "locked"
<1>1. UNCHANGED hal /\ Lock(c) # After(c) /\ Lock(c) # "failed" /\ After(c) # "failed" /\ pc = Lock(c)
  BY DEF lock_pll, configuration, Lock, After
<1>2. lost' = lost \/ lost' = lost \cup {Part(c)}
  BY DEF lock_pll, Lose, failures
<1>3. PICK state : radio' = [radio EXCEPT ![c].state = state] /\ (pc' = After(c) /\ Part(c) \notin lost' => state = "locked")
  BY <1>1 DEF lock_pll, Lose, Switched
<1>4. radio'[d] = radio[d] /\ radio'[c] = [radio[c] EXCEPT !.state = state]
  BY <1>3
<1>5. radio[c] \in Radios
  OBVIOUS
<1>6. radio'[c].state = state /\ radio'[c].clock = radio[c].clock /\ radio'[c].freq = radio[c].freq
  BY <1>4, <1>5 DEF Radios
<1>7. RadioSet(c) => RadioSet(c)'
  BY <1>1, <1>6 DEF RadioSet
<1> QED BY <1>2, <1>3, <1>4, <1>6, <1>7

(* A radio runs on, whatever else of the attempt is lost.                  *)
LEMMA RadioKept ==
  ASSUME NEW c \in RfChain, UNCHANGED hal, radio'[c] = radio[c], lost \subseteq lost',
         RadioTold(c) => RadioRuns(c)
  PROVE  RadioTold(c)' => RadioRuns(c)'
BY DEF RadioTold, RadioRuns

LEMMA RadiosSetStep ==
  ASSUME TypeOK, RadiosSet, Next
  PROVE  RadiosSet'
<1>0. radio \in [RfChain -> Radios] /\ 0 \in RfChain /\ 1 \in RfChain /\ 0 # 1
  BY BringupAssumption DEF TypeOK, HardwareOK
<1>1. CASE pc' \notin ConnectDone
  BY <1>1, Places DEF RadiosSet
<1>2. CASE pc' \in ConnectDone
  <2>1. UNCHANGED <<hal, lgwm, lbt, board, wanted>>
    BY <1>2, Where
  <2>2. CASE lgw_connect /\ pc' = "setup0"
    <3>1. /\ "radios" \notin lost' => radio' = [c \in RfChain |-> RadioOff]
          /\ lost' \subseteq {"fpga", "features", "clock", "radios"}
      BY <2>2 DEF lgw_connect, Losable
    <3>2. RadioA \notin lost' /\ RadioB \notin lost'
      BY <3>1 DEF RadioA, RadioB
    <3> QED BY <1>0, <2>2, <3>1, <3>2, Places DEF RadiosSet
  <2>3. CASE lgw_setup_sx125x(0) /\ pc = "setup0" /\ pc' \in {"pll0", "setup1"}
    <3>1. /\ radio'[1] = radio[1] /\ (lost' = lost \/ lost' = lost \cup {RadioA})
          /\ RadioA \notin lost' => RadioSet(0)' /\ (radio[0].state = "off" => radio'[0].state = "standby")
          /\ pc' = IF hal.rf[0].enable THEN "pll0" ELSE "setup1"
      BY <1>0, <2>1, <2>3, SetupRadio DEF Part, Lock, After
    <3>2. /\ "radios" \notin lost => radio[0] = RadioOff /\ radio[1] = RadioOff
          /\ RadioB \notin lost
      BY <2>3, Places DEF RadiosSet
    <3>3. RadioB \notin lost' /\ ("radios" \notin lost' => radio'[1] = RadioOff)
      BY <3>1, <3>2 DEF RadioA, RadioB
    <3>4. CASE pc' = "pll0"
      <4>1. hal'.rf[0].enable
        BY <2>1, <3>1, <3>4
      <4> QED BY <3>1, <3>3, <3>4, <4>1, Places DEF RadiosSet
    <3>5. CASE pc' = "setup1"
      <4>1. ~hal.rf[0].enable
        BY <3>1, <3>5
      <4>2. ASSUME RadioTold(0)' PROVE RadioRuns(0)'
        <5>1. RadioA \notin lost' /\ "radios" \notin lost'
          BY <2>1, <4>1, <4>2 DEF RadioTold, Part
        <5>2. radio[0].state = "off"
          BY <3>1, <3>2, <5>1 DEF RadioOff
        <5> QED BY <2>1, <3>1, <4>1, <5>1, <5>2 DEF RadioRuns, RadioSet
      <4> QED BY <3>3, <3>5, <4>2, Places DEF RadiosSet
    <3> QED BY <2>3, <3>4, <3>5
  <2>4. CASE lock_pll(0) /\ pc = "pll0" /\ pc' \in {"pll0", "setup1"}
    <3>1. /\ radio'[1] = radio[1] /\ (lost' = lost \/ lost' = lost \cup {RadioA})
          /\ RadioSet(0) => RadioSet(0)'
          /\ pc' = "setup1" /\ RadioA \notin lost' => radio'[0].state = "locked"
      BY <1>0, <2>4, LockRadio DEF Part, Lock, After
    <3>2. /\ "radios" \notin lost => radio[1] = RadioOff
          /\ RadioB \notin lost
          /\ hal.rf[0].enable /\ (RadioA \notin lost => RadioSet(0))
      BY <2>4, Places DEF RadiosSet
    <3>3. RadioB \notin lost' /\ ("radios" \notin lost' => radio'[1] = RadioOff)
      BY <3>1, <3>2 DEF RadioA, RadioB
    <3>4. RadioA \notin lost' => RadioSet(0)'
      BY <3>1, <3>2
    <3>5. CASE pc' = "pll0"
      <4>1. hal'.rf[0].enable
        BY <2>1, <3>2
      <4> QED BY <3>3, <3>4, <3>5, <4>1, Places DEF RadiosSet
    <3>6. CASE pc' = "setup1"
      <4>1. ASSUME RadioTold(0)' PROVE RadioRuns(0)'
        <5>1. RadioA \notin lost'
          BY <4>1 DEF RadioTold, Part
        <5> QED BY <2>1, <3>1, <3>2, <3>4, <3>6, <5>1 DEF RadioRuns, RadioSet
      <4> QED BY <3>3, <3>6, <4>1, Places DEF RadiosSet
    <3> QED BY <2>4, <3>5, <3>6
  <2>5. CASE lgw_setup_sx125x(1) /\ pc = "setup1" /\ pc' \in {"pll1", "lbt"}
    <3>1. /\ radio'[0] = radio[0] /\ (lost' = lost \/ lost' = lost \cup {RadioB})
          /\ RadioB \notin lost' => RadioSet(1)' /\ (radio[1].state = "off" => radio'[1].state = "standby")
          /\ pc' = IF hal.rf[1].enable THEN "pll1" ELSE "lbt"
      BY <1>0, <2>1, <2>5, SetupRadio DEF Part, Lock, After
    <3>2. /\ "radios" \notin lost => radio[1] = RadioOff
          /\ RadioTold(0) => RadioRuns(0)
      BY <2>5, Places DEF RadiosSet
    <3>3. RadioTold(0)' => RadioRuns(0)'
      BY <1>0, <2>1, <3>1, <3>2, RadioKept
    <3>4. CASE pc' = "pll1"
      <4>1. hal'.rf[1].enable
        BY <2>1, <3>1, <3>4
      <4> QED BY <3>1, <3>3, <3>4, <4>1, Places DEF RadiosSet
    <3>5. CASE pc' = "lbt"
      <4>1. ~hal.rf[1].enable
        BY <3>1, <3>5
      <4>2. ASSUME RadioTold(1)' PROVE RadioRuns(1)'
        <5>1. RadioB \notin lost' /\ "radios" \notin lost'
          BY <2>1, <4>1, <4>2 DEF RadioTold, Part
        <5>2. radio[1].state = "off"
          BY <3>1, <3>2, <5>1 DEF RadioOff
        <5> QED BY <2>1, <3>1, <4>1, <5>1, <5>2 DEF RadioRuns, RadioSet
      <4> QED BY <3>3, <3>5, <4>2, Places DEF RadiosSet
    <3> QED BY <2>5, <3>4, <3>5
  <2>6. CASE lock_pll(1) /\ pc = "pll1" /\ pc' \in {"pll1", "lbt"}
    <3>1. /\ radio'[0] = radio[0] /\ (lost' = lost \/ lost' = lost \cup {RadioB})
          /\ RadioSet(1) => RadioSet(1)'
          /\ pc' = "lbt" /\ RadioB \notin lost' => radio'[1].state = "locked"
      BY <1>0, <2>6, LockRadio DEF Part, Lock, After
    <3>2. /\ RadioTold(0) => RadioRuns(0)
          /\ hal.rf[1].enable /\ (RadioB \notin lost => RadioSet(1))
      BY <2>6, Places DEF RadiosSet
    <3>3. RadioTold(0)' => RadioRuns(0)'
      BY <1>0, <2>1, <3>1, <3>2, RadioKept
    <3>4. RadioB \notin lost' => RadioSet(1)'
      BY <3>1, <3>2
    <3>5. CASE pc' = "pll1"
      <4>1. hal'.rf[1].enable
        BY <2>1, <3>2
      <4> QED BY <3>3, <3>4, <3>5, <4>1, Places DEF RadiosSet
    <3>6. CASE pc' = "lbt"
      <4>1. ASSUME RadioTold(1)' PROVE RadioRuns(1)'
        <5>1. RadioB \notin lost'
          BY <4>1 DEF RadioTold, Part
        <5> QED BY <2>1, <3>1, <3>2, <3>4, <3>6, <5>1 DEF RadioRuns, RadioSet
      <4> QED BY <3>3, <3>6, <4>1, Places DEF RadiosSet
    <3> QED BY <2>6, <3>5, <3>6
  <2>7. CASE lbt_setup \/ lbt_start \/ Clock \/ Calibrate \/ Modems \/ load_firmware \/ AgcInit \/ lgw_send
    <3>1. radio' = radio /\ pc \in {"lbt", "fsm", "clock", "calibrate", "modems", "load", "agc", "started"}
      BY <2>7 DEF lbt_setup, lbt_start, Clock, Calibrate, Modems, load_firmware, AgcInit, lgw_send, hardware
    <3>2. /\ RadioTold(0) => RadioRuns(0)
          /\ RadioTold(1) => RadioRuns(1)
      BY <3>1, Places DEF RadiosSet
    <3>3. pc' \notin {"setup0", "pll0", "setup1", "pll1"}
      <4>1. ~lgw_connect
        BY <3>1 DEF lgw_connect
      <4> QED BY <1>2, <3>1, <4>1, Where
    <3>4. lost \subseteq lost'
      BY <1>2, <3>3, LostGrows
    <3>5. (RadioTold(0) => RadioRuns(0))' /\ (RadioTold(1) => RadioRuns(1))'
      BY <1>0, <2>1, <3>1, <3>2, <3>4, RadioKept
    <3> QED BY <3>3, <3>5, Places DEF RadiosSet
  <2> QED BY <1>2, <2>2, <2>3, <2>4, <2>5, <2>6, <2>7, Where
<1> QED BY <1>1, <1>2

(* The steps after which no slot is scanned.                               *)
LEMMA BoardKept ==
  ASSUME Next
  PROVE  board' = board
<1>1. ASSUME NEW c \in RfChain, lgw_setup_sx125x(c) \/ lock_pll(c) PROVE board' = board
  BY <1>1 DEF lgw_setup_sx125x, lock_pll, configuration
<1>2. ASSUME NEW conf \in LbtConfs, lgw_lbt_setconf(conf) PROVE board' = board
  BY <1>2 DEF lgw_lbt_setconf
<1>3. rak831_config \/ rak831_start \/ lgw_stop \/ lgw_send => board' = board
  BY DEF rak831_config, rak831_start, lgw_stop, lgw_send, configuration
<1>4. lgw_connect \/ lbt_setup \/ lbt_start \/ Clock \/ Calibrate \/ Modems \/ load_firmware \/ AgcInit
      => board' = board
  BY DEF lgw_connect, lbt_setup, lbt_start, Clock, Calibrate, Modems, load_firmware, AgcInit, configuration
<1> QED BY <1>1, <1>2, <1>3, <1>4 DEF Next, lgw_start

LEMMA QuietStep ==
  ASSUME TypeOK, ScanSet, Next
  PROVE  /\ (~board.fpga => Quiet)'
         /\ ("fpga" \notin lost /\ pc \in ConnectDone \ LbtDone => Quiet)'
<1>0. /\ ConfigurationOK /\ fpga \in Fpgas /\ (~board.fpga => Quiet)
      /\ "fpga" \notin lost /\ pc \in ConnectDone \ LbtDone => Quiet
  BY DEF TypeOK, HardwareOK, ScanSet
<1>1. board' = board
  BY BoardKept
<1>2. Quiet /\ UNCHANGED fpga => Quiet'
  BY DEF Quiet
<1>3. ASSUME ~board.fpga PROVE Quiet'
  <2>1. Quiet
    BY <1>0, <1>3
  <2>2. UNCHANGED fpga
    <3>1. ASSUME NEW c \in RfChain, lgw_setup_sx125x(c) \/ lock_pll(c) PROVE UNCHANGED fpga
      BY <3>1 DEF lgw_setup_sx125x, lock_pll
    <3>2. ASSUME NEW conf \in LbtConfs, lgw_lbt_setconf(conf) PROVE UNCHANGED fpga
      BY <3>2 DEF lgw_lbt_setconf, hardware
    <3>3. rak831_config \/ rak831_start \/ lgw_stop \/ lgw_send \/ Clock \/ Calibrate \/ Modems \/ load_firmware \/ AgcInit
          => UNCHANGED fpga
      BY DEF rak831_config, rak831_start, lgw_stop, lgw_send, Clock, Calibrate, Modems, load_firmware, AgcInit, hardware
    <3>4. lgw_connect => UNCHANGED fpga
      BY <1>3 DEF lgw_connect
    <3>5. lbt_setup => UNCHANGED fpga
      BY <1>3 DEF lbt_setup, LbtSupported
    <3>6. ~lbt_start
      BY <1>3 DEF ScanSet, lbt_start
    <3> QED BY <3>1, <3>2, <3>3, <3>4, <3>5, <3>6 DEF Next, lgw_start
  <2> QED BY <1>2, <2>1, <2>2
<1>4. ASSUME board.fpga, "fpga" \notin lost', pc' \in ConnectDone \ LbtDone PROVE Quiet'
  <2>1. pc' \in {"setup0", "pll0", "setup1", "pll1", "lbt"} /\ pc' \in ConnectDone
    BY <1>4, Places
  <2>2. CASE lgw_connect /\ pc' = "setup0"
    <3>1. fpga' = AfterReset(fpga) \/ fpga' = lgw_fpga_configure(AfterReset(fpga))
      BY <1>4, <2>2 DEF lgw_connect
    <3>2. AfterReset(fpga) \in Fpgas /\ AfterReset(fpga).fsm = FALSE /\ AfterReset(fpga).scan = [i \in Slots |-> 0]
      BY <1>0, AfterResetIs
    <3>3. fpga'.fsm = AfterReset(fpga).fsm /\ fpga'.scan = AfterReset(fpga).scan
      BY <1>0, <3>1, <3>2, ConfigureIs
    <3> QED BY <3>2, <3>3 DEF Quiet
  <2>3. CASE pc' # "setup0"
    <3>1. lost \subseteq lost'
      BY <2>1, <2>3, LostGrows
    <3>2. UNCHANGED fpga /\ pc \in {"setup0", "pll0", "setup1", "pll1"}
      <4>1. ASSUME NEW c, lgw_setup_sx125x(c) \/ lock_pll(c) PROVE UNCHANGED fpga
        BY <4>1 DEF lgw_setup_sx125x, lock_pll
      <4> QED BY <2>1, <2>3, <4>1, Where
    <3>3. pc \in ConnectDone \ LbtDone
      BY <3>2, Places
    <3> QED BY <1>0, <1>2, <1>4, <3>1, <3>2, <3>3
  <2>4. pc' = "setup0" => lgw_connect
    BY <2>1, Where
  <2> QED BY <2>2, <2>3, <2>4
<1> QED BY <1>1, <1>3, <1>4

(* A channel that lbt_setup accepts, the lowest frequency and its register.*)
LEMMA Offset ==
  ASSUME NEW f \in Int, NEW start \in Int, f >= start, f < start + 25600000
  PROVE  start + 100000 * (((f - start) \div 100000) % 256) <= f
<1>1. PICK d \in Int : d = f - start
  OBVIOUS
<1>2. 0 <= d /\ d < 25600000
  BY <1>1
<1>3. PICK q \in Int : q = d \div 100000
  BY <1>2
<1>4. 0 <= q /\ q < 256 /\ 100000 * q <= d
  BY <1>2, <1>3
<1>5. q % 256 = q
  BY <1>4
<1> QED BY <1>1, <1>3, <1>4, <1>5

LEMMA SlotsPrepared ==
  ASSUME ConfigurationOK, fpga \in Fpgas, Quiet, NEW level \in {0, 1},
         LbtChannels \in Accepted(lbt, lbt_start_freq(board.initial)),
         UNCHANGED <<lbt, board>>, fpga' = ScanRegisters(LbtChannels, level)
  PROVE  SlotsSet'
<1> DEFINE start == lbt_start_freq(board.initial)
<1>0. LbtChannels \in Nat /\ start \in Int
  BY BringupAssumption DEF lbt_start_freq
<1>1. /\ fpga'.offset = [i \in Slots |-> IF i <= LbtChannels THEN OffsetsWritten(lbt, start)[i] ELSE fpga.offset[i]]
      /\ fpga'.scan = [i \in Slots |-> IF i <= LbtChannels THEN ScansWritten(lbt, start, fpga.scan)[i] ELSE fpga.scan[i]]
  BY <1>0, ScanRegistersIs
<1>2. /\ \A i \in Slots : SlotAccepted(lbt, start, i)
  BY <1>0 DEF Accepted, Slots
<1> HIDE DEF start
<1>3. ASSUME NEW i \in Slots
      PROVE  /\ fpga'.scan[i] = IF Filled(lbt, start)[i].scan_time_us = 5000 THEN 1 ELSE 0
             /\ Filled(lbt, start)[i].freq_hz < start + 25600000 => start + 100000 * fpga'.offset[i] <= Filled(lbt, start)[i].freq_hz
  <2>1. i <= LbtChannels
    BY <1>0 DEF Slots
  <2>2. fpga'.scan[i] = ScansWritten(lbt, start, fpga.scan)[i]
    BY <1>1, <2>1
  <2>3. fpga'.scan[i] = IF Filled(lbt, start)[i].scan_time_us = 5000 THEN 1 ELSE 0
    BY <2>2 DEF ScansWritten, Quiet
  <2>4. PICK f : f = Filled(lbt, start)[i].freq_hz
    OBVIOUS
  <2>5. f \in Int /\ f >= start
    <3>1. f >= start
      BY <1>2, <2>4 DEF SlotAccepted
    <3>2. CASE i <= Len(lbt.channels)
      <4>1. lbt.channels \in Seq([freq_hz : Nat, scan_time_us : Nat])
        BY DEF ConfigurationOK, LbtConf
      <4>2. i \in 1 .. Len(lbt.channels)
        BY <1>0, <3>2, <4>1, LenProperties DEF Slots
      <4>3. lbt.channels[i] \in [freq_hz : Nat, scan_time_us : Nat]
        BY <4>1, <4>2, ElementOfSeq
      <4>4. f = lbt.channels[i].freq_hz
        BY <2>4, <3>2 DEF Filled
      <4> QED BY <3>1, <4>3, <4>4
    <3>3. CASE ~(i <= Len(lbt.channels))
      BY <1>0, <2>4, <3>1, <3>3 DEF Filled
    <3> QED BY <3>2, <3>3
  <2>6. fpga'.offset[i] = ((f - start) \div 100000) % 256
    <3>1. fpga'.offset[i] = OffsetsWritten(lbt, start)[i]
      BY <1>1, <2>1
    <3> QED BY <3>1, <2>4 DEF OffsetsWritten
  <2>7. f < start + 25600000 => start + 100000 * fpga'.offset[i] <= f
    BY <1>0, <2>5, <2>6, Offset
  <2> QED BY <2>3, <2>4, <2>7
<1>4. lbt_start_freq(board.initial)' = start
  BY DEF start
<1> QED BY <1>3, <1>4 DEF SlotsSet

(* What the later steps keep of the concentrator.                          *)
LEMMA KeptChip ==
  ASSUME chip \in Chips, ConfigurationOK, Calibrate \/ Modems \/ load_firmware \/ AgcInit \/ lgw_send
  PROVE  /\ chip'.clock = chip.clock
         /\ ~Calibrate => chip'.drift = chip.drift
         /\ ~Modems => chip'.peaks = chip.peaks /\ chip'.ifc = chip.ifc /\ chip'.std = chip.std /\ chip'.fsk = chip.fsk
<1>1. CASE Calibrate
  <2>1. PICK fw \in Programs("cal") :
          chip' = [chip EXCEPT !.agc = fw, !.drift = chip.drift \/ (lbt.enable /\ fpga.fsm # chip.clock)]
    BY <1>1 DEF Calibrate
  <2>2. fw \in {"none", "cal", "agc", "damaged"}
    BY DEF Programs
  <2>3. PICK drift \in BOOLEAN : drift = (chip.drift \/ (lbt.enable /\ fpga.fsm # chip.clock))
    OBVIOUS
  <2>4. chip' = [chip EXCEPT !.agc = fw, !.drift = drift]
    BY <2>1, <2>3, Zenon
  <2>5. [chip EXCEPT !.agc = fw, !.drift = drift] =
          [clock |-> chip.clock, peaks |-> chip.peaks, ifc |-> chip.ifc, std |-> chip.std,
           fsk |-> chip.fsk, agc |-> fw, arb |-> chip.arb, drift |-> drift]
    BY <2>2, CalibrateChip, Zenon
  <2> QED BY <1>1, <2>4, <2>5
<1>2. CASE Modems
  <2>1. ~Calibrate
    BY <1>2 DEF Modems, Calibrate
  <2> QED BY <1>2, <2>1, ModemsChip
<1>3. CASE load_firmware
  <2>1. PICK arb \in Programs("arb"), fw \in Programs("agc") : chip' = [chip EXCEPT !.arb = arb, !.agc = fw]
    BY <1>3 DEF load_firmware
  <2>2. arb \in {"none", "arb", "damaged"} /\ fw \in {"none", "cal", "agc", "damaged"}
    BY DEF Programs
  <2> QED BY <2>1, <2>2, LoadChip
<1>4. CASE AgcInit \/ lgw_send
  BY <1>4 DEF AgcInit, lgw_send, hardware
<1> QED BY <1>1, <1>2, <1>3, <1>4

(* The scan, while it is prepared, started and running.                    *)
LEMMA ReadyStep ==
  ASSUME TypeOK, ScanSet, Next
  PROVE  ("fpga" \notin lost /\ pc \in LbtDone /\ lbt.enable => ReadyToScan)'
<1>0. ConfigurationOK /\ fpga \in Fpgas
  BY DEF TypeOK, HardwareOK
<1> SUFFICES ASSUME "fpga" \notin lost', pc' \in LbtDone, lbt'.enable PROVE ReadyToScan'
  OBVIOUS
<1>1. /\ pc' \in ConnectDone
      /\ pc' \in {"fsm", "clock", "calibrate", "modems", "load", "agc", "started"}
  BY Places
<1>2. UNCHANGED <<hal, lgwm, lbt, board, wanted>>
  BY <1>1, Where
<1>3. "fpga" \notin lost
  BY <1>1, LostGrows
<1>4. CASE lbt_setup /\ pc = "lbt" /\ pc' \in {"clock", "fsm"}
  <2>1. PICK i \in Found(board.sx127x) :
          /\ LbtChannels \in {0} \cup Accepted(lbt, lbt_start_freq(board.initial))
          /\ fpga' = ScanRegisters(LbtChannels, Probes[i].level)
    BY <1>2, <1>4 DEF lbt_setup, Fault
  <2>2. LbtChannels \in Accepted(lbt, lbt_start_freq(board.initial)) /\ LbtChannels \in Nat
    BY <2>1, BringupAssumption
  <2>3. Probes[i].level \in {0, 1} /\ Probes[Probes[i].level + 1].type = board.sx127x
    BY DEF Found, Probes
  <2>4. Quiet
    <3>1. pc \in ConnectDone \ LbtDone
      BY <1>4, Places
    <3> QED BY <1>3, <3>1 DEF ScanSet
  <2>5. SlotsSet'
    BY <1>0, <1>2, <2>1, <2>2, <2>3, <2>4, SlotsPrepared
  <2>6. fpga'.receiving = TRUE /\ fpga'.level = Probes[i].level
    BY <1>0, <2>1, <2>2, <2>3, ScanRegistersIs
  <2> QED BY <1>2, <2>3, <2>5, <2>6 DEF ReadyToScan
<1>5. CASE lbt_start /\ pc = "fsm"
  <2>1. ReadyToScan
    <3>1. pc \in LbtDone
      BY <1>5, Places
    <3> QED BY <1>2, <1>3, <3>1 DEF ScanSet
  <2>2. UNCHANGED fpga \/ fpga' = [fpga EXCEPT !.fsm = TRUE]
    BY <1>5 DEF lbt_start
  <2>3. /\ fpga'.receiving = fpga.receiving /\ fpga'.level = fpga.level
        /\ fpga'.scan = fpga.scan /\ fpga'.offset = fpga.offset
    BY <1>0, <2>2, FpgaRecord, FpgaUpdates
  <2>4. SlotsSet'
    BY <1>2, <2>1, <2>3 DEF ReadyToScan, SlotsSet
  <2> QED BY <1>2, <2>1, <2>3, <2>4 DEF ReadyToScan
<1>6. CASE Clock \/ Calibrate \/ Modems \/ load_firmware \/ AgcInit \/ lgw_send
  <2>1. UNCHANGED fpga /\ pc \in {"clock", "calibrate", "modems", "load", "agc", "started"}
    BY <1>6 DEF Clock, Calibrate, Modems, load_firmware, AgcInit, lgw_send, hardware
  <2>2. pc \in LbtDone
    BY <2>1, Places
  <2>3. ReadyToScan
    BY <1>2, <1>3, <2>2 DEF ScanSet
  <2>4. SlotsSet'
    BY <1>2, <2>1, <2>3 DEF ReadyToScan, SlotsSet
  <2> QED BY <1>2, <2>1, <2>3, <2>4 DEF ReadyToScan
<1> QED BY <1>1, <1>4, <1>5, <1>6, Where

(* It starts when it is to, and only then.                                 *)
LEMMA ScanningStep ==
  ASSUME TypeOK, ScanSet, Next
  PROVE  ("fpga" \notin lost /\ pc \in ScanDone => fpga.fsm = lbt.enable)'
<1>0. ConfigurationOK /\ fpga \in Fpgas /\ lbt.enable \in BOOLEAN /\ fpga.fsm \in BOOLEAN
  BY FpgaFields DEF TypeOK, HardwareOK, ConfigurationOK, LbtConf
<1> SUFFICES ASSUME "fpga" \notin lost', pc' \in ScanDone PROVE fpga'.fsm = lbt'.enable
  OBVIOUS
<1>1. /\ pc' \in ConnectDone
      /\ pc' \in {"clock", "calibrate", "modems", "load", "agc", "started"}
  BY Places
<1>2. UNCHANGED <<hal, lgwm, lbt, board, wanted>>
  BY <1>1, Where
<1>3. "fpga" \notin lost
  BY <1>1, LostGrows
<1>4. CASE lbt_setup /\ pc = "lbt"
  <2>1. ~lbt.enable /\ UNCHANGED fpga
    BY <1>1, <1>4 DEF lbt_setup, Fault
  <2>2. ~fpga.fsm
    <3>1. pc \in ConnectDone \ LbtDone
      BY <1>4, Places
    <3> QED BY <1>3, <3>1 DEF ScanSet, Quiet
  <2>3. fpga.fsm = FALSE /\ lbt.enable = FALSE
    BY <1>0, <2>1, <2>2
  <2> QED BY <1>2, <2>1, <2>3
<1>5. CASE lbt_start /\ pc = "fsm"
  <2>1. fpga' = [fpga EXCEPT !.fsm = TRUE]
    BY <1>1, <1>5 DEF lbt_start, Fault
  <2>2. fpga'.fsm = TRUE
    BY <1>0, <2>1, FpgaRecord, FpgaUpdates
  <2>3. lbt.enable
    BY <1>5 DEF ScanSet
  <2>4. lbt.enable = TRUE
    BY <1>0, <2>3
  <2> QED BY <1>2, <2>2, <2>4
<1>6. CASE Clock \/ Calibrate \/ Modems \/ load_firmware \/ AgcInit \/ lgw_send
  <2>1. UNCHANGED fpga /\ pc \in {"clock", "calibrate", "modems", "load", "agc", "started"}
    BY <1>6 DEF Clock, Calibrate, Modems, load_firmware, AgcInit, lgw_send, hardware
  <2>2. pc \in ScanDone
    BY <2>1, Places
  <2> QED BY <1>2, <1>3, <2>1, <2>2 DEF ScanSet
<1> QED BY <1>1, <1>4, <1>5, <1>6, Where

(* The counter of the concentrator runs once it was started.               *)
LEMMA ClockStep ==
  ASSUME TypeOK, ScanSet, Next
  PROVE  (pc \in ClockDone /\ "clock" \notin lost => chip.clock)'
<1>0. ConfigurationOK /\ chip \in Chips
  BY DEF TypeOK, HardwareOK
<1> SUFFICES ASSUME pc' \in ClockDone, "clock" \notin lost' PROVE chip'.clock
  OBVIOUS
<1>1. pc' \in ConnectDone /\ pc' \in {"calibrate", "modems", "load", "agc", "started"}
  BY Places
<1>2. "clock" \notin lost
  BY <1>1, LostGrows
<1>3. CASE Clock
  <2>1. chip' = [chip EXCEPT !.clock = TRUE]
    BY <1>3 DEF Clock, Lose
  <2>2. chip.drift \in BOOLEAN
    BY <1>0, ChipFields
  <2>3. chip'.clock = TRUE
    BY <1>0, <2>1, ChipRecord, ChipUpdates
  <2> QED BY <2>3
<1>4. CASE Calibrate \/ Modems \/ load_firmware \/ AgcInit \/ lgw_send
  <2>1. chip'.clock = chip.clock
    BY <1>0, <1>4, KeptChip
  <2>2. pc \in ClockDone
    BY <1>4, Places DEF Calibrate, Modems, load_firmware, AgcInit, lgw_send
  <2>3. chip.clock
    BY <1>2, <2>2 DEF ScanSet
  <2> QED BY <2>1, <2>3
<1> QED BY <1>1, <1>3, <1>4, Where

(* Nothing of an attempt that reaches the FPGA and the concentrator sets   *)
(* their counters apart.                                                   *)
LEMMA InStepStep ==
  ASSUME TypeOK, ScanSet, Next
  PROVE  (lost \cap {"fpga", "clock"} = {} /\ pc \in ConnectDone /\ lbt.enable => ~chip.drift)'
<1>0. /\ ConfigurationOK /\ chip \in Chips /\ chip.drift \in BOOLEAN /\ chip.clock \in BOOLEAN
      /\ lbt.enable \in BOOLEAN
  BY ChipFields DEF TypeOK, HardwareOK, ConfigurationOK, LbtConf
<1> SUFFICES ASSUME lost' \cap {"fpga", "clock"} = {}, pc' \in ConnectDone, lbt'.enable PROVE ~chip'.drift
  OBVIOUS
<1>1. UNCHANGED <<hal, lgwm, lbt, board, wanted>>
  BY Where
<1>2. "fpga" \notin lost' /\ "clock" \notin lost'
  OBVIOUS
<1>3. CASE lgw_connect
  <2>1. chip' = ChipReset
    BY <1>2, <1>3, Places DEF lgw_connect
  <2> QED BY <2>1 DEF ChipReset
<1>4. CASE ~lgw_connect
  <2>1. lost \subseteq lost' /\ pc \in ConnectDone
    <3>1. pc' # "setup0" /\ pc \in ConnectDone
      BY <1>4, Places, Where
    <3> QED BY <3>1, LostGrows
  <2>2. ~chip.drift
    <3>1. lost \cap {"fpga", "clock"} = {}
      BY <2>1
    <3> QED BY <1>1, <2>1, <3>1 DEF ScanSet
  <2>3. ASSUME NEW c, lgw_setup_sx125x(c) \/ lock_pll(c) PROVE UNCHANGED chip
    BY <2>3 DEF lgw_setup_sx125x, lock_pll
  <2>4. lbt_setup \/ lbt_start => UNCHANGED chip
    BY DEF lbt_setup, lbt_start
  <2>5. CASE Clock
    <3>1. chip' = [chip EXCEPT !.clock = TRUE]
      BY <1>2, <2>5 DEF Clock, Lose
    <3>2. chip'.drift = chip.drift
      BY <1>0, <3>1, ChipRecord, ChipUpdates
    <3> QED BY <2>2, <3>2
  <2>6. CASE Calibrate
    <3>1. PICK fw \in {"none", "cal", "agc", "damaged"} :
            chip' = [chip EXCEPT !.agc = fw, !.drift = chip.drift \/ (lbt.enable /\ fpga.fsm # chip.clock)]
      BY <2>6 DEF Calibrate, Programs
    <3>2. lbt.enable => fpga.fsm = chip.clock
      <4>1. pc \in ScanDone /\ pc \in ClockDone /\ "fpga" \notin lost /\ "clock" \notin lost
        BY <1>2, <2>1, <2>6, Places DEF Calibrate
      <4>2. fpga.fsm = lbt.enable /\ chip.clock
        BY <4>1 DEF ScanSet
      <4> QED BY <1>0, <4>2
    <3>3. PICK drift \in BOOLEAN : drift = (chip.drift \/ (lbt.enable /\ fpga.fsm # chip.clock))
      OBVIOUS
    <3>4. ~drift
      BY <2>2, <3>2, <3>3
    <3>5. chip' = [chip EXCEPT !.agc = fw, !.drift = drift]
      BY <3>1, <3>3, Zenon
    <3>6. chip' = [clock |-> chip.clock, peaks |-> chip.peaks, ifc |-> chip.ifc, std |-> chip.std,
                   fsk |-> chip.fsk, agc |-> fw, arb |-> chip.arb, drift |-> drift]
      BY <1>0, <3>5, CalibrateChip, Zenon
    <3>7. chip'.drift = drift
      BY <3>6
    <3> QED BY <3>4, <3>7
  <2>7. CASE Modems \/ load_firmware \/ AgcInit \/ lgw_send
    <3>1. ~Calibrate
      BY <2>7 DEF Modems, load_firmware, AgcInit, lgw_send, Calibrate
    <3>2. chip'.drift = chip.drift
      BY <1>0, <2>7, <3>1, KeptChip
    <3> QED BY <2>2, <3>2
  <2> QED BY <1>4, <2>2, <2>3, <2>4, <2>5, <2>6, <2>7, Where
<1> QED BY <1>3, <1>4

LEMMA ScanSetStep ==
  ASSUME TypeOK, ScanSet, Next
  PROVE  ScanSet'
<1>1. (pc = "fsm" => lbt.enable /\ board.fpga)'
  <2> SUFFICES ASSUME pc' = "fsm" PROVE lbt'.enable /\ board'.fpga
    OBVIOUS
  <2>1. lbt_setup /\ UNCHANGED <<hal, lgwm, lbt, board, wanted>>
    BY Places, Where
  <2>2. lbt.enable /\ board.fpga
    BY <2>1 DEF lbt_setup, Fault, LbtSupported
  <2> QED BY <2>1, <2>2
<1> QED BY <1>1, QuietStep, ReadyStep, ScanningStep, ClockStep, InStepStep DEF ScanSet

LEMMA PeaksSetStep ==
  ASSUME TypeOK, PeaksSet, Next
  PROVE  PeaksSet'
<1>0. chip \in Chips /\ ConfigurationOK
  BY DEF TypeOK, HardwareOK
<1> DEFINE Right == \A modem \in DOMAIN chip.peaks : chip.peaks[modem] = lgw_constant_adjust[modem]
<1> SUFFICES ASSUME pc' \in PeaksDone, "modems" \notin lost'
             PROVE  Right' /\ ModemsRun'
  BY DEF PeaksSet
<1>1. pc' \in {"load", "agc", "started"} /\ pc' \in ConnectDone
  BY Places
<1>2. UNCHANGED <<hal, lgwm, lbt, board, wanted>>
  BY <1>1, Where
<1>3. lgw_constant_adjust' = lgw_constant_adjust
  BY <1>2 DEF lgw_constant_adjust
<1>4. "modems" \notin lost
  BY <1>1, LostGrows
<1>5. CASE Modems /\ pc' = "load"
  <2>1. chip'.peaks = lgw_constant_adjust /\ ModemsRun'
    BY <1>0, <1>5, ModemsChip
  <2> QED BY <1>3, <2>1
<1>6. CASE load_firmware \/ AgcInit \/ lgw_send
  <2>1. pc \in PeaksDone
    BY <1>6, Places DEF load_firmware, AgcInit, lgw_send
  <2>2. ~Modems
    BY <2>1, Places DEF Modems
  <2>3. chip'.peaks = chip.peaks /\ chip'.ifc = chip.ifc /\ chip'.std = chip.std /\ chip'.fsk = chip.fsk
    BY <1>0, <1>6, <2>2, KeptChip
  <2>4. Right /\ ModemsRun
    BY <1>4, <2>1 DEF PeaksSet
  <2>5. Right'
    BY <1>3, <2>3, <2>4
  <2>6. ModemsRun'
    BY <1>2, <2>3, <2>4 DEF ModemsRun
  <2> QED BY <2>5, <2>6
<1> QED BY <1>1, <1>5, <1>6, Where

(* The beginning of a sequence, one entry longer, and all of it.           *)
LEMMA Longer ==
  ASSUME NEW s \in Seq(Words), NEW n \in 1 .. Len(s)
  PROVE  Append(SubSeq(s, 1, n - 1), s[n]) = SubSeq(s, 1, n) /\ Len(SubSeq(s, 1, n - 1)) + 1 = n
<1>0. Len(s) \in Nat /\ n \in Nat /\ n >= 1 /\ n <= Len(s)
  BY LenProperties
<1>1. s[n] \in Words
  BY ElementOfSeq
<1> DEFINE short == SubSeq(s, 1, n - 1)
           long == SubSeq(s, 1, n)
<1>2. short \in Seq(Words) /\ Len(short) = n - 1 /\ \A i \in 1 .. n - 1 : short[i] = s[i]
  BY <1>0, SubSeqProperties
<1>3. long \in Seq(Words) /\ Len(long) = n /\ \A i \in 1 .. n : long[i] = s[i]
  BY <1>0, SubSeqProperties
<1> HIDE DEF short, long
<1>4. /\ Append(short, s[n]) \in Seq(Words) /\ Len(Append(short, s[n])) = n
      /\ \A i \in 1 .. n : Append(short, s[n])[i] = IF i <= n - 1 THEN short[i] ELSE s[n]
  BY <1>0, <1>1, <1>2, AppendProperties
<1>5. \A i \in 1 .. n : Append(short, s[n])[i] = long[i]
  BY <1>0, <1>2, <1>3, <1>4
<1>6. Append(short, s[n]) = long
  BY <1>3, <1>4, <1>5, SeqEqual
<1> QED BY <1>0, <1>2, <1>6 DEF short, long

LEMMA WholeSeq ==
  ASSUME NEW s \in Seq(Words)
  PROVE  SubSeq(s, 1, Len(s)) = s
<1>0. Len(s) \in Nat
  BY LenProperties
<1> DEFINE whole == SubSeq(s, 1, Len(s))
<1>1. whole \in Seq(Words) /\ Len(whole) = Len(s) /\ \A i \in 1 .. Len(s) : whole[i] = s[i]
  BY <1>0, SubSeqProperties
<1> HIDE DEF whole
<1>2. whole = s
  BY <1>1, SeqEqual
<1> QED BY <1>2 DEF whole

LEMMA TableSize ==
  ASSUME ConfigurationOK
  PROVE  /\ Len(hal.lut) \in Nat /\ LutMax \in Nat /\ 1 <= Len(hal.lut) /\ Len(hal.lut) <= LutMax
         /\ TableWords \in Nat /\ Len(hal.lut) <= TableWords
         /\ Len(hal.lut) < LutMax => TableWords = Len(hal.lut) + 1
         /\ Len(hal.lut) = LutMax => TableWords = Len(hal.lut)
<1>1. Len(hal.lut) \in 1 .. LutMax /\ LutMax \in Nat /\ TableWords \in Nat
  BY ScriptWords, BringupAssumption
<1>2. TableWords = Len(hal.lut) + (IF Len(hal.lut) < LutMax THEN 1 ELSE 0)
  BY DEF TableWords
<1>3. Len(hal.lut) \in Nat /\ 1 <= Len(hal.lut) /\ Len(hal.lut) <= LutMax
  BY <1>1
<1>4. CASE Len(hal.lut) < LutMax
  BY <1>1, <1>2, <1>3, <1>4
<1>5. CASE ~(Len(hal.lut) < LutMax)
  BY <1>1, <1>2, <1>3, <1>5
<1> QED BY <1>4, <1>5

(* What the firmware has been told, before and after each word.            *)
LEMMA ToldFirst ==
  ASSUME ConfigurationOK
  PROVE  AgcBoot = Told(1)
<1>1. Len(hal.lut) \in Nat /\ TableWords \in Nat /\ 1 <= Len(hal.lut) /\ Len(hal.lut) <= TableWords
  BY TableSize
<1>2. 1 <= Len(hal.lut) /\ 1 <= TableWords
  BY <1>1
<1>3. SubSeq(hal.lut, 1, 0) = <<>>
  BY HalFields, SubSeqProperties DEF ConfigurationOK
<1>4. ~(1 >= TableWords + 2)
  BY <1>1, <1>2
<1> QED BY <1>2, <1>3, <1>4 DEF Told, AgcBoot

LEMMA ToldNext ==
  ASSUME ConfigurationOK, FilesRead, agc \in Agcs, agc = Told(step), step \in 1 .. TableWords + 2
  PROVE  Taken(Sent[step].word) = Told(step + 1)
<1> DEFINE k == Len(hal.lut)
           word == Sent[step].word
<1>1. /\ k \in Nat /\ TableWords \in Nat /\ LutMax \in Nat /\ step \in Nat /\ 1 <= step /\ step <= TableWords + 2
      /\ 1 <= k /\ k <= LutMax /\ k <= TableWords
      /\ k < LutMax => TableWords = k + 1
      /\ k = LutMax => TableWords = k
  <2>1. step \in Nat /\ 1 <= step /\ step <= TableWords + 2
    <3>1. TableWords \in Nat
      BY TableSize
    <3> QED BY <3>1
  <2> QED BY <2>1, TableSize
<1>2. hal.lut \in Seq(Words) /\ DOMAIN hal.lut = 1 .. k
  BY HalFields, LenProperties DEF ConfigurationOK
<1>3. /\ agc.phase = (IF step <= TableWords THEN "boot" ELSE IF step = TableWords + 1 THEN "msb"
                      ELSE IF step = TableWords + 2 THEN "option" ELSE "select")
      /\ agc.lut = SubSeq(hal.lut, 1, IF step <= k THEN step - 1 ELSE k)
      /\ agc.msb = (IF step >= TableWords + 2 THEN 3 ELSE 0)
      /\ agc.option = 0 /\ agc.select = 0
  BY DEF Told
<1> HIDE DEF word
<1>4. CASE step <= k
  <2>1. word = hal.lut[step] /\ word # Abort /\ word \in Words
    <3>1. step \in 1 .. k
      BY <1>1, <1>4
    <3>2. Sent[step] = [word |-> hal.lut[step], status |-> 47 + step] /\ hal.lut[step] \in Words
      BY <3>1, ScriptWords
    <3>3. hal.lut[step] # Abort
      BY <1>2, <3>1 DEF FilesRead
    <3> QED BY <3>2, <3>3 DEF word
  <2>2. k <= TableWords /\ step <= TableWords
    BY <1>1, <1>4
  <2>3. agc.phase = "boot" /\ agc.lut = SubSeq(hal.lut, 1, step - 1) /\ agc.msb = 0
    <3>1. ~(step >= TableWords + 2)
      BY <1>1, <2>2
    <3> QED BY <1>3, <1>4, <2>2, <3>1
  <2>4. Append(agc.lut, word) = SubSeq(hal.lut, 1, step) /\ Len(agc.lut) + 1 = step
    BY <1>1, <1>2, <1>4, <2>1, <2>3, Longer
  <2>5. Taken(word) = [phase |-> IF step = LutMax THEN "msb" ELSE "boot", lut |-> SubSeq(hal.lut, 1, step),
                       msb |-> 0, option |-> 0, select |-> 0]
    BY <1>3, <2>1, <2>3, <2>4, TakenIs
  <2>6. CASE step = LutMax
    <3>1. TableWords = k /\ step = k
      BY <1>1, <1>4, <2>6
    <3>2. ~(step + 1 <= TableWords) /\ step + 1 = TableWords + 1 /\ ~(step + 1 <= k) /\ ~(step + 1 >= TableWords + 2)
      BY <1>1, <3>1
    <3>3. Told(step + 1) = [phase |-> "msb", lut |-> SubSeq(hal.lut, 1, k), msb |-> 0, option |-> 0, select |-> 0]
      BY <3>2 DEF Told
    <3> QED BY <2>5, <2>6, <3>1, <3>3 DEF word
  <2>7. CASE step # LutMax
    <3>1. step + 1 <= TableWords
      <4>1. CASE k < LutMax
        BY <1>1, <1>4, <4>1
      <4>2. CASE ~(k < LutMax)
        BY <1>1, <1>4, <2>7, <4>2
      <4> QED BY <4>1, <4>2
    <3>2. ~(step + 1 >= TableWords + 2)
      BY <1>1, <3>1
    <3>3. PICK n : n = IF step + 1 <= k THEN (step + 1) - 1 ELSE k
      OBVIOUS
    <3>4. n = step
      BY <1>1, <1>4, <3>3
    <3>5. Told(step + 1) = [phase |-> "boot", lut |-> SubSeq(hal.lut, 1, n), msb |-> 0, option |-> 0, select |-> 0]
      BY <3>1, <3>2, <3>3 DEF Told
    <3> QED BY <2>5, <2>7, <3>4, <3>5 DEF word
  <2> QED BY <2>6, <2>7
<1>5. CASE k < LutMax /\ step = k + 1
  <2>1. word = Abort /\ TableWords = k + 1
    <3>1. Sent[k + 1] = [word |-> Abort, status |-> 48]
      BY <1>5, ScriptWords
    <3> QED BY <1>1, <1>5, <3>1 DEF word
  <2>2. step <= TableWords /\ ~(step <= k) /\ ~(step >= TableWords + 2)
    BY <1>1, <1>5, <2>1
  <2>3. agc.phase = "boot" /\ agc.lut = SubSeq(hal.lut, 1, k) /\ agc.msb = 0
    BY <1>3, <2>2
  <2>4. Taken(word) = [phase |-> "msb", lut |-> SubSeq(hal.lut, 1, k), msb |-> 0, option |-> 0, select |-> 0]
    BY <1>3, <2>1, <2>3, TakenIs
  <2>5. ~(step + 1 <= TableWords) /\ step + 1 = TableWords + 1 /\ ~(step + 1 <= k) /\ ~(step + 1 >= TableWords + 2)
    BY <1>1, <1>5, <2>1
  <2>6. Told(step + 1) = [phase |-> "msb", lut |-> SubSeq(hal.lut, 1, k), msb |-> 0, option |-> 0, select |-> 0]
    BY <2>5 DEF Told
  <2> QED BY <2>4, <2>6 DEF word
<1>6. CASE step = TableWords + 1
  <2>1. word = 3
    <3>1. Sent[TableWords + 1] = [word |-> 3, status |-> 51]
      BY ScriptWords, Zenon
    <3> QED BY <1>6, <3>1 DEF word
  <2>2. k <= TableWords
    BY <1>1
  <2>3. ~(step <= TableWords) /\ ~(step <= k) /\ ~(step >= TableWords + 2)
    BY <1>1, <1>6, <2>2
  <2>4. agc.phase = "msb" /\ agc.lut = SubSeq(hal.lut, 1, k)
    BY <1>3, <1>6, <2>3
  <2>5. Taken(word) = [phase |-> "option", lut |-> SubSeq(hal.lut, 1, k), msb |-> 3, option |-> 0, select |-> 0]
    BY <1>3, <2>1, <2>4, TakenIs
  <2>6. /\ ~(step + 1 <= TableWords) /\ step + 1 # TableWords + 1 /\ step + 1 = TableWords + 2
        /\ ~(step + 1 <= k) /\ step + 1 >= TableWords + 2
    BY <1>1, <1>6, <2>2
  <2>7. Told(step + 1) = [phase |-> "option", lut |-> SubSeq(hal.lut, 1, k), msb |-> 3, option |-> 0, select |-> 0]
    BY <2>6 DEF Told
  <2> QED BY <2>5, <2>7 DEF word
<1>7. CASE step = TableWords + 2
  <2>1. word = 0
    <3>1. Sent[TableWords + 2] = [word |-> 0, status |-> 48]
      BY ScriptWords, Zenon
    <3> QED BY <1>7, <3>1 DEF word
  <2>2. k <= TableWords
    BY <1>1
  <2>3. ~(step <= TableWords) /\ ~(step <= k) /\ step >= TableWords + 2 /\ step # TableWords + 1
    BY <1>1, <1>7, <2>2
  <2>4. agc.phase = "option" /\ agc.lut = SubSeq(hal.lut, 1, k) /\ agc.msb = 3
    BY <1>3, <1>7, <2>3
  <2>5. Taken(word) = [phase |-> "select", lut |-> SubSeq(hal.lut, 1, k), msb |-> 3, option |-> 0, select |-> 0]
    BY <1>3, <2>1, <2>4, TakenIs
  <2>6. /\ ~(step + 1 <= TableWords) /\ step + 1 # TableWords + 1 /\ step + 1 # TableWords + 2
        /\ ~(step + 1 <= k) /\ step + 1 >= TableWords + 2
    BY <1>1, <1>7, <2>2
  <2>7. Told(step + 1) = [phase |-> "select", lut |-> SubSeq(hal.lut, 1, k), msb |-> 3, option |-> 0, select |-> 0]
    BY <2>6 DEF Told
  <2> QED BY <2>5, <2>7 DEF word
<1>8. step <= k \/ (k < LutMax /\ step = k + 1) \/ step = TableWords + 1 \/ step = TableWords + 2
  <2>1. CASE k < LutMax
    BY <1>1, <2>1
  <2>2. CASE ~(k < LutMax)
    BY <1>1, <2>2
  <2> QED BY <2>1, <2>2
<1> QED BY <1>4, <1>5, <1>6, <1>7, <1>8 DEF word

LEMMA ToldLast ==
  ASSUME ConfigurationOK, agc \in Agcs, agc = Told(step), step = TableWords + 3
  PROVE  Taken(Sent[step].word) =
           [phase |-> "run", lut |-> hal.lut, msb |-> 3, option |-> 0, select |-> RadioSelect]
<1> DEFINE k == Len(hal.lut)
           word == Sent[step].word
<1>1. TableWords \in Nat /\ k \in Nat /\ k <= TableWords
  BY TableSize
<1>2. word = RadioSelect
  <2>1. Sent[TableWords + 3] = [word |-> RadioSelect, status |-> 64]
    BY ScriptWords, Zenon
  <2> QED BY <2>1
<1> HIDE DEF word
<1>3. /\ ~(step <= TableWords) /\ step # TableWords + 1 /\ step # TableWords + 2
      /\ ~(step <= k) /\ step >= TableWords + 2
  BY <1>1
<1>4. SubSeq(hal.lut, 1, k) = hal.lut
  BY <1>1, HalFields, WholeSeq DEF ConfigurationOK
<1>5. agc.phase = "select" /\ agc.lut = hal.lut /\ agc.msb = 3 /\ agc.option = 0
  BY <1>3, <1>4 DEF Told
<1> QED BY <1>2, <1>5, TakenIs DEF word

(* Two words in a row with the same status: the entry of a table of one,   *)
(* and the word that ends it.                                              *)
LEMMA SameStatus ==
  ASSUME ConfigurationOK, NEW s \in 2 .. TableWords + 3, Sent[s - 1].status = Sent[s].status
  PROVE  Len(hal.lut) = 1 /\ s = 2 /\ TableWords = 2
<1> DEFINE k == Len(hal.lut)
<1>1. /\ k \in Nat /\ TableWords \in Nat /\ LutMax \in Nat /\ 1 <= k /\ k <= LutMax /\ k <= TableWords
      /\ k < LutMax => TableWords = k + 1
      /\ k = LutMax => TableWords = k
      /\ LutMax >= 2 /\ LutMax # 4
  BY TableSize, BringupAssumption
<1>2. s \in Nat /\ 2 <= s /\ s <= TableWords + 3
  BY <1>1
<1>3. \A i \in 1 .. k : Sent[i].status = 47 + i
  <2> TAKE i \in 1 .. k
  <2>1. Sent[i] = [word |-> hal.lut[i], status |-> 47 + i]
    BY ScriptWords
  <2> QED BY <2>1
<1>4. k < LutMax => Sent[k + 1].status = 48
  BY ScriptWords
<1>5. Sent[TableWords + 1].status = 51 /\ Sent[TableWords + 2].status = 48 /\ Sent[TableWords + 3].status = 64
  <2>1. /\ Sent[TableWords + 1] = [word |-> 3, status |-> 51]
        /\ Sent[TableWords + 2] = [word |-> 0, status |-> 48]
        /\ Sent[TableWords + 3] = [word |-> RadioSelect, status |-> 64]
    BY ScriptWords, Zenon
  <2> QED BY <2>1
<1> HIDE DEF k
<1>6. ~(s <= k)
  <2> SUFFICES ASSUME s <= k PROVE FALSE
    OBVIOUS
  <2>1. s \in 1 .. k /\ s - 1 \in 1 .. k
    BY <1>1, <1>2
  <2>2. Sent[s].status = 47 + s /\ Sent[s - 1].status = 47 + (s - 1)
    BY <1>3, <2>1
  <2> QED BY <1>2, <2>2
<1>7. CASE k < LutMax /\ s = k + 1
  <2>1. s - 1 = k /\ k \in 1 .. k
    BY <1>1, <1>7
  <2>2. Sent[s - 1].status = 47 + k /\ Sent[s].status = 48
    BY <1>3, <1>4, <1>7, <2>1
  <2>3. k = 1
    <3>1. 47 + k = 48
      BY <2>2, Zenon
    <3>2. k \in Nat
      BY <1>1
    <3> QED BY <3>1, <3>2
  <2>4. s = 2 /\ TableWords = 2
    BY <1>1, <1>7, <2>3
  <2> QED BY <2>3, <2>4 DEF k
<1>8. CASE s = TableWords + 1
  <2>1. s - 1 = TableWords /\ Sent[s].status = 51
    BY <1>1, <1>5, <1>8
  <2>2. CASE k < LutMax
    <3>1. s - 1 = k + 1
      BY <1>1, <2>1, <2>2
    <3>2. Sent[s - 1].status = 48
      BY <1>4, <2>2, <3>1
    <3> QED BY <2>1, <3>2
  <2>3. CASE ~(k < LutMax)
    <3>1. s - 1 = k /\ k = LutMax /\ k \in 1 .. k
      BY <1>1, <2>1, <2>3
    <3>2. Sent[s - 1].status = 47 + LutMax
      BY <1>3, <3>1
    <3> QED BY <1>1, <2>1, <3>2
  <2> QED BY <2>2, <2>3
<1>9. CASE s = TableWords + 2
  <2>1. s - 1 = TableWords + 1
    BY <1>1, <1>9
  <2> QED BY <1>5, <1>9, <2>1
<1>10. CASE s = TableWords + 3
  <2>1. s - 1 = TableWords + 2
    BY <1>1, <1>10
  <2> QED BY <1>5, <1>10, <2>1
<1>11. (k < LutMax /\ s = k + 1) \/ s = TableWords + 1 \/ s = TableWords + 2 \/ s = TableWords + 3
  <2>1. CASE k < LutMax
    BY <1>1, <1>2, <1>6, <2>1
  <2>2. CASE ~(k < LutMax)
    BY <1>1, <1>2, <1>6, <2>2
  <2> QED BY <2>1, <2>2
<1> QED BY <1>7, <1>8, <1>9, <1>10, <1>11

(* A word after which the hand-shake goes on was taken, with its status, or*)
(* was lost after one with the same status.                                *)
LEMMA Passed ==
  ASSUME ConfigurationOK, FirmwareOK, AgcInit, pc' \in {"agc", "started"}
  PROVE  /\ step \in Nat /\ 1 <= step /\ step <= Len(Sent)
         /\ \/ agc' = Taken(Sent[step].word) /\ Status(Sent[step].word) = Sent[step].status
            \/ agc' = agc /\ step # 1 /\ Sent[step - 1].status = Sent[step].status
         /\ IF step = Len(Sent) THEN pc' = "started" ELSE pc' = "agc" /\ step' = step + 1
<1>0. step \in Nat /\ 1 <= step /\ step <= Len(Sent) /\ pc = "agc"
  BY BringupAssumption DEF FirmwareOK, AgcInit, Sent
<1>1. \/ agc' = Taken(Sent[step].word) /\ Compare(Status(Sent[step].word), Sent)
      \/ agc' = agc /\ Compare(StatusBefore(Sent), Sent)
  BY DEF AgcInit, Fault, Sent
<1>2. ASSUME NEW status, Compare(status, Sent)
      PROVE  /\ status = Sent[step].status
             /\ IF step = Len(Sent) THEN pc' = "started" ELSE pc' = "agc" /\ step' = step + 1
  BY <1>0, <1>2 DEF Compare
<1>3. StatusBefore(Sent) = Sent[step].status => step # 1 /\ Sent[step - 1].status = Sent[step].status
  <2>1. Sent[1].status = 48
    <3>1. 1 \in 1 .. Len(hal.lut)
      BY ScriptWords, BringupAssumption
    <3>2. Sent[1] = [word |-> hal.lut[1], status |-> 47 + 1]
      BY <3>1, ScriptWords
    <3> QED BY <3>2
  <2> QED BY <2>1 DEF StatusBefore
<1> QED BY <1>0, <1>1, <1>2, <1>3

(* The loss that was not noticed is now.                                   *)
LEMMA EndLostIsNoticed ==
  ASSUME ConfigurationOK, FirmwareOK, EndLost, AgcInit
  PROVE  pc' \notin {"agc", "started"}
<1> SUFFICES ASSUME pc' \in {"agc", "started"} PROVE FALSE
  OBVIOUS
<1>1. Len(hal.lut) = 1 /\ step = 3 /\ TableWords = 2 /\ hal.lut \in Seq(Words)
  BY BringupAssumption, TableSize, HalFields DEF EndLost, ConfigurationOK
<1>2. Sent[3].word = 3 /\ Sent[3].status = 51
  <2>1. Sent[TableWords + 1] = [word |-> 3, status |-> 51]
    BY ScriptWords, Zenon
  <2> QED BY <1>1, <2>1
<1>3. ~(step # 1 /\ Sent[step - 1].status = Sent[step].status)
  <2>1. step \in 2 .. TableWords + 3
    BY <1>1
  <2> QED BY <1>1, <2>1, SameStatus
<1>4. Status(3) = 51
  BY <1>1, <1>2, <1>3, Passed
<1>5. agc.phase = "boot" /\ agc.lut = SubSeq(hal.lut, 1, 1)
  BY <1>1 DEF EndLost, Told
<1>6. Len(agc.lut) = 1
  BY <1>1, <1>5, WholeSeq
<1>7. Status(3) = 49
  BY <1>5, <1>6 DEF Status, Abort
<1> QED BY <1>4, <1>7

LEMMA UnderstoodStep ==
  ASSUME TypeOK, FilesRead, Understood, Next
  PROVE  Understood'
<1>0. ConfigurationOK /\ FirmwareOK /\ agc \in Agcs
  BY DEF TypeOK, FirmwareOK
<1>1. CASE pc' \notin {"agc", "started"}
  BY <1>1 DEF Understood
<1>2. CASE pc' \in {"agc", "started"}
  <2>1. pc' \in ConnectDone
    BY <1>2, Places
  <2>2. hal' = hal
    BY <2>1, Where
  <2>3. TableWords' = TableWords /\ RadioSelect' = RadioSelect
    BY <2>2 DEF TableWords, RadioSelect
  <2>5. CASE load_firmware /\ pc' = "agc"
    <3>1. agc' = AgcBoot /\ step' = 1
      BY <2>5 DEF load_firmware, Fault
    <3>2. Told(step)' = Told(1)
      BY <2>2, <2>3, <3>1 DEF Told
    <3> QED BY <1>0, <2>5, <3>1, <3>2, ToldFirst DEF Understood
  <2>6. CASE AgcInit
    <3>1. /\ step \in Nat /\ 1 <= step /\ step <= Len(Sent)
          /\ \/ agc' = Taken(Sent[step].word)
             \/ agc' = agc /\ step # 1 /\ Sent[step - 1].status = Sent[step].status
          /\ IF step = Len(Sent) THEN pc' = "started" ELSE pc' = "agc" /\ step' = step + 1
      BY <1>0, <1>2, <2>6, Passed
    <3>2. Len(Sent) = TableWords + 3 /\ TableWords \in Nat
      BY <1>0, ScriptWords
    <3>3. agc = Told(step)
      <4>1. pc = "agc"
        BY <2>6 DEF AgcInit
      <4>2. ~EndLost
        BY <1>0, <1>2, <2>6, EndLostIsNoticed
      <4> QED BY <4>1, <4>2 DEF Understood
    <3>4. CASE agc' = Taken(Sent[step].word) /\ step = Len(Sent)
      <4>1. agc' = [phase |-> "run", lut |-> hal.lut, msb |-> 3, option |-> 0, select |-> RadioSelect]
        BY <1>0, <3>2, <3>3, <3>4, ToldLast
      <4>2. AsTheScriptSays'
        BY <2>2, <2>3, <4>1 DEF AsTheScriptSays
      <4> QED BY <3>1, <3>4, <4>2 DEF Understood
    <3>5. CASE agc' = Taken(Sent[step].word) /\ step # Len(Sent)
      <4>1. step \in 1 .. TableWords + 2
        BY <3>1, <3>2, <3>5
      <4>2. agc' = Told(step + 1)
        BY <1>0, <3>3, <3>5, <4>1, ToldNext
      <4>3. pc' = "agc" /\ step' = step + 1
        BY <3>1, <3>5
      <4>4. Told(step)' = Told(step + 1)
        BY <2>2, <2>3, <4>3 DEF Told
      <4> QED BY <4>2, <4>3, <4>4 DEF Understood
    <3>6. CASE agc' = agc /\ step # 1 /\ Sent[step - 1].status = Sent[step].status
      <4>1. step \in 2 .. TableWords + 3
        BY <3>1, <3>2, <3>6
      <4>2. Len(hal.lut) = 1 /\ step = 2 /\ TableWords = 2
        BY <1>0, <3>6, <4>1, SameStatus
      <4>3. pc' = "agc" /\ step' = 3
        BY <3>1, <3>2, <4>2
      <4>4. agc' = Told(2)
        BY <3>3, <3>6, <4>2
      <4>5. Told(2)' = Told(2)
        BY <2>2, <2>3 DEF Told
      <4>6. EndLost'
        BY <2>2, <4>2, <4>3, <4>4, <4>5 DEF EndLost
      <4> QED BY <4>3, <4>6 DEF Understood
    <3> QED BY <3>1, <3>4, <3>5, <3>6
  <2>7. CASE lgw_send
    <3>1. pc = "started" /\ pc' = "started" /\ agc' = agc
      BY <2>7 DEF lgw_send, hardware
    <3>2. AsTheScriptSays
      BY <3>1 DEF Understood
    <3>3. AsTheScriptSays'
      BY <2>2, <2>3, <3>1, <3>2 DEF AsTheScriptSays
    <3> QED BY <3>1, <3>3 DEF Understood
  <2> QED BY <1>2, <2>1, <2>5, <2>6, <2>7, Where
<1> QED BY <1>1, <1>2

LEMMA CoherentStart == Init => CoherentInv
<1> SUFFICES ASSUME Init PROVE CoherentInv
  OBVIOUS
<1>1. pc = "config"
  BY DEF Init
<1>2. FilesRead
  <2>1. HalOk(HalOff) /\ HalOff.public = FALSE
    BY HalOffOk
  <2> QED BY <2>1 DEF Init, FilesRead, HalOk
<1>3. RadiosSet /\ PeaksSet
  BY <1>1, Places DEF RadiosSet, PeaksSet
<1>4. Quiet
  BY DEF Init, FpgaReset, Quiet
<1>5. ScanSet
  BY <1>1, <1>4, Places DEF ScanSet
<1>6. Understood
  BY <1>1 DEF Understood
<1> QED BY <1>2, <1>3, <1>5, <1>6 DEF CoherentInv

LEMMA CoherentStep == TypeOK /\ CoherentInv /\ [Next]_vars => CoherentInv'
<1> SUFFICES ASSUME TypeOK, CoherentInv, [Next]_vars PROVE CoherentInv'
  OBVIOUS
<1>1. CASE Next
  BY <1>1, FilesReadStep, RadiosSetStep, ScanSetStep, PeaksSetStep, UnderstoodStep DEF CoherentInv
<1>2. CASE UNCHANGED vars
  <2>1. /\ UNCHANGED <<pc, hal, lgwm, lbt, board, attempts, fpga>>
        /\ UNCHANGED <<radio, chip, agc, step, faults, lost, wanted, asked>>
    BY <1>2 DEF vars, program, hardware, failures
  <2>2. FilesRead'
    BY <2>1 DEF CoherentInv, FilesRead
  <2>3. RadiosSet'
    BY <2>1 DEF CoherentInv, RadiosSet, RadioRuns, RadioSet, RadioTold
  <2>4. ScanSet'
    <3>1. Quiet' = Quiet /\ SlotsSet' = SlotsSet
      BY <2>1 DEF Quiet, SlotsSet
    <3>2. ReadyToScan' = ReadyToScan
      BY <2>1, <3>1 DEF ReadyToScan
    <3> QED BY <2>1, <3>1, <3>2 DEF CoherentInv, ScanSet
  <2>5. PeaksSet'
    BY <2>1 DEF CoherentInv, PeaksSet, lgw_constant_adjust, ModemsRun
  <2>6. Understood'
    <3>1. Told(2)' = Told(2)
      BY <2>1 DEF Told, TableWords
    <3> QED BY <2>1, <3>1 DEF CoherentInv, Understood, EndLost, Told, TableWords, AsTheScriptSays, RadioSelect
  <2> QED BY <2>2, <2>3, <2>4, <2>5, <2>6 DEF CoherentInv
<1> QED BY <1>1, <1>2

LEMMA Started == TypeOK /\ CoherentInv => Coherent
<1> SUFFICES ASSUME TypeOK, CoherentInv, pc = "started"
             PROVE  /\ lgwm = wanted.lgwm
                    /\ "modems" \notin lost => AsTheFilesSay /\ ModemsRun
                    /\ AsTheScriptSays /\ RadiosRun
                    /\ "fpga" \notin lost => ScansAsConfigured
                    /\ lost \cap {"fpga", "clock"} = {} => InStep
  BY DEF Coherent
<1>1. /\ pc \in PeaksDone /\ pc \in ClockDone /\ pc \in ScanDone /\ pc \in LbtDone
      /\ pc \in Pll1Done /\ pc \in Pll0Done /\ pc \in ConnectDone
  BY Places
<1>2. lgwm = wanted.lgwm /\ (~wanted.hidden => hal.public = wanted.public)
  BY DEF CoherentInv, FilesRead
<1>3. ASSUME "modems" \notin lost PROVE AsTheFilesSay /\ ModemsRun
  <2>1. DOMAIN chip.peaks = {"multi", "std", "tx"}
    BY ChipFields DEF TypeOK, HardwareOK
  <2>2. (\A modem \in DOMAIN chip.peaks : chip.peaks[modem] = lgw_constant_adjust[modem]) /\ ModemsRun
    BY <1>1, <1>3 DEF CoherentInv, PeaksSet
  <2>3. \A modem \in DOMAIN chip.peaks : chip.peaks[modem] = IF hal.public THEN <<3, 4>> ELSE <<1, 2>>
    BY <2>1, <2>2 DEF lgw_constant_adjust
  <2> QED BY <1>2, <2>2, <2>3 DEF AsTheFilesSay
<1>4. AsTheScriptSays
  BY DEF CoherentInv, Understood
<1>5. RadiosRun
  BY <1>1, BringupAssumption DEF CoherentInv, RadiosSet, RadiosRun
<1>6. "fpga" \notin lost => ScansAsConfigured
  BY <1>1 DEF CoherentInv, ScanSet, ScansAsConfigured
<1>7. lost \cap {"fpga", "clock"} = {} => InStep
  BY <1>1 DEF CoherentInv, ScanSet, InStep
<1> QED BY <1>2, <1>3, <1>4, <1>5, <1>6, <1>7

(* Whatever the files say, however often the program tries, stops and      *)
(* configures again, and whatever fails, noticed or not: a concentrator    *)
(* that lgw_start (loragw_hal.c 1087) reports as started has the gain table*)
(* of the present configuration, and the network, the channels, the radios *)
(* and the scan of it wherever this attempt lost no transfer of theirs.    *)
THEOREM CoherentCorrect == Spec => []Coherent
<1>1. Init => TypeOK /\ CoherentInv
  BY TypeStart, CoherentStart
<1>2. TypeOK /\ CoherentInv /\ [Next]_vars => (TypeOK /\ CoherentInv)'
  BY TypeStep, CoherentStep
<1>3. TypeOK /\ CoherentInv => Coherent
  BY Started
<1> QED BY <1>1, <1>2, <1>3, PTL DEF Spec

-----------------------------------------------------------------------------
(* Listen before talk. *)

(* A time t is x after q turns of the counter, but for the r that a unit of*)
(* x is too coarse to tell.                                                *)
Rounded(t, x, unit, q, m, r) ==
  /\ t = 8388608 * q + x + r /\ 0 <= r /\ r < unit
  /\ x = unit * m /\ 0 <= m /\ x + unit <= 8388608

(* The same of a stamp, whose turns are longer.                            *)
Counted(t, x, q, m, r) ==
  /\ t = 16777216 * q + x + r /\ 0 <= r /\ r < 256
  /\ x = 256 * m /\ 0 <= m /\ x + 256 <= 16777216

LEMMA Stamped ==
  ASSUME NEW t \in Int
  PROVE  /\ t \div LbtTurn \in Int
         /\ \E m \in Int, r \in Int : Counted(t, Stamp(t), t \div LbtTurn, m, r)
<1>1. PICK u \in Int, r \in Int : u = t \div 256 /\ r = t % 256
  OBVIOUS
<1>2. t = 256 * u + r /\ 0 <= r /\ r < 256
  BY <1>1
<1>3. PICK q \in Int, m \in Int : q = u \div 65536 /\ m = u % 65536
  OBVIOUS
<1>4. u = 65536 * q + m /\ 0 <= m /\ m < 65536
  BY <1>3
<1>5. Stamp(t) = m * 256
  BY <1>1, <1>3 DEF Stamp
<1>6. t = 16777216 * q + 256 * m + r
  BY <1>2, <1>4
<1>7. 0 <= 256 * m + r /\ 256 * m + r < 16777216
  BY <1>2, <1>4
<1>8. t \div 16777216 = q
  BY <1>6, <1>7
<1>9. t \div LbtTurn = q
  BY <1>8 DEF LbtTurn, Turn
<1>10. Counted(t, Stamp(t), q, m, r)
  <2>1. PICK x \in Int : x = Stamp(t)
    BY <1>5
  <2>2. x = 256 * m
    BY <1>5, <2>1
  <2>3. t = 16777216 * q + x + r /\ x + 256 <= 16777216
    BY <1>4, <1>6, <2>2
  <2> QED BY <1>2, <1>4, <2>1, <2>2, <2>3 DEF Counted
<1> QED BY <1>9, <1>10

LEMMA MaskedIs ==
  ASSUME NEW t \in Int
  PROVE  \E q \in Int, m \in Int, r \in Int : Rounded(t, Masked(t), 4096, q, m, r)
<1>1. PICK q \in Int, p \in Int : q = t \div 8388608 /\ p = t % 8388608
  OBVIOUS
<1>2. t = 8388608 * q + p /\ 0 <= p /\ p < 8388608
  BY <1>1
<1>3. PICK u \in Int, r \in Int : u = t \div 4096 /\ r = t % 4096
  OBVIOUS
<1>4. t = 4096 * u + r /\ 0 <= r /\ r < 4096
  BY <1>3
<1>5. Masked(t) = p - r
  BY <1>1, <1>3 DEF Masked, Turn, Step
<1>6. PICK m \in Int : m = u - 2048 * q
  OBVIOUS
<1>7. p - r = 4096 * m
  BY <1>2, <1>4, <1>6
<1>8. 0 <= m /\ m < 2048
  BY <1>2, <1>4, <1>7
<1>9. t = 8388608 * q + Masked(t) + r /\ Masked(t) = 4096 * m
  BY <1>2, <1>5, <1>7
<1>10. Masked(t) + 4096 <= 8388608
  BY <1>8, <1>9
<1>11. Rounded(t, Masked(t), 4096, q, m, r)
  BY <1>4, <1>8, <1>9, <1>10 DEF Rounded
<1> QED BY <1>11

(* When a packet ends, and what TxEnd says of it: its roundings lose two   *)
(* units of the counter and a millisecond.                                 *)
Ends(e, x, c, m, late) ==
  /\ e = 8388608 * c + x + late /\ 0 <= late /\ late <= 9189
  /\ x = 4096 * m /\ 0 <= m /\ x + 4096 <= 8388608

LEMMA Ending ==
  ASSUME NEW pkt, AirTime(pkt) \in Nat, NEW start \in Int
  PROVE  \E c \in Int, m \in Int, late \in Int : Ends(start + AirTime(pkt), TxEnd(pkt, start), c, m, late)
<1>1. PICK a \in Int : a = AirTime(pkt)
  OBVIOUS
<1>2. PICK ms \in Int, rest \in Int : ms = a \div 1000 /\ rest = a % 1000
  OBVIOUS
<1>3. a = 1000 * ms + rest /\ 0 <= rest /\ rest < 1000
  BY <1>2
<1>4. PICK q1 \in Int, m1 \in Int, r1 \in Int : Rounded(start, Masked(start), 4096, q1, m1, r1)
  BY MaskedIs
<1>5. start = 8388608 * q1 + Masked(start) + r1 /\ 0 <= r1 /\ r1 < 4096 /\ Masked(start) = 4096 * m1
  BY <1>4 DEF Rounded
<1>6. PICK t \in Int : t = Masked(start) + ms * 1000
  BY <1>5
<1>7. PICK q2 \in Int, m2 \in Int, r2 \in Int : Rounded(t, Masked(t), 4096, q2, m2, r2)
  BY MaskedIs
<1>8. /\ t = 8388608 * q2 + Masked(t) + r2 /\ 0 <= r2 /\ r2 < 4096
      /\ Masked(t) = 4096 * m2 /\ 0 <= m2 /\ Masked(t) + 4096 <= 8388608
  BY <1>7 DEF Rounded
<1>9. TxEnd(pkt, start) = Masked(t)
  BY <1>1, <1>2, <1>6 DEF TxEnd, lgw_time_on_air
<1>10. PICK c \in Int, late \in Int : c = q1 + q2 /\ late = r1 + r2 + rest
  OBVIOUS
<1>11. 0 <= late /\ late <= 9189
  BY <1>3, <1>5, <1>8, <1>10
<1>12. start + a = 8388608 * c + Masked(t) + late
  <2>1. PICK x1 \in Int : x1 = Masked(start)
    BY <1>5
  <2>2. PICK x2 \in Int : x2 = Masked(t)
    BY <1>8
  <2>3. start = 8388608 * q1 + x1 + r1 /\ x1 + ms * 1000 = 8388608 * q2 + x2 + r2
    BY <1>5, <1>6, <1>8, <2>1, <2>2
  <2>4. start + a = 8388608 * (q1 + q2) + x2 + (r1 + r2 + rest)
    BY <1>3, <2>3
  <2> QED BY <1>10, <2>2, <2>4
<1>13. Ends(start + a, Masked(t), c, m2, late)
  BY <1>8, <1>11, <1>12 DEF Ends
<1> QED BY <1>1, <1>9, <1>13

(* What the roundings can hide: a packet that ends as Within says, counted *)
(* from the channel that was free first, ends in time for all of them.     *)
LEMMA Late ==
  ASSUME NEW limit \in Int, NEW e \in Int, NEW c \in Int, NEW mt \in Int, NEW late \in Int, NEW tx_end \in Int,
         NEW ff \in Int, NEW d \in Int, NEW ml \in Int, NEW rf \in Int, NEW lbt_time \in Int, NEW fi \in Int,
         Ends(e, tx_end, c, mt, late), Counted(ff, lbt_time, d, ml, rf),
         e - ff < Turn, fi >= LbtTurn * d + lbt_time,
         Within(Delta(lbt_time, tx_end), limit)
  PROVE  e - fi < limit + Slack
<1>1. e = 8388608 * c + tx_end + late /\ 0 <= late /\ late <= 9189 /\ tx_end = 4096 * mt /\ 0 <= mt /\ tx_end + 4096 <= 8388608
  BY DEF Ends
<1>2. ff = 16777216 * d + lbt_time + rf /\ 0 <= rf /\ rf < 256 /\ lbt_time = 256 * ml /\ 0 <= ml /\ lbt_time + 256 <= 16777216
  BY DEF Counted
<1>3. e - ff < 8388608 /\ fi >= 16777216 * d + lbt_time
  BY DEF Turn, LbtTurn
<1>4. PICK k \in Int : k = c - 2 * d
  OBVIOUS
<1>5. 8388608 * k + tx_end - lbt_time + late - rf < 8388608
  BY <1>1, <1>2, <1>3, <1>4
<1>6. e - fi <= 8388608 * k + tx_end - lbt_time + late
  BY <1>1, <1>3, <1>4
<1>7. limit + Slack = limit + 11240
  BY DEF Slack, Step
<1>8. CASE lbt_time < tx_end
  <2>1. k <= 0
    BY <1>1, <1>2, <1>5, <1>8
  <2>2. tx_end - lbt_time < limit - 2048
    BY <1>8 DEF Within, Delta
  <2> QED BY <1>1, <1>6, <1>7, <2>1, <2>2
<1>9. CASE ~(lbt_time < tx_end)
  <2>1. 0 <= (8388608 - 4096 - lbt_time) + tx_end /\ (8388608 - 4096 - lbt_time) + tx_end < limit - 2048
    BY <1>9 DEF Within, Delta, MASK, Turn, Step
  <2>2. k <= 1
    BY <1>1, <1>2, <1>5, <2>1
  <2> QED BY <1>1, <1>6, <1>7, <2>1, <2>2
<1> QED BY <1>8, <1>9

(* The channels of a packet: one, or two neighbours.                       *)
LEMMA DecodedIs ==
  ASSUME ConfigurationOK, NEW pkt, Decoded(lbt, pkt) # {}
  PROVE  \E i \in Slots : Decoded(lbt, pkt) = {i} \/ (Decoded(lbt, pkt) = {i, i + 1} /\ i + 1 \in Slots)
<1> DEFINE fit == {i \in Slots : Fits(lbt, pkt, i)}
<1>1. fit # {} /\ fit \subseteq Slots /\ Slots \subseteq Nat
  BY BringupAssumption DEF Decoded, Slots
<1>2. \E i \in fit : \A j \in fit : i <= j
  <2> HIDE DEF fit
  <2>1. fit \subseteq Nat
    BY <1>1
  <2> QED BY <1>1, <2>1, Smallest
<1>3. PICK i : i = CHOOSE j \in fit : \A k \in fit : j <= k
  OBVIOUS
<1>4. i \in fit
  BY <1>2, <1>3
<1>5. Decoded(lbt, pkt) = IF pkt.bw = 125 THEN {i} ELSE {i, i + 1}
  BY <1>1, <1>3 DEF Decoded
<1>6. i \in Slots /\ Fits(lbt, pkt, i)
  BY <1>4
<1>7. CASE pkt.bw = 125
  BY <1>5, <1>6, <1>7
<1>8. CASE pkt.bw # 125
  <2>1. i < Len(lbt.channels)
    BY <1>6, <1>8 DEF Fits
  <2>2. i + 1 \in Slots
    BY <1>6, <2>1, BringupAssumption DEF Slots, ConfigurationOK
  <2> QED BY <1>5, <1>6, <1>8, <2>2
<1> QED BY <1>7, <1>8

(* The time lbt_is_channel_free counts from is what it was told of one of  *)
(* the channels, and not after what it was told of any.                    *)
LEMMA FirstFree ==
  ASSUME NEW i \in Slots, NEW channels, channels = {i} \/ channels = {i, i + 1},
         NEW shown, \A j \in channels : shown[j] \in Int
  PROVE  /\ First(channels) = i
         /\ \E f \in channels : /\ LbtTime(channels, shown) = shown[f]
                                /\ \A j \in channels : shown[f] <= shown[j]
<1>1. i \in Nat
  BY BringupAssumption DEF Slots
<1>2. First(channels) = i
  <2>1. i \in channels /\ \A j \in channels : i <= j
    BY <1>1
  <2>2. \A x \in channels : (\A j \in channels : x <= j) => x = i
    BY <1>1
  <2> QED BY <2>1, <2>2 DEF First
<1>3. CASE channels = {i}
  <2>1. First(channels) + 1 \notin channels
    BY <1>1, <1>2, <1>3
  <2>2. LbtTime(channels, shown) = shown[i]
    BY <1>2, <2>1 DEF LbtTime
  <2> QED BY <1>2, <1>3, <2>2
<1>4. CASE channels = {i, i + 1}
  <2>1. LbtTime(channels, shown) = Least(shown[i], shown[i + 1])
    BY <1>2, <1>4 DEF LbtTime
  <2>2. PICK a \in Int, b \in Int : a = shown[i] /\ b = shown[i + 1]
    BY <1>4
  <2>3. LbtTime(channels, shown) = IF a < b THEN a ELSE b
    BY <2>1, <2>2 DEF Least
  <2>4. CASE a < b
    BY <1>2, <1>4, <2>2, <2>3, <2>4
  <2>5. CASE ~(a < b)
    BY <1>2, <1>4, <2>2, <2>3, <2>5
  <2> QED BY <2>4, <2>5
<1> QED BY <1>3, <1>4

LEMMA NoneOverdue ==
  ASSUME ConfigurationOK, NEW pkt \in Packets, NEW start \in Int, NEW free \in [Slots -> Nat], NEW shown, lbt.enable,
         Verdict(lbt, pkt, start, shown) = "allowed", Heard(pkt, free, shown), Comparable(pkt, start, free)
  PROVE  ~Overdue(pkt, start, free)
<1> DEFINE channels == Decoded(lbt, pkt)
           lbt_time == LbtTime(channels, shown)
           tx_end == TxEnd(pkt, start)
           limit(i) == TxMaxTime(lbt.channels[i].scan_time_us, pkt.bw)
<1>1. /\ channels # {} /\ lbt_time # 0
      /\ Within(Delta(lbt_time, tx_end), limit(First(channels)))
  BY DEF Verdict
<1>2. PICK i \in Slots : channels = {i} \/ (channels = {i, i + 1} /\ i + 1 \in Slots)
  BY <1>1, DecodedIs
<1>3. channels \subseteq Slots
  BY <1>2
<1>4. /\ \A j \in channels : start + AirTime(pkt) - free[j] < Turn
      /\ \A j, k \in channels : free[j] \div LbtTurn = free[k] \div LbtTurn
      /\ \A j, k \in channels : lbt.channels[j].scan_time_us = lbt.channels[k].scan_time_us
      /\ \A j \in channels : shown[j] \in {0, Stamp(free[j])}
  BY DEF Comparable, Heard
<1>5. \A j \in channels : limit(j) \in Int
  BY DEF TxMaxTime
<1> HIDE DEF channels, lbt_time, tx_end, limit
<1>6. \A j \in channels :
        /\ free[j] \in Nat /\ free[j] \div LbtTurn \in Int
        /\ Stamp(free[j]) \in Int /\ Stamp(free[j]) >= 0 /\ shown[j] \in Int /\ shown[j] >= 0
  <2> TAKE j \in channels
  <2>1. free[j] \in Nat
    BY <1>3
  <2>2. PICK t \in Int : t = free[j]
    BY <2>1
  <2>3. PICK m \in Int, r \in Int : Counted(t, Stamp(t), t \div LbtTurn, m, r)
    BY Stamped
  <2>4. Stamp(t) \in Int /\ Stamp(t) >= 0
    BY <2>3 DEF Counted
  <2>5. t \div LbtTurn \in Int
    BY Stamped
  <2>6. shown[j] = 0 \/ shown[j] = Stamp(t)
    BY <1>4, <2>2
  <2>7. shown[j] \in Int /\ shown[j] >= 0
    BY <2>4, <2>6
  <2> QED BY <2>1, <2>2, <2>4, <2>5, <2>7
<1>7. First(channels) = i
  BY <1>2, <1>6, FirstFree
<1>8. PICK f \in channels : lbt_time = shown[f] /\ \A j \in channels : shown[f] <= shown[j]
  BY <1>2, <1>6, FirstFree DEF lbt_time
<1>9. \A j \in channels : shown[j] = Stamp(free[j])
  <2> TAKE j \in channels
  <2>1. shown[f] \in Int /\ shown[f] >= 0 /\ shown[f] # 0 /\ shown[j] \in Int /\ shown[f] <= shown[j]
    BY <1>1, <1>6, <1>8
  <2>2. shown[j] # 0
    BY <2>1
  <2> QED BY <1>4, <2>2
<1>10. PICK e \in Int : e = start + AirTime(pkt)
  BY LbtAssumption
<1>11. PICK c \in Int, mt \in Int, late \in Int : Ends(e, tx_end, c, mt, late)
  BY <1>10, LbtAssumption, Ending DEF tx_end
<1>12. tx_end \in Int
  <2>1. tx_end = 4096 * mt
    BY <1>11 DEF Ends
  <2> QED BY <2>1
<1>13. PICK d \in Int : d = free[f] \div LbtTurn
  BY <1>6
<1>14. PICK ml \in Int, rf \in Int : Counted(free[f], lbt_time, d, ml, rf)
  <2>1. PICK t \in Int : t = free[f]
    BY <1>6
  <2>2. \E m \in Int, r \in Int : Counted(t, Stamp(t), t \div LbtTurn, m, r)
    BY Stamped
  <2>3. lbt_time = Stamp(t) /\ d = t \div LbtTurn
    BY <1>8, <1>9, <1>13, <2>1
  <2> QED BY <2>1, <2>2, <2>3
<1>15. \A j \in channels : start + AirTime(pkt) - free[j] = e - free[j]
  <2> TAKE j \in channels
  <2>1. AirTime(pkt) \in Int /\ free[j] \in Int
    BY <1>6, LbtAssumption
  <2> QED BY <1>10, <2>1
<1>16. ASSUME NEW j \in channels PROVE e - free[j] < limit(j) + Slack
  <2>1. limit(j) = limit(i) /\ limit(j) \in Int
    BY <1>2, <1>4, <1>5 DEF limit
  <2>2. free[j] >= LbtTurn * d + lbt_time
    <3>1. PICK t \in Int : t = free[j]
      BY <1>6
    <3>2. t \div LbtTurn = d
      BY <1>4, <1>13, <3>1
    <3>3. PICK m \in Int, r \in Int : Counted(t, Stamp(t), t \div LbtTurn, m, r)
      BY Stamped
    <3>4. t = 16777216 * d + Stamp(t) + r /\ 0 <= r /\ Stamp(t) \in Int
      BY <3>2, <3>3 DEF Counted
    <3>5. lbt_time <= Stamp(t) /\ lbt_time \in Int
      BY <1>6, <1>8, <1>9, <3>1
    <3>6. t >= 16777216 * d + lbt_time
      BY <3>4, <3>5
    <3> QED BY <3>1, <3>6 DEF LbtTurn, Turn
  <2>3. e - free[f] < Turn
    BY <1>4, <1>15
  <2>4. Within(Delta(lbt_time, tx_end), limit(j))
    BY <1>1, <1>7, <2>1
  <2>5. lbt_time \in Int
    BY <1>6, <1>8
  <2> QED BY <1>6, <1>11, <1>12, <1>14, <2>1, <2>2, <2>3, <2>4, <2>5, Late
<1>17. ASSUME NEW j \in channels PROVE ~(e - free[j] >= limit(j) + Slack)
  <2>1. limit(j) \in Int /\ free[j] \in Int /\ Slack \in Int
    BY <1>5, <1>6 DEF Slack, Step
  <2> QED BY <1>16, <2>1
<1>18. Overdue(pkt, start, free) => \E j \in channels : e - free[j] >= limit(j) + Slack
  <2>1. Overdue(pkt, start, free) = \E j \in channels : start + AirTime(pkt) - free[j] >= limit(j) + Slack
    BY DEF Overdue, channels, limit
  <2> QED BY <1>15, <2>1
<1> QED BY <1>17, <1>18

LEMMA StartType ==
  ASSUME fpga \in Fpgas, NEW pkt, NEW t \in Int
  PROVE  Start(pkt, t) \in Int
<1>1. \A offset \in Int : lgw_fpga_get_tx_notch_delay(offset) \in Int
  <2> TAKE offset \in Int
  <2>1. PICK half \in Int : half = (64 + offset) \div 2
    OBVIOUS
  <2> QED BY <2>1 DEF lgw_fpga_get_tx_notch_delay
<1>2. \A bw : \A notch \in Int : lgw_get_tx_start_delay(notch, bw) \in Int
  BY DEF lgw_get_tx_start_delay
<1>3. fpga.notch \in Int
  BY FpgaFields
<1>4. (IF tx_notch_support THEN lgw_fpga_get_tx_notch_delay(fpga.notch) ELSE 0) \in Int
  BY <1>1, <1>3
<1> QED BY <1>2, <1>4 DEF Start

LEMMA ClearAirStep == TypeOK /\ ClearAir /\ [Next]_vars => ClearAir'
<1> SUFFICES ASSUME TypeOK, ClearAir, [Next]_vars PROVE ClearAir'
  OBVIOUS
<1>1. CASE lgw_send
  <2>1. PICK pkt \in Packets, odd \in Frees, even \in Frees, wait \in Starts :
          LET free == [i \in Slots |-> IF i % 2 = 1 THEN odd ELSE even]
              time == odd + wait
              start == Start(pkt, time)
          IN \E read \in {time} \cup (IF pkt.tx_mode = "ON_GPS" THEN {0} ELSE {}),
                shown \in [Decoded(lbt, pkt) -> Shown(free)] :
               asked' = [verdict |-> Verdict(lbt, pkt, Start(pkt, read), shown),
                         known   |-> read = time /\ Heard(pkt, free, shown) /\ Comparable(pkt, start, free),
                         overdue |-> Overdue(pkt, start, free)]
    BY <1>1 DEF lgw_send
  <2> DEFINE free == [i \in Slots |-> IF i % 2 = 1 THEN odd ELSE even]
             time == odd + wait
             start == Start(pkt, time)
  <2>2. PICK read, shown :
          asked' = [verdict |-> Verdict(lbt, pkt, Start(pkt, read), shown),
                    known   |-> read = time /\ Heard(pkt, free, shown) /\ Comparable(pkt, start, free),
                    overdue |-> Overdue(pkt, start, free)]
    BY <2>1, Zenon
  <2>3. odd \in Nat /\ even \in Nat /\ wait \in Nat
    BY LbtAssumption
  <2>4. free \in [Slots -> Nat]
    BY <2>3
  <2>5. time \in Int /\ start \in Int
    BY <2>3, StartType DEF TypeOK, HardwareOK
  <2>6. lbt.enable /\ ConfigurationOK
    BY <1>1 DEF lgw_send, TypeOK
  <2> HIDE DEF free, time, start
  <2>7. /\ asked'.verdict = Verdict(lbt, pkt, Start(pkt, read), shown)
        /\ asked'.known = (read = time /\ Heard(pkt, free, shown) /\ Comparable(pkt, start, free))
        /\ asked'.overdue = Overdue(pkt, start, free)
    BY <2>2
  <2>8. ASSUME asked'.verdict = "allowed", asked'.known PROVE ~asked'.overdue
    <3>1. read = time /\ Heard(pkt, free, shown) /\ Comparable(pkt, start, free)
      BY <2>7, <2>8, Zenon
    <3>2. Verdict(lbt, pkt, start, shown) = "allowed"
      BY <2>7, <2>8, <3>1 DEF start
    <3>3. ~Overdue(pkt, start, free)
      BY <2>4, <2>5, <2>6, <3>1, <3>2, NoneOverdue
    <3> QED BY <2>7, <3>3, Zenon
  <2> QED BY <2>8, Zenon DEF ClearAir
<1>2. CASE lgw_stop
  BY <1>2 DEF lgw_stop, NotAsked, ClearAir
<1>3. CASE UNCHANGED asked
  BY <1>3 DEF ClearAir
<1>4. CASE UNCHANGED vars
  BY <1>3, <1>4 DEF vars
<1> QED BY <1>1, <1>2, <1>3, <1>4, AskedBy

(* Whatever the channels, the packet, and when each channel was last free, *)
(* in all 24 bits of a stamp: a packet that lbt_is_channel_free            *)
(* (loragw_lbt.c 218) lets pass does not end longer after that than        *)
(* TxMaxTime, but for what the counters round off.  Reads of a stamp may   *)
(* be lost; only a lost trigger count (248) or selection (306), which give *)
(* it another time and another channel's stamp, are excused.               *)
THEOREM ClearAirCorrect == Spec => []ClearAir
<1>1. Init => TypeOK /\ ClearAir
  BY TypeStart DEF Init, NotAsked, ClearAir
<1>2. TypeOK /\ ClearAir /\ [Next]_vars => (TypeOK /\ ClearAir)'
  BY TypeStep, ClearAirStep
<1> QED BY <1>1, <1>2, PTL DEF Spec
=============================================================================
