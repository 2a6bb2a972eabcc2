--------------------------- MODULE GpsSyncProofs ---------------------------
(* The time reference stays right once confirmed, is found again, and      *)
(* converts both ways: for any counter, any number of seconds and any      *)
(* backlog of sentences.                                                   *)
EXTENDS GpsSync, SequenceTheorems, TLAPS

-----------------------------------------------------------------------------
(* Integers: the counter is a remainder. *)

(* There are a quotient and a remainder, and no others.                    *)
LEMMA Division ==
  ASSUME NEW w \in Nat \ {0}, NEW x \in Int
  PROVE  \E q \in Int, r \in 0 .. w - 1 : q = x \div w /\ r = x % w /\ x = w * q + r
<1>1. PICK q : q = x \div w
  OBVIOUS
<1>2. PICK r : r = x % w
  OBVIOUS
<1>3. q \in Int
  BY <1>1
<1>4. r \in 0 .. w - 1
  BY <1>2
<1>5. x = w * q + r
  BY <1>1, <1>2
<1> QED BY <1>1, <1>2, <1>3, <1>4, <1>5

LEMMA DivisionUnique ==
  ASSUME NEW w \in Nat \ {0}, NEW q \in Int, NEW r \in 0 .. w - 1
  PROVE  (w * q + r) \div w = q /\ (w * q + r) % w = r
  OBVIOUS

LEMMA Remainder ==
  ASSUME NEW w \in Nat \ {0}, NEW x \in Int, NEW d \in 0 .. w - 1
  PROVE  (x + d) % w = IF (x % w) + d < w THEN (x % w) + d ELSE (x % w) + d - w
<1>1. PICK q \in Int, r \in 0 .. w - 1 : r = x % w /\ x = w * q + r
  BY Division
<1>2. CASE r + d < w
  <2>1. x + d = w * q + (r + d) /\ r + d \in 0 .. w - 1
    BY <1>1, <1>2
  <2>2. (w * q + (r + d)) % w = r + d
    BY <1>1, <2>1, DivisionUnique
  <2> QED BY <1>2, <1>1, <2>1, <2>2
<1>3. CASE ~(r + d < w)
  <2>1. x + d = w * (q + 1) + (r + d - w) /\ r + d - w \in 0 .. w - 1 /\ q + 1 \in Int
    BY <1>1, <1>3
  <2>2. (w * (q + 1) + (r + d - w)) % w = r + d - w
    BY <2>1, DivisionUnique
  <2> QED BY <1>3, <1>1, <2>1, <2>2
<1> QED BY <1>2, <1>3

-----------------------------------------------------------------------------
(* The counter. *)

LEMMA CounterType ==
  ASSUME NEW o \in Int, NEW t \in Int
  PROVE  (o + Ticks * t) % Wrap \in 0 .. Wrap - 1
<1>1. Wrap \in Nat \ {0} /\ Ticks \in Int
  BY GpsAssumption
<1>2. o + Ticks * t \in Int
  BY <1>1
<1> HIDE GpsAssumption
<1> QED BY <1>1, <1>2, Division

(* What has been added to a counter is what Sub finds, and only that.      *)
LEMMA SubOfSum ==
  ASSUME NEW x \in Int, NEW d \in 0 .. Wrap - 1
  PROVE  Sub((x + d) % Wrap, x % Wrap) = d
<1>1. Wrap \in Nat \ {0}
  BY GpsAssumption
<1>2. (x + d) % Wrap = IF (x % Wrap) + d < Wrap THEN (x % Wrap) + d ELSE (x % Wrap) + d - Wrap
  BY <1>1, Remainder
<1>3. PICK r \in 0 .. Wrap - 1 : r = x % Wrap
  BY <1>1, Division
<1> QED BY <1>1, <1>2, <1>3 DEF Sub

LEMMA SumOfSub ==
  ASSUME NEW x \in Int, NEW a \in 0 .. Wrap - 1, NEW d \in Int, Sub(a, x % Wrap) = d
  PROVE  d \in 0 .. Wrap - 1 /\ a = (x + d) % Wrap
<1>1. Wrap \in Nat \ {0}
  BY GpsAssumption
<1>2. PICK r \in 0 .. Wrap - 1 : r = x % Wrap
  BY <1>1, Division
<1>3. d \in 0 .. Wrap - 1 /\ a = IF r + d < Wrap THEN r + d ELSE r + d - Wrap
  BY <1>1, <1>2 DEF Sub
<1>4. (x + d) % Wrap = IF (x % Wrap) + d < Wrap THEN (x % Wrap) + d ELSE (x % Wrap) + d - Wrap
  BY <1>1, <1>3, Remainder
<1> QED BY <1>2, <1>3, <1>4

LEMMA AddOfSub ==
  ASSUME NEW a \in 0 .. Wrap - 1, NEW b \in 0 .. Wrap - 1
  PROVE  Sub(b, a) \in 0 .. Wrap - 1 /\ Add(a, Sub(b, a)) = b
BY GpsAssumption DEF Sub, Add

(* A pulse finds the counter of no other, nor of a date soon to come.      *)
LEMMA CounterDistinct ==
  ASSUME OneTurn, NEW o \in Int, NEW s \in Seconds, NEW t \in 0 .. MaxTime + Wrap \div Ticks,
         (o + Ticks * s) % Wrap = (o + Ticks * t) % Wrap
  PROVE  s = t
<1>1. Wrap \in Nat \ {0} /\ Ticks \in Nat /\ s \in Int /\ t \in Int
  BY GpsAssumption DEF Seconds
<1>2. o + Ticks * s \in Int /\ o + Ticks * t \in Int
  BY <1>1
<1>3. PICK q \in Int, r \in 0 .. Wrap - 1 :
        r = (o + Ticks * s) % Wrap /\ o + Ticks * s = Wrap * q + r
  BY <1>1, <1>2, Division
<1>4. PICK p \in Int, u \in 0 .. Wrap - 1 :
        u = (o + Ticks * t) % Wrap /\ o + Ticks * t = Wrap * p + u
  BY <1>1, <1>2, Division
<1>5. Ticks * (s - t) = Ticks * s - Ticks * t
  BY <1>1
<1>6. Wrap * q - Wrap * p = Wrap * (q - p)
  BY <1>1, <1>3, <1>4
<1>7. Ticks * s - Ticks * t = Wrap * q - Wrap * p
  <2>1. r = u
    BY <1>3, <1>4
  <2>2. Ticks * s \in Int /\ Ticks * t \in Int /\ Wrap * q \in Int /\ Wrap * p \in Int
    BY <1>1, <1>3, <1>4
  <2> QED BY <2>1, <2>2, <1>3, <1>4
<1>8. Ticks * (s - t) = Wrap * (q - p) + 0 /\ q - p \in Int /\ 0 \in 0 .. Wrap - 1
  BY <1>1, <1>3, <1>4, <1>5, <1>6, <1>7
<1>9. (Wrap * (q - p) + 0) % Wrap = 0
  BY <1>1, <1>8, DivisionUnique
<1> QED BY <1>8, <1>9 DEF OneTurn

LEMMA Smaller ==
  ASSUME NEW a \in Nat \ {0}, NEW p \in Int, NEW q \in Int, a * q < a * p
  PROVE  q < p
<1>1. SUFFICES ASSUME q >= p
               PROVE  FALSE
  OBVIOUS
<1>2. a * q = a * p + a * (q - p) /\ a * p \in Int
  OBVIOUS
<1>3. a * (q - p) >= 0
  BY <1>1
<1> QED BY <1>2, <1>3

(* What is left of a time in ticks is at most a turn of the counter.       *)
LEMMA WithinTurn ==
  ASSUME NEW k \in Int, Ticks * k <= Wrap
  PROVE  k <= Wrap \div Ticks
<1>1. Ticks \in Nat \ {0} /\ Wrap \in Int
  BY GpsAssumption
<1>2. PICK q \in Int, r \in 0 .. Ticks - 1 : q = Wrap \div Ticks /\ Wrap = Ticks * q + r
  BY <1>1, Division
<1>3. Ticks * (q + 1) = Ticks * q + Ticks /\ Ticks * q \in Int
  BY <1>1, <1>2
<1>4. Ticks * k < Ticks * (q + 1)
  BY <1>1, <1>2, <1>3
<1>5. k < q + 1
  BY <1>1, <1>2, <1>4, Smaller
<1> QED BY <1>2, <1>5

-----------------------------------------------------------------------------
(* The sentences on their way. *)

(* What SentencesInOrder says of two sentences and of one.                 *)
Before(a, b) == a.t <= b.t
Queued(q) == \A i, j \in DOMAIN q : i < j => Before(q[i], q[j])
Late(s, u, f, n) ==
  /\ f => u <= s.t
  /\ s.t <= n
  /\ s.how \in {"fix", "valid"} => s.says = s.t
AllLate(q, u, f, n) == \A i \in DOMAIN q : Late(q[i], u, f, n)
Samples == pending.exact => pending.utc <= pending.gps

LEMMA OrderParts ==
  SentencesInOrder <=> AllLate(line, gps_utc, fixed, now) /\ Queued(line) /\ Samples
BY DEF SentencesInOrder, AllLate, Late, Queued, Before, Samples

LEMMA SentenceFields ==
  ASSUME NEW s \in Sentences
  PROVE  s.t \in Seconds /\ s.says \in Int
BY DEF Sentences

LEMMA HeadAndTail ==
  ASSUME NEW q \in Seq(Sentences), q # <<>>
  PROVE  /\ Head(q) \in Sentences /\ Tail(q) \in Seq(Sentences)
         /\ 1 \in DOMAIN q /\ Head(q) = q[1]
         /\ \A k \in DOMAIN Tail(q) : k + 1 \in DOMAIN q /\ Tail(q)[k] = q[k + 1] /\ k \in Nat \ {0}
<1>1. Head(q) \in Sentences /\ Tail(q) \in Seq(Sentences) /\ Len(Tail(q)) = Len(q) - 1
  BY HeadTailProperties
<1>2. \A k \in 1 .. Len(Tail(q)) : Tail(q)[k] = q[k + 1]
  BY HeadTailProperties
<1>3. DOMAIN q = 1 .. Len(q) /\ Len(q) \in Nat \ {0} /\ DOMAIN Tail(q) = 1 .. Len(Tail(q))
  BY <1>1, LenProperties, EmptySeq
<1>4. Head(q) = q[1]
  OBVIOUS
<1> QED BY <1>1, <1>2, <1>3, <1>4

(* What stays behind the first sentence is in order, and after it.         *)
LEMMA TailQueued ==
  ASSUME NEW q \in Seq(Sentences), q # <<>>, Queued(q)
  PROVE  /\ Queued(Tail(q))
         /\ \A k \in DOMAIN Tail(q) : Before(Head(q), Tail(q)[k])
<1>1. \A k \in DOMAIN Tail(q) : k + 1 \in DOMAIN q /\ Tail(q)[k] = q[k + 1] /\ k \in Nat \ {0}
  BY HeadAndTail
<1>2. ASSUME NEW i \in DOMAIN Tail(q), NEW j \in DOMAIN Tail(q), i < j
      PROVE  Before(Tail(q)[i], Tail(q)[j])
  <2>1. i + 1 < j + 1
    BY <1>1, <1>2
  <2> QED BY <1>1, <2>1 DEF Queued
<1>3. ASSUME NEW k \in DOMAIN Tail(q)
      PROVE  Before(Head(q), Tail(q)[k])
  <2>1. 1 \in DOMAIN q /\ Head(q) = q[1] /\ 1 < k + 1
    BY <1>1, HeadAndTail
  <2> QED BY <1>1, <2>1 DEF Queued
<1>4. Queued(Tail(q))
  BY <1>2 DEF Queued
<1> QED BY <1>3, <1>4

(* A sentence of a concatenation is one of the first or of the second.     *)
LEMMA ConcatElements ==
  ASSUME NEW q \in Seq(Sentences), NEW e \in Seq(Sentences)
  PROVE  /\ q \o e \in Seq(Sentences)
         /\ \A k \in DOMAIN (q \o e) :
              \/ k \in DOMAIN q /\ (q \o e)[k] = q[k]
              \/ /\ k \notin DOMAIN q /\ k - Len(q) \in DOMAIN e
                 /\ (q \o e)[k] = e[k - Len(q)]
         /\ DOMAIN (q \o e) \subseteq Nat /\ Len(q) \in Nat
         /\ DOMAIN q = 1 .. Len(q) /\ DOMAIN (q \o e) = 1 .. Len(q) + Len(e)
<1>1. q \o e \in Seq(Sentences) /\ Len(q \o e) = Len(q) + Len(e)
  BY ConcatProperties
<1>2. \A k \in 1 .. Len(q) + Len(e) : (q \o e)[k] = IF k <= Len(q) THEN q[k] ELSE e[k - Len(q)]
  BY ConcatProperties
<1>3. /\ DOMAIN q = 1 .. Len(q) /\ DOMAIN e = 1 .. Len(e) /\ DOMAIN (q \o e) = 1 .. Len(q \o e)
      /\ Len(q) \in Nat /\ Len(e) \in Nat
  BY <1>1, LenProperties
<1> QED BY <1>1, <1>2, <1>3

LEMMA ConcatQueued ==
  ASSUME NEW q \in Seq(Sentences), NEW e \in Seq(Sentences), Queued(q), Queued(e),
         \A i \in DOMAIN q, j \in DOMAIN e : Before(q[i], e[j])
  PROVE  Queued(q \o e)
<1>1. SUFFICES ASSUME NEW i \in DOMAIN (q \o e), NEW j \in DOMAIN (q \o e), i < j
               PROVE  Before((q \o e)[i], (q \o e)[j])
  BY DEF Queued
<1>2. i \in 1 .. Len(q) + Len(e) /\ j \in 1 .. Len(q) + Len(e) /\ Len(q) \in Nat
      /\ DOMAIN q = 1 .. Len(q)
  BY ConcatElements
<1>3. CASE j \in DOMAIN q
  <2>1. i \in DOMAIN q
    BY <1>1, <1>2, <1>3
  <2> QED BY <1>1, <1>3, <2>1, ConcatElements DEF Queued
<1>4. CASE j \notin DOMAIN q /\ i \in DOMAIN q
  BY <1>4, ConcatElements
<1>5. CASE j \notin DOMAIN q /\ i \notin DOMAIN q
  <2>1. i - Len(q) < j - Len(q)
    BY <1>1, <1>2
  <2> QED BY <1>5, <2>1, ConcatElements DEF Queued
<1> QED BY <1>3, <1>4, <1>5

LEMMA ConcatLate ==
  ASSUME NEW q \in Seq(Sentences), NEW e \in Seq(Sentences), NEW u, NEW f, NEW n,
         AllLate(q, u, f, n), AllLate(e, u, f, n)
  PROVE  AllLate(q \o e, u, f, n)
BY ConcatElements DEF AllLate

LEMMA OneSentence ==
  ASSUME NEW s \in Sentences
  PROVE  <<s>> \in Seq(Sentences) /\ Len(<<s>>) = 1 /\ DOMAIN <<s>> = {1} /\ <<s>>[1] = s
OBVIOUS

(* No sentence, or one about second t, which it knows if it is exact.      *)
About(s, t) == s.t = t /\ (s.how \in {"fix", "valid"} => s.says = t)
AtMost(q, t) ==
  /\ q \in Seq(Sentences)
  /\ \A i \in DOMAIN q : i = 1 /\ About(q[i], t)

LEMMA AtMostOne ==
  ASSUME NEW q, NEW t, NEW S, S \subseteq Sentences,
         \A s \in S : About(s, t),
         q \in {<<>>} \cup {<<s>> : s \in S}
  PROVE  AtMost(q, t)
<1>1. CASE q = <<>>
  <2>1. q \in Seq(Sentences) /\ Len(q) = 0
    BY <1>1, EmptySeq
  <2>2. DOMAIN q = 1 .. 0
    BY <2>1, LenProperties
  <2> QED BY <2>1, <2>2 DEF AtMost
<1>2. CASE q # <<>>
  <2>1. PICK s \in S : q = <<s>>
    BY <1>2
  <2> QED BY <2>1, OneSentence DEF AtMost
<1> QED BY <1>1, <1>2

LEMMA AtMostConcat ==
  ASSUME NEW t \in Seconds, NEW a, NEW b, AtMost(a, t), AtMost(b, t)
  PROVE  /\ a \o b \in Seq(Sentences) /\ Queued(a \o b)
         /\ \A i \in DOMAIN (a \o b) : About((a \o b)[i], t)
<1>1. a \in Seq(Sentences) /\ b \in Seq(Sentences)
  BY DEF AtMost
<1>2. \A i \in DOMAIN (a \o b) : About((a \o b)[i], t)
  BY <1>1, ConcatElements DEF AtMost
<1>3. t \in Int
  BY GpsAssumption DEF Seconds
<1>4. Queued(a \o b)
  <2>1. a \o b \in Seq(Sentences)
    BY <1>1, ConcatElements
  <2>2. \A i, j \in DOMAIN (a \o b) : (a \o b)[i].t = t /\ (a \o b)[j].t = t
    BY <1>2 DEF About
  <2> QED BY <1>3, <2>2 DEF Queued, Before
<1> QED BY <1>1, <1>2, <1>4, ConcatElements

(* One sentence of a kind: the kind is none of those that are exact by     *)
(* chance.                                                                 *)
LEMMA SentenceAbout ==
  ASSUME NEW t \in Seconds, NEW kind \in {"RMC", "TIMEGPS"},
         NEW sure \in {"fix", "valid"}, NEW unsure,
         unsure \subseteq {"estimated", "dateless", "half"},
         NEW mute \in {"empty", "invalid"}, NEW q \in Sentence(kind, t, sure, unsure, mute)
  PROVE  AtMost(q, t)
<1> DEFINE A == {[kind |-> kind, t |-> t, says |-> t, how |-> h] : h \in {sure, mute}}
           B == {[kind |-> kind, t |-> t, says |-> t + e, how |-> h] : h \in unsure, e \in Errors}
<1>1. t \in Int /\ Errors \subseteq Int
  BY GpsAssumption DEF Seconds
<1>2. A \subseteq Sentences /\ \A s \in A : About(s, t)
  BY <1>1 DEF Sentences, About
<1>3. B \subseteq Sentences
  <2>1. SUFFICES ASSUME NEW h \in unsure, NEW e \in Errors
                 PROVE  [kind |-> kind, t |-> t, says |-> t + e, how |-> h] \in Sentences
    OBVIOUS
  <2>2. t + e \in Int
    BY <1>1
  <2>3. h \in {"fix", "estimated", "dateless", "empty", "valid", "half", "invalid"}
    OBVIOUS
  <2> QED BY <2>2, <2>3 DEF Sentences
<1>4. \A s \in B : About(s, t)
  <2>1. SUFFICES ASSUME NEW h \in unsure, NEW e \in Errors
                 PROVE  About([kind |-> kind, t |-> t, says |-> t + e, how |-> h], t)
    OBVIOUS
  <2>2. h \notin {"fix", "valid"}
    OBVIOUS
  <2> QED BY <2>2 DEF About
<1>5. q \in {<<>>} \cup {<<s>> : s \in A \cup B}
  BY DEF Sentence
<1> HIDE DEF A, B
<1> QED BY <1>2, <1>3, <1>4, <1>5, AtMostOne

LEMMA EmittedInOrder ==
  ASSUME NEW t \in Seconds, NEW e \in Emitted(t)
  PROVE  /\ e \in Seq(Sentences) /\ Queued(e)
         /\ \A i \in DOMAIN e : About(e[i], t)
<1> DEFINE Rs == Sentence("RMC", t, "fix", {"estimated", "dateless"}, "empty")
           Us == Sentence("TIMEGPS", t, "valid", {"half"}, "invalid")
<1>1. \E r \in Rs, u \in Us : e = r \o u \/ e = u \o r
  BY DEF Emitted
<1>2. \A r \in Rs : AtMost(r, t)
  BY SentenceAbout
<1>3. \A u \in Us : AtMost(u, t)
  BY SentenceAbout
<1> HIDE DEF Rs, Us
<1>5. PICK r \in Rs, u \in Us : e = r \o u \/ e = u \o r
  BY <1>1
<1>6. AtMost(r, t) /\ AtMost(u, t)
  BY <1>2, <1>3
<1>7. CASE e = r \o u
  BY <1>6, <1>7, AtMostConcat
<1>8. CASE e = u \o r
  BY <1>6, <1>8, AtMostConcat
<1> QED BY <1>5, <1>7, <1>8

-----------------------------------------------------------------------------
(* Types, and the order of the sentences.                                  *)

Ordered == TypeOK /\ SentencesInOrder

SampleType == [got : BOOLEAN, utc : Int, gps : Int, exact : BOOLEAN]
RefType == [set : BOOLEAN, count_us : 0 .. Wrap - 1, utc : Int, gps : Int, exact : BOOLEAN]

LEMMA Numbers ==
  /\ Wrap \in Nat \ {0} /\ Ticks \in Nat \ {0} /\ Ticks < Wrap
  /\ MaxTime \in Nat /\ Past \in Int /\ Past < 0 /\ Seconds \subseteq Nat
  /\ \A t \in Seconds : t \in Int /\ 0 <= t /\ Past < t
BY GpsAssumption DEF Past, Seconds

LEMMA InitOrdered == Init => Ordered
<1> SUFFICES ASSUME Init PROVE Ordered
  OBVIOUS
<1>1. line \in Seq(Sentences) /\ DOMAIN line = {}
  <2>1. line \in Seq(Sentences) /\ Len(line) = 0
    BY EmptySeq DEF Init
  <2>2. DOMAIN line = 1 .. Len(line)
    BY <2>1, LenProperties
  <2> QED BY <2>1, <2>2
<1>2. TypeOK
  <2>1. now \in Seconds /\ offset \in 0 .. Wrap - 1 /\ 0 \in 0 .. Wrap - 1
    BY Numbers, GpsAssumption DEF Init, Seconds
  <2>2. gps_utc \in Int /\ wrongs \in 0 .. 3 /\ rights \in 0 .. 3
    BY Numbers DEF Init
  <2>3. pending \in SampleType /\ ~pending.exact
    BY Numbers DEF Init, None, SampleType
  <2>4. ref \in RefType /\ ~ref.exact
    BY <2>1, Numbers DEF Init, NoRef, RefType
  <2>5. /\ enabled \in BOOLEAN /\ gps_time_ok \in BOOLEAN /\ confirmed \in BOOLEAN
        /\ aber_min1 \in BOOLEAN /\ aber_min2 \in BOOLEAN
    BY Zenon DEF Init
  <2>6. fixed \in BOOLEAN /\ ~fixed
    BY DEF Init
  <2> QED BY <1>1, <2>1, <2>2, <2>3, <2>4, <2>5, <2>6, Zenon DEF TypeOK, SampleType, RefType
<1>3. SentencesInOrder
  <2>1. pending.exact = FALSE
    BY DEF Init, None
  <2> QED BY <1>1, <2>1 DEF SentencesInOrder
<1> QED BY <1>2, <1>3 DEF Ordered

LEMMA EmptyInOrder ==
  ASSUME NEW q, q = <<>>
  PROVE  q \in Seq(Sentences) /\ Queued(q)
         /\ \A u, f, n : AllLate(q, u, f, n)
<1>1. q \in Seq(Sentences) /\ Len(q) = 0
  BY EmptySeq
<1>2. DOMAIN q = 1 .. 0
  BY <1>1, LenProperties
<1> QED BY <1>1, <1>2 DEF Queued, AllLate

(* A pulse: what it sends is of a later second than all there is.          *)
LEMMA PulseOrdered == Ordered /\ Pulse => Ordered'
<1> SUFFICES ASSUME Ordered, Pulse PROVE Ordered'
  OBVIOUS
<1> USE DEF Ordered
<1>1. PICK e \in Emitted(now + 1) : line' = IF enabled THEN line \o e ELSE line
  BY DEF Pulse
<1>2. /\ now \in Seconds /\ now + 1 \in Seconds /\ now' = now + 1 /\ now' \in Seconds
      /\ line \in Seq(Sentences) /\ now \in Int
  BY Numbers DEF Pulse, TypeOK, Seconds
<1>3. UNCHANGED <<offset, enabled, gps_time_ok, gps_utc, fixed, pending>> /\ UNCHANGED filter
  BY DEF Pulse, parser
<1>4. /\ e \in Seq(Sentences) /\ Queued(e) /\ \A i \in DOMAIN e : About(e[i], now + 1)
  BY <1>1, <1>2, EmittedInOrder
<1>5. AllLate(line, gps_utc, fixed, now) /\ Queued(line) /\ Samples
  BY OrderParts
<1>6. gps_utc \in Int /\ (fixed => gps_utc <= now)
  BY DEF TypeOK
<1>8. AllLate(e, gps_utc, fixed, now + 1)
  <2>1. \A i \in DOMAIN e : Late(e[i], gps_utc, fixed, now + 1)
    BY <1>2, <1>4, <1>6 DEF Late, About
  <2> QED BY <2>1 DEF AllLate
<1>9. AllLate(line, gps_utc, fixed, now + 1)
  <2>1. ASSUME NEW i \in DOMAIN line
        PROVE  Late(line[i], gps_utc, fixed, now + 1)
    <3>1. line[i] \in Sentences /\ Late(line[i], gps_utc, fixed, now)
      BY <1>2, <1>5, <2>1, LenProperties, ElementOfSeq DEF AllLate
    <3>2. line[i].t \in Int /\ line[i].t <= now /\ now \in Int
      BY <1>2, <3>1, SentenceFields, Numbers DEF Late
    <3>3. line[i].t <= now + 1
      BY <3>2
    <3> QED BY <3>1, <3>3 DEF Late
  <2> QED BY <2>1 DEF AllLate
<1>10. \A i \in DOMAIN line, j \in DOMAIN e : Before(line[i], e[j])
  <2>1. SUFFICES ASSUME NEW i \in DOMAIN line, NEW j \in DOMAIN e
                 PROVE  Before(line[i], e[j])
    OBVIOUS
  <2>2. line[i] \in Sentences /\ Late(line[i], gps_utc, fixed, now)
    BY <1>2, <1>5, LenProperties, ElementOfSeq DEF AllLate
  <2>3. line[i].t \in Int /\ line[i].t <= now /\ now \in Int /\ e[j].t = now + 1
    BY <1>2, <1>4, <2>2, SentenceFields, Numbers DEF Late, About
  <2>4. line[i].t <= e[j].t
    BY <2>3
  <2> QED BY <2>4 DEF Before
<1>11. line \o e \in Seq(Sentences) /\ Queued(line \o e)
       /\ AllLate(line \o e, gps_utc, fixed, now + 1)
  BY <1>2, <1>4, <1>5, <1>8, <1>9, <1>10, ConcatElements, ConcatQueued, ConcatLate
<1>12. line' \in Seq(Sentences) /\ Queued(line') /\ AllLate(line', gps_utc, fixed, now + 1)
  BY <1>1, <1>2, <1>5, <1>9, <1>11
<1>13. TypeOK'
  <2>1. /\ fixed => gps_utc <= now + 1
        /\ pending.exact => pending.utc <= now + 1 /\ pending.gps <= now + 1
        /\ ref.exact => ref.utc <= now + 1 /\ ref.gps <= now + 1
    BY <1>2 DEF TypeOK
  <2> QED BY <1>2, <1>3, <1>12, <2>1 DEF TypeOK, filter
<1>14. SentencesInOrder'
  <2>1. Samples'
    BY <1>3, <1>5 DEF Samples, filter
  <2>2. Queued(line)' /\ AllLate(line, gps_utc, fixed, now)'
    BY <1>2, <1>3, <1>12 DEF filter, Queued, AllLate, Late, Before
  <2> QED BY <2>1, <2>2, OrderParts, PTL
<1> QED BY <1>13, <1>14

(* A restart moves the counter; no sentence comes or goes.                 *)
LEMMA RestartOrdered == Ordered /\ ConcentratorRestarts => Ordered'
<1> SUFFICES ASSUME Ordered, ConcentratorRestarts PROVE Ordered'
  OBVIOUS
<1> USE DEF Ordered
<1>1. PICK tick \in Moments : offset' = (tick - Ticks * now) % Wrap
  BY DEF ConcentratorRestarts
<1>2. UNCHANGED <<now, line, enabled, pending, ref, aber_min1, aber_min2>> /\ UNCHANGED parser
  BY DEF ConcentratorRestarts
<1>3. offset' \in 0 .. Wrap - 1
  <2>1. tick - Ticks * now \in Int
    BY <1>1, GpsAssumption, Numbers DEF TypeOK
  <2> QED BY <1>1, <2>1, Numbers, Division
<1>4. wrongs' \in 0 .. 3 /\ rights' \in 0 .. 3 /\ confirmed' = FALSE
  BY DEF ConcentratorRestarts
<1>5. TypeOK'
  BY <1>2, <1>3, <1>4 DEF TypeOK, parser
<1>6. SentencesInOrder'
  BY <1>2 DEF SentencesInOrder, parser
<1> QED BY <1>5, <1>6

(* Opening and closing the serial port leave no sentence behind.           *)
LEMMA PortOrdered == Ordered /\ (lgw_gps_enable \/ lgw_gps_disable) => Ordered'
<1> SUFFICES ASSUME Ordered, lgw_gps_enable \/ lgw_gps_disable PROVE Ordered'
  OBVIOUS
<1> USE DEF Ordered
<1>1. line' = <<>> /\ UNCHANGED <<now, offset, gps_utc, fixed, pending>> /\ UNCHANGED filter
  BY DEF lgw_gps_enable, lgw_gps_disable, parser
<1>2. enabled' \in BOOLEAN /\ gps_time_ok' \in BOOLEAN
  BY DEF lgw_gps_enable, lgw_gps_disable, parser, TypeOK
<1>3. line' \in Seq(Sentences) /\ Queued(line') /\ \A u, f, n : AllLate(line', u, f, n)
  BY <1>1, EmptyInOrder
<1>4. TypeOK'
  BY <1>1, <1>2, <1>3 DEF TypeOK, filter
<1>5. SentencesInOrder'
  <2>1. Samples'
    <3>1. Samples
      BY OrderParts
    <3> QED BY <1>1, <3>1 DEF Samples, filter
  <2>2. Queued(line)' /\ AllLate(line, gps_utc, fixed, now)'
    BY <1>3 DEF Queued, AllLate, Late, Before
  <2> QED BY <2>1, <2>2, OrderParts, PTL
<1> QED BY <1>4, <1>5

(* What a parser finds at the head of the line, and leaves behind it.      *)
LEMMA HeadOfLine ==
  ASSUME Ordered, line # <<>>
  PROVE  /\ Head(line) \in Sentences /\ Head(line).t \in Int /\ Head(line).says \in Int
         /\ Late(Head(line), gps_utc, fixed, now)
         /\ Tail(line) \in Seq(Sentences) /\ Queued(Tail(line))
         /\ AllLate(Tail(line), gps_utc, fixed, now)
         /\ AllLate(Tail(line), Head(line).t, TRUE, now)
         /\ \A u : AllLate(Tail(line), u, FALSE, now)
<1> USE DEF Ordered
<1>1. line \in Seq(Sentences) /\ now \in Seconds
  BY DEF TypeOK
<1>2. /\ Head(line) \in Sentences /\ Tail(line) \in Seq(Sentences)
      /\ 1 \in DOMAIN line /\ Head(line) = line[1]
      /\ \A k \in DOMAIN Tail(line) : k + 1 \in DOMAIN line /\ Tail(line)[k] = line[k + 1]
  BY <1>1, HeadAndTail
<1>3. AllLate(line, gps_utc, fixed, now) /\ Queued(line)
  BY OrderParts
<1>4. Late(Head(line), gps_utc, fixed, now)
  BY <1>2, <1>3 DEF AllLate
<1>5. Head(line).t \in Int /\ Head(line).says \in Int
  BY <1>2, SentenceFields, Numbers
<1>7. Queued(Tail(line)) /\ \A k \in DOMAIN Tail(line) : Before(Head(line), Tail(line)[k])
  BY <1>1, <1>3, TailQueued
<1>8. ASSUME NEW k \in DOMAIN Tail(line)
      PROVE  /\ Late(Tail(line)[k], gps_utc, fixed, now)
             /\ Late(Tail(line)[k], Head(line).t, TRUE, now)
             /\ \A u : Late(Tail(line)[k], u, FALSE, now)
  <2>1. Late(Tail(line)[k], gps_utc, fixed, now)
    BY <1>2, <1>3 DEF AllLate
  <2>2. Before(Head(line), Tail(line)[k])
    BY <1>7
  <2> QED BY <2>1, <2>2 DEF Late, Before
<1>9. /\ AllLate(Tail(line), gps_utc, fixed, now)
      /\ AllLate(Tail(line), Head(line).t, TRUE, now)
      /\ \A u : AllLate(Tail(line), u, FALSE, now)
  BY <1>8 DEF AllLate
<1> QED BY <1>2, <1>4, <1>5, <1>7, <1>9

LEMMA ParsedType ==
  ASSUME gps_utc \in Int, NEW s, s.says \in Int
  PROVE  Parsed(s) \in Int
<1>1. Day \in Nat \ {0}
  BY GpsAssumption
<1>2. PICK q \in Int, r \in 0 .. Day - 1 : r = gps_utc % Day
  BY <1>1, Division
<1>3. PICK p \in Int, w \in 0 .. Day - 1 : w = s.says % Day
  BY <1>1, Division
<1>4. TimeOfDayOnly(gps_utc, s.says) \in Int
  BY <1>1, <1>2, <1>3 DEF TimeOfDayOnly
<1> QED BY <1>4, Zenon DEF Parsed

(* An RMC sentence: only one with a fix makes the date one.                *)
LEMMA NmeaOrdered == Ordered /\ lgw_parse_nmea => Ordered'
<1> SUFFICES ASSUME Ordered, lgw_parse_nmea PROVE Ordered'
  OBVIOUS
<1> USE DEF Ordered
<1> DEFINE s == Head(line)
<1>1. line # <<>> /\ line' = Tail(line)
      /\ UNCHANGED <<now, offset, enabled, pending>> /\ UNCHANGED filter
  BY DEF lgw_parse_nmea, Arrived
<1>2. /\ gps_utc' = Parsed(s)
      /\ gps_time_ok' = (s.how = "fix")
      /\ fixed' = (s.how = "fix" \/ (s.how = "empty" /\ fixed))
  BY DEF lgw_parse_nmea
<1>3. gps_utc \in Int /\ gps_utc' \in Int /\ gps_time_ok' \in BOOLEAN /\ fixed' \in BOOLEAN
  <2>1. gps_utc \in Int
    BY DEF TypeOK
  <2>2. s.says \in Int
    BY <1>1, HeadOfLine
  <2>3. Parsed(s) \in Int
    BY <2>1, <2>2, ParsedType
  <2>4. gps_time_ok' \in BOOLEAN /\ fixed' \in BOOLEAN
    BY <1>2, Zenon
  <2> QED BY <1>2, <2>1, <2>3, <2>4
<1>4. /\ AllLate(Tail(line), gps_utc', fixed', now)
      /\ fixed' => gps_utc' <= now
  <2>1. /\ AllLate(Tail(line), gps_utc, fixed, now)
        /\ AllLate(Tail(line), s.t, TRUE, now)
        /\ \A u : AllLate(Tail(line), u, FALSE, now)
        /\ Late(s, gps_utc, fixed, now) /\ s.t \in Int
    BY <1>1, HeadOfLine
  <2>2. CASE s.how = "fix"
    <3>1. gps_utc' = s.t /\ fixed' = TRUE
      BY <1>2, <2>1, <2>2 DEF Parsed, Late
    <3> QED BY <2>1, <3>1 DEF Late
  <2>3. CASE s.how = "empty"
    <3>1. gps_utc' = gps_utc /\ fixed' = fixed
      <4>1. fixed \in BOOLEAN
        BY DEF TypeOK
      <4> QED BY <1>2, <2>3, <4>1 DEF Parsed
    <3> QED BY <2>1, <3>1 DEF TypeOK
  <2>4. CASE s.how \notin {"fix", "empty"}
    <3>1. fixed' = FALSE
      BY <1>2, <2>4
    <3> QED BY <2>1, <3>1
  <2> QED BY <2>2, <2>3, <2>4
<1>5. line' \in Seq(Sentences) /\ Queued(line')
  BY <1>1, HeadOfLine
<1>6. TypeOK'
  BY <1>1, <1>3, <1>4, <1>5 DEF TypeOK, filter
<1>7. SentencesInOrder'
  <2>1. Samples'
    <3>1. Samples
      BY OrderParts
    <3> QED BY <1>1, <3>1 DEF Samples, filter
  <2>2. Queued(line)' /\ AllLate(line, gps_utc, fixed, now)'
    BY <1>1, <1>4, <1>5 DEF Queued, AllLate, Late, Before, filter
  <2> QED BY <2>1, <2>2, OrderParts, PTL
<1> QED BY <1>6, <1>7

(* A TIMEGPS sentence: the date of a fix it is paired with is not newer    *)
(* than it.                                                                *)
LEMMA UbxOrdered == Ordered /\ lgw_parse_ubx => Ordered'
<1> SUFFICES ASSUME Ordered, lgw_parse_ubx PROVE Ordered'
  OBVIOUS
<1> USE DEF Ordered
<1> DEFINE s == Head(line)
           sample == [got |-> TRUE, utc |-> gps_utc, gps |-> s.says,
                      exact |-> fixed /\ s.how = "valid"]
<1>1. line # <<>> /\ line' = Tail(line)
      /\ UNCHANGED <<now, offset, enabled, gps_utc, fixed>> /\ UNCHANGED filter
  BY DEF lgw_parse_ubx, Arrived
<1>2. gps_time_ok' \in BOOLEAN /\ pending' \in {sample, None}
  <2>1. gps_time_ok' = (s.how # "invalid")
    BY DEF lgw_parse_ubx
  <2>2. pending' = IF gps_time_ok' THEN sample ELSE None
    BY DEF lgw_parse_ubx, TimeOfWeek
  <2>3. gps_time_ok' \in BOOLEAN
    BY <2>1, Zenon
  <2> HIDE DEF s, sample
  <2>4. pending' \in {sample, None}
    <3>1. CASE gps_time_ok'
      BY <2>2, <3>1, Zenon
    <3>2. CASE ~gps_time_ok'
      BY <2>2, <3>2, Zenon
    <3> QED BY <3>1, <3>2
  <2> QED BY <2>3, <2>4
<1>3. /\ Tail(line) \in Seq(Sentences) /\ Queued(Tail(line))
      /\ AllLate(Tail(line), gps_utc, fixed, now)
      /\ Late(s, gps_utc, fixed, now) /\ s.t \in Int /\ s.says \in Int
  BY <1>1, HeadOfLine
<1>4. gps_utc \in Int /\ fixed \in BOOLEAN /\ now \in Int
  BY Numbers DEF TypeOK
<1>5. /\ sample \in SampleType
      /\ sample.exact => sample.utc <= now /\ sample.gps <= now /\ sample.utc <= sample.gps
  <2>1. sample.exact => gps_utc <= s.t /\ s.t <= now /\ s.says = s.t
    BY <1>3 DEF Late
  <2>2. sample \in SampleType
    BY <1>3, <1>4 DEF SampleType
  <2> QED BY <1>3, <1>4, <2>1, <2>2
<1>6. None \in SampleType /\ ~None.exact
  BY Numbers DEF None, SampleType
<1> HIDE DEF sample
<1>7. /\ pending' \in SampleType
      /\ pending'.exact => /\ pending'.utc <= now /\ pending'.gps <= now
                           /\ pending'.utc <= pending'.gps
  BY <1>2, <1>5, <1>6
<1>8. TypeOK'
  BY <1>1, <1>2, <1>3, <1>7 DEF TypeOK, filter, SampleType
<1>9. SentencesInOrder'
  <2>1. Samples'
    BY <1>7 DEF Samples
  <2>2. Queued(line)' /\ AllLate(line, gps_utc, fixed, now)'
    BY <1>1, <1>3 DEF Queued, AllLate, Late, Before, filter
  <2> QED BY <2>1, <2>2, OrderParts, PTL
<1> QED BY <1>8, <1>9

Sample == [set |-> TRUE, count_us |-> Counter(now), utc |-> pending.utc,
           gps |-> pending.gps, exact |-> pending.exact]

LEMMA SyncOrdered == Ordered /\ lgw_gps_sync => Ordered'
<1> SUFFICES ASSUME Ordered, lgw_gps_sync PROVE Ordered'
  OBVIOUS
<1> USE DEF Ordered
<1>1. /\ pending' = None
      /\ UNCHANGED <<now, offset, line, enabled, gps_time_ok, gps_utc, fixed>>
  BY DEF lgw_gps_sync, world, parser
<1>2. ref' = ref \/ ref' = Sample
  BY DEF lgw_gps_sync, Sample
<1>3. /\ aber_min1' \in BOOLEAN /\ aber_min2' \in BOOLEAN
      /\ wrongs' \in 0 .. 3 /\ rights' \in 0 .. 3 /\ confirmed' \in BOOLEAN
  <2>1. /\ aber_min1' = Aberrant(ref, Counter(now), pending.utc) /\ aber_min2' = aber_min1
        /\ \/ confirmed' = FALSE
           \/ confirmed' = (confirmed \/ (OfOnePulse(Counter(now), pending)
                                          /\ ~Aberrant(ref, Counter(now), pending.utc)))
    BY DEF lgw_gps_sync, Min1
  <2>2. /\ wrongs' \in {0, 3, wrongs + 1} /\ (wrongs' = wrongs + 1 => wrongs < 3 \/ wrongs' \in {0, 3})
        /\ rights' \in {0, 3, rights + 1} /\ (rights' = rights + 1 => rights < 3 \/ rights' \in {0, 3})
    BY DEF lgw_gps_sync
  <2>3. wrongs' \in 0 .. 3 /\ rights' \in 0 .. 3
    <3>1. wrongs \in 0 .. 3 /\ rights \in 0 .. 3
      BY DEF TypeOK
    <3>2. wrongs' \in 0 .. 3
      BY <2>2, <3>1
    <3>3. rights' \in 0 .. 3
      BY <2>2, <3>1
    <3> QED BY <3>2, <3>3
  <2>4. aber_min1' \in BOOLEAN
    BY <2>1, Zenon DEF Aberrant
  <2>5. aber_min2' \in BOOLEAN /\ confirmed' \in BOOLEAN
    BY <2>1, Zenon DEF TypeOK
  <2> QED BY <2>3, <2>4, <2>5
<1>4. None \in SampleType /\ ~None.exact
  BY Numbers DEF None, SampleType
<1>5. /\ ref' \in RefType
      /\ ref'.exact => ref'.utc <= now /\ ref'.gps <= now
  <2>1. Counter(now) \in 0 .. Wrap - 1
    BY CounterType, Numbers DEF TypeOK, Counter
  <2>2. ref \in RefType /\ (ref.exact => ref.utc <= now /\ ref.gps <= now)
    BY DEF TypeOK, RefType
  <2>3. Sample \in RefType /\ (Sample.exact => Sample.utc <= now /\ Sample.gps <= now)
    BY <2>1 DEF Sample, TypeOK, RefType
  <2> QED BY <1>2, <2>2, <2>3
<1>6. TypeOK'
  BY <1>1, <1>3, <1>4, <1>5, Zenon DEF TypeOK, SampleType, RefType
<1>7. SentencesInOrder'
  <2>1. Queued(line) /\ AllLate(line, gps_utc, fixed, now)
    BY OrderParts
  <2>2. Samples'
    BY <1>1, <1>4 DEF Samples
  <2>3. Queued(line)' /\ AllLate(line, gps_utc, fixed, now)'
    BY <1>1, <2>1 DEF Queued, AllLate, Late, Before
  <2> QED BY <2>2, <2>3, OrderParts, PTL
<1> QED BY <1>6, <1>7

LEMMA OrderedStep == Ordered /\ [Next]_vars => Ordered'
<1> SUFFICES ASSUME Ordered, [Next]_vars PROVE Ordered'
  OBVIOUS
<1>1. CASE Next
  BY <1>1, PulseOrdered, RestartOrdered, PortOrdered, NmeaOrdered, UbxOrdered, SyncOrdered DEF Next
<1>2. CASE UNCHANGED vars
  BY <1>2 DEF vars, world, parser, filter, Ordered, TypeOK, SentencesInOrder
<1> QED BY <1>1, <1>2

LEMMA OrderedHolds == Spec => []Ordered
BY InitOrdered, OrderedStep, PTL DEF Spec

(* Everything parsed or kept has its type, and nothing exact is of a       *)
(* second to come.                                                         *)
THEOREM TypeCorrect == Spec => []TypeOK
<1>1. Ordered => TypeOK
  BY DEF Ordered
<1> QED BY <1>1, OrderedHolds, PTL

-----------------------------------------------------------------------------
(* Three good samples in a row.                                            *)

(* lgw_gps_sync in the terms of the two proofs below.                      *)
LEMMA SyncStep ==
  ASSUME lgw_gps_sync
  PROVE  /\ pending.got /\ UNCHANGED <<now, offset, line>>
         /\ ~Aberrant(ref, Counter(now), pending.utc) \/ (aber_min1 /\ aber_min2)
              => ref' = Sample
         /\ Aberrant(ref, Counter(now), pending.utc) /\ ~(aber_min1 /\ aber_min2)
              => ref' = ref
         /\ aber_min2' = aber_min1
         /\ aber_min1' = Aberrant(ref, Counter(now), pending.utc)
         /\ wrongs' = IF OfOnePulse(Counter(now), pending) /\ pending.utc # ref.utc THEN 0
                      ELSE IF wrongs < 3 THEN wrongs + 1 ELSE 3
         /\ rights' = IF ~OfOnePulse(Counter(now), pending) THEN 0
                      ELSE IF rights < 3 THEN rights + 1 ELSE 3
         /\ confirmed' => /\ wrongs' # 3 /\ ~GoneRound
                          /\ \/ confirmed
                             \/ /\ OfOnePulse(Counter(now), pending)
                                /\ ~Aberrant(ref, Counter(now), pending.utc)
<1>1. pending.got /\ UNCHANGED <<now, offset, line>> /\ aber_min2' = aber_min1
  BY DEF lgw_gps_sync, world
<1>2. /\ wrongs' = IF OfOnePulse(Counter(now), pending) /\ pending.utc # ref.utc THEN 0
                   ELSE IF wrongs < 3 THEN wrongs + 1 ELSE 3
      /\ rights' = IF ~OfOnePulse(Counter(now), pending) THEN 0
                   ELSE IF rights < 3 THEN rights + 1 ELSE 3
  BY DEF lgw_gps_sync
<1>3. aber_min1' = Aberrant(ref, Counter(now), pending.utc)
  BY DEF lgw_gps_sync, Min1
<1>4. /\ ~Aberrant(ref, Counter(now), pending.utc) \/ (aber_min1 /\ aber_min2)
           => ref' = Sample
      /\ Aberrant(ref, Counter(now), pending.utc) /\ ~(aber_min1 /\ aber_min2)
           => ref' = ref
  <2> DEFINE ab == Aberrant(ref, Counter(now), pending.utc)
  <2>1. ref' = IF ~ab \/ (ab /\ aber_min1 /\ aber_min2) THEN Sample ELSE ref
    BY DEF lgw_gps_sync, ResetDue, Sample
  <2> HIDE DEF ab
  <2>2. ~ab \/ (aber_min1 /\ aber_min2) => ref' = Sample
    BY <2>1, Zenon
  <2>3. ab /\ ~(aber_min1 /\ aber_min2) => ref' = ref
    BY <2>1, Zenon
  <2> QED BY <2>2, <2>3 DEF ab
<1>5. confirmed' = IF wrongs' = 3 \/ GoneRound THEN FALSE
                   ELSE confirmed \/ (OfOnePulse(Counter(now), pending)
                                      /\ ~Aberrant(ref, Counter(now), pending.utc))
  BY Zenon DEF lgw_gps_sync
<1>6. confirmed' => /\ wrongs' # 3 /\ ~GoneRound
                    /\ \/ confirmed
                       \/ /\ OfOnePulse(Counter(now), pending)
                          /\ ~Aberrant(ref, Counter(now), pending.utc)
  BY <1>5, Zenon
<1> QED BY <1>1, <1>2, <1>3, <1>4, <1>6, Zenon

LEMMA RightKept ==
  ASSUME UNCHANGED <<offset, ref>>, now \in Int, now' \in {now, now + 1}, ref.utc \in Int,
         Right(ref)
  PROVE  Right(ref)'
<1>1. ref'.utc <= now'
  BY DEF Right, OfOnePulse
<1> QED BY <1>1 DEF Right, OfOnePulse, Counter

LEMMA SampleRight ==
  ref' = Sample /\ UNCHANGED <<offset, now>> /\ OfOnePulse(Counter(now), pending) => Right(ref)'
BY DEF Sample, Right, OfOnePulse, Counter

(* Time only goes on.                                                      *)
LEMMA NowMoves ==
  ASSUME TypeOK, [Next]_vars
  PROVE  now \in Int /\ now' \in {now, now + 1} /\ ref.utc \in Int
<1>1. now \in Int /\ ref.utc \in Int
  BY Numbers DEF TypeOK
<1>2. now' \in {now, now + 1}
  BY DEF Next, vars, world, Pulse, ConcentratorRestarts, lgw_gps_enable, lgw_gps_disable,
         lgw_parse_nmea, lgw_parse_ubx, lgw_gps_sync
<1> QED BY <1>1, <1>2

LEMMA SyncRecover == TypeOK /\ RecoverInv /\ lgw_gps_sync => RecoverInv'
<1> SUFFICES ASSUME TypeOK, RecoverInv, lgw_gps_sync PROVE RecoverInv'
  OBVIOUS
<1> DEFINE ab == Aberrant(ref, Counter(now), pending.utc)
           right == OfOnePulse(Counter(now), pending)
<1>1. /\ UNCHANGED <<offset, now>> /\ aber_min2' = aber_min1 /\ aber_min1' = ab
      /\ ~ab \/ (aber_min1 /\ aber_min2) => ref' = Sample
      /\ ab /\ ~(aber_min1 /\ aber_min2) => ref' = ref
      /\ rights' = IF ~right THEN 0 ELSE IF rights < 3 THEN rights + 1 ELSE 3
  BY SyncStep
<1>2. /\ rights \in 0 .. 3
      /\ rights >= 1 => Right(ref) \/ aber_min1
      /\ rights >= 2 => Right(ref) \/ aber_min2
      /\ rights = 3 => Right(ref)
  BY DEF TypeOK, RecoverInv, Recovers
<1> HIDE DEF ab, right
<1>3. CASE ~right
  <2>1. rights' = 0
    BY <1>1, <1>3
  <2> QED BY <2>1 DEF RecoverInv, Recovers
<1>4. CASE right /\ (~ab \/ (aber_min1 /\ aber_min2))
  <2>1. ref' = Sample
    BY <1>1, <1>4
  <2>2. Right(ref)'
    BY <1>1, <1>4, <2>1, SampleRight DEF right
  <2> QED BY <2>2 DEF RecoverInv, Recovers
<1>5. CASE right /\ ab /\ ~(aber_min1 /\ aber_min2)
  <2>1. ref' = ref /\ aber_min1'
    BY <1>1, <1>5
  <2>2. Right(ref) => Right(ref)'
    <3>1. now \in Int /\ ref.utc \in Int
      BY Numbers DEF TypeOK
    <3> QED BY <1>1, <2>1, <3>1, RightKept
  <2>3. (rights' >= 2 => rights >= 1) /\ (rights' = 3 => rights >= 2 /\ rights >= 1)
    BY <1>1, <1>2, <1>5
  <2>4. rights' >= 2 => Right(ref)' \/ aber_min2'
    BY <1>1, <1>2, <2>2, <2>3
  <2>5. rights' = 3 => Right(ref)'
    BY <1>2, <1>5, <2>2, <2>3, Zenon
  <2> QED BY <2>1, <2>4, <2>5 DEF RecoverInv, Recovers
<1> QED BY <1>3, <1>4, <1>5, Zenon

LEMMA RecoverStep == TypeOK /\ RecoverInv /\ [Next]_vars => RecoverInv'
<1> SUFFICES ASSUME TypeOK, RecoverInv, [Next]_vars PROVE RecoverInv'
  OBVIOUS
<1>1. CASE lgw_gps_sync
  BY <1>1, SyncRecover
<1>2. CASE ConcentratorRestarts
  <2>1. rights' = 0
    BY <1>2 DEF ConcentratorRestarts
  <2> QED BY <2>1 DEF RecoverInv, Recovers
<1>3. CASE UNCHANGED <<offset, filter>>
  <2>1. UNCHANGED <<offset, ref, rights, aber_min1, aber_min2>>
    BY <1>3 DEF filter
  <2>2. Right(ref) => Right(ref)'
    BY <2>1, RightKept, NowMoves
  <2> QED BY <2>1, <2>2 DEF RecoverInv, Recovers
<1>4. lgw_gps_sync \/ ConcentratorRestarts \/ UNCHANGED <<offset, filter>>
  BY DEF Next, vars, world, Pulse, lgw_gps_enable, lgw_gps_disable, lgw_parse_nmea, lgw_parse_ubx
<1> QED BY <1>1, <1>2, <1>3, <1>4

LEMMA InitRecover == Init => RecoverInv
BY DEF Init, RecoverInv, Recovers

(* lgw_gps_sync: whatever the reference was, wrong or of a counter since   *)
(* reset, three good samples in a row have put it right.                   *)
THEOREM RecoverCorrect == Spec => []Recovers
<1>1. RecoverInv => Recovers
  BY DEF RecoverInv
<1> QED BY <1>1, InitRecover, RecoverStep, TypeCorrect, PTL DEF Spec

-----------------------------------------------------------------------------
(* A confirmed reference.                                                  *)

(* A good sample is of the last pulse.                                     *)
LEMMA GoodIsNow ==
  ASSUME OneTurn, Ordered, OfOnePulse(Counter(now), pending)
  PROVE  pending.utc = now
<1>1. now \in Seconds /\ offset \in Int /\ pending.utc \in Int
  BY Numbers DEF Ordered, TypeOK
<1>2. 0 <= pending.utc /\ pending.utc <= now
  BY DEF OfOnePulse
<1>3. pending.utc \in Seconds /\ now \in 0 .. MaxTime + Wrap \div Ticks
  <2>1. Wrap \div Ticks \in Nat
    <3>1. Ticks * 0 <= Wrap /\ 0 \in Int
      BY Numbers
    <3>2. 0 <= Wrap \div Ticks
      BY <3>1, WithinTurn
    <3>3. Ticks \in Nat \ {0} /\ Wrap \in Int
      BY Numbers
    <3>4. Wrap \div Ticks \in Int
      BY <3>3, Division
    <3> QED BY <3>2, <3>4
  <2> QED BY <1>1, <1>2, <2>1, Numbers DEF Seconds
<1>4. (offset + Ticks * pending.utc) % Wrap = (offset + Ticks * now) % Wrap
  BY DEF OfOnePulse, Counter
<1> QED BY <1>1, <1>3, <1>4, CounterDistinct

LEMMA RefFacts ==
  ASSUME Ordered, Right(ref)
  PROVE  /\ ref.utc \in Seconds /\ ref.utc <= now
         /\ ref.count_us = (offset + Ticks * ref.utc) % Wrap
         /\ now \in Seconds /\ offset \in Int
<1>1. ref.count_us = (offset + Ticks * ref.utc) % Wrap /\ 0 <= ref.utc /\ ref.utc <= now
  BY DEF Right, OfOnePulse, Counter
<1>2. ref.utc \in Int /\ now \in Seconds /\ offset \in Int
  BY Numbers DEF Ordered, TypeOK
<1>3. ref.utc \in Seconds
  BY <1>1, <1>2, Numbers DEF Seconds
<1> QED BY <1>1, <1>2, <1>3

(* A right reference accepts good samples only ...                         *)
LEMMA AcceptedIsGood ==
  ASSUME OneTurn, Ordered, Right(ref), ~Aberrant(ref, Counter(now), pending.utc)
  PROVE  OfOnePulse(Counter(now), pending)
<1> DEFINE x == offset + Ticks * ref.utc
           d == Ticks * (pending.utc - ref.utc)
<1>1. /\ ref.utc \in Seconds /\ now \in Seconds /\ offset \in Int
      /\ ref.count_us = x % Wrap
  BY RefFacts
<1>2. pending.utc \in Int /\ ref.utc \in Int /\ now \in Int
  BY <1>1, Numbers DEF Ordered, TypeOK
<1>3. x \in Int /\ d \in Int /\ x + d = offset + Ticks * pending.utc
  <2>1. Ticks \in Int
    BY Numbers
  <2>2. Ticks * (pending.utc - ref.utc) = Ticks * pending.utc - Ticks * ref.utc
    BY <1>2, <2>1
  <2>3. Ticks * pending.utc \in Int /\ Ticks * ref.utc \in Int
    BY <1>2, <2>1
  <2> QED BY <1>1, <2>2, <2>3
<1>4. Counter(now) \in 0 .. Wrap - 1
  BY <1>1, <1>2, CounterType DEF Counter
<1>5. Sub(Counter(now), x % Wrap) = d
  BY <1>1 DEF Aberrant
<1> HIDE DEF x, d
<1>6. d \in 0 .. Wrap - 1 /\ Counter(now) = (x + d) % Wrap
  BY <1>3, <1>4, <1>5, SumOfSub
<1>7. Counter(now) = Counter(pending.utc)
  BY <1>3, <1>6 DEF Counter
<1>8. ref.utc <= pending.utc /\ pending.utc - ref.utc <= Wrap \div Ticks
  <2>1. Ticks * (pending.utc - ref.utc) >= 0 /\ Ticks * (pending.utc - ref.utc) <= Wrap
    BY <1>6, Numbers DEF d
  <2>2. ref.utc <= pending.utc
    BY <1>2, <2>1, Numbers
  <2> QED BY <1>2, <2>1, <2>2, WithinTurn
<1>9. pending.utc \in 0 .. MaxTime + Wrap \div Ticks
  <2>1. Wrap \div Ticks \in Int
    <3>1. Ticks \in Nat \ {0} /\ Wrap \in Int
      BY Numbers
    <3> QED BY <3>1, Division
  <2>2. 0 <= ref.utc /\ ref.utc <= MaxTime
    BY <1>1 DEF Seconds
  <2> QED BY <1>2, <1>8, <2>1, <2>2, Numbers
<1>10. now = pending.utc
  BY <1>1, <1>7, <1>9, CounterDistinct DEF Counter
<1>11. pending.exact => pending.gps = pending.utc
  <2>1. pending.exact => pending.utc <= pending.gps /\ pending.gps <= now /\ pending.gps \in Int
    BY DEF Ordered, SentencesInOrder, TypeOK
  <2> QED BY <1>2, <1>10, <2>1
<1> QED BY <1>1, <1>7, <1>10, <1>11, Numbers DEF OfOnePulse

(* ... and, unless the counter has gone round, all of a new pulse.         *)
LEMMA GoodIsAccepted ==
  ASSUME OneTurn, Ordered, Right(ref), ~GoneRound,
         OfOnePulse(Counter(now), pending), pending.utc # ref.utc
  PROVE  ~Aberrant(ref, Counter(now), pending.utc)
<1> DEFINE x == offset + Ticks * ref.utc
           d == Ticks * (now - ref.utc)
<1>1. /\ ref.utc \in Seconds /\ ref.utc <= now
      /\ now \in Seconds /\ offset \in Int
      /\ ref.count_us = x % Wrap
  BY RefFacts
<1>2. pending.utc = now
  BY GoodIsNow
<1>4. ref.utc \in Int /\ now \in Int /\ Ticks \in Nat
  BY <1>1, Numbers
<1>3. ref.utc < now
  <2>1. ref.utc <= now /\ ref.utc # now
    BY <1>1, <1>2
  <2> QED BY <1>4, <2>1
<1>5. x \in Int /\ d \in Int /\ x + d = offset + Ticks * now
  <2>1. Ticks * (now - ref.utc) = Ticks * now - Ticks * ref.utc
    BY <1>4
  <2>2. Ticks * now \in Int /\ Ticks * ref.utc \in Int
    BY <1>4
  <2> QED BY <1>1, <2>1, <2>2
<1>6. d \in 0 .. Wrap - 1
  <2>1. d >= 0
    BY <1>3, <1>4
  <2>2. ~(d >= Wrap)
    BY DEF GoneRound
  <2> HIDE DEF d
  <2> QED BY <1>5, <2>1, <2>2, Numbers
<1> HIDE DEF x
<1>7. Sub(Counter(now), ref.count_us) = d
  <2>1. Counter(now) = (x + d) % Wrap
    BY <1>5 DEF Counter
  <2> HIDE DEF d
  <2> QED BY <1>1, <1>5, <1>6, <2>1, SubOfSum
<1> QED BY <1>2, <1>7 DEF Aberrant

LEMMA SyncTrust == OneTurn /\ TrustInv /\ lgw_gps_sync => Doubts'
<1> SUFFICES ASSUME OneTurn, TrustInv, lgw_gps_sync, confirmed' PROVE Doubts'
  BY DEF Doubts
<1> DEFINE ab == Aberrant(ref, Counter(now), pending.utc)
           right == OfOnePulse(Counter(now), pending)
           fresh == pending.utc # ref.utc
<1>1. /\ UNCHANGED <<offset, now>> /\ aber_min2' = aber_min1 /\ aber_min1' = ab
      /\ ~ab \/ (aber_min1 /\ aber_min2) => ref' = Sample
      /\ ab /\ ~(aber_min1 /\ aber_min2) => ref' = ref
      /\ wrongs' = IF right /\ fresh THEN 0 ELSE IF wrongs < 3 THEN wrongs + 1 ELSE 3
      /\ wrongs' # 3 /\ ~GoneRound
      /\ confirmed \/ (right /\ ~ab)
  BY SyncStep
<1>2. Ordered /\ wrongs \in 0 .. 3
  BY DEF TrustInv, Ordered, TypeOK
<1>3. confirmed => /\ Right(ref)
                   /\ aber_min1 => wrongs >= 1
                   /\ aber_min1 /\ aber_min2 => wrongs >= 2
  BY DEF TrustInv, Doubts
<1>4. confirmed => /\ ~ab => right
                   /\ right /\ fresh => ~ab
  BY <1>1, <1>2, <1>3, AcceptedIsGood, GoodIsAccepted
<1> HIDE DEF ab, right, fresh
<1>5. CASE ~ab
  <2>1. right /\ ref' = Sample
    BY <1>1, <1>4, <1>5, Zenon
  <2>2. Right(ref)'
    BY <1>1, <2>1, SampleRight DEF right
  <2>3. ~aber_min1'
    BY <1>1, <1>5, Zenon
  <2> QED BY <2>2, <2>3 DEF Doubts
<1>6. CASE ab
  <2>1. confirmed /\ ~(right /\ fresh)
    BY <1>1, <1>4, <1>6, Zenon
  <2>2. wrongs' = wrongs + 1 /\ wrongs < 2 /\ wrongs >= 0
    BY <1>1, <1>2, <2>1
  <2>3. ~(aber_min1 /\ aber_min2)
    <3>1. ~(wrongs >= 2)
      BY <1>2, <2>2
    <3> QED BY <1>3, <2>1, <3>1, Zenon
  <2>4. ref' = ref
    BY <1>1, <1>6, <2>3, Zenon
  <2>5. Right(ref)'
    <3>1. now \in Int /\ ref.utc \in Int
      BY <1>2, Numbers DEF Ordered, TypeOK
    <3> QED BY <1>1, <1>3, <2>1, <2>4, <3>1, RightKept
  <2>6. wrongs' >= 1
    BY <1>2, <2>2
  <2>7. aber_min2' => wrongs' >= 2
    <3>1. aber_min1 => wrongs >= 1
      BY <1>3, <2>1
    <3>2. aber_min1 => wrongs' >= 2
      BY <1>2, <2>2, <3>1
    <3> QED BY <1>1, <3>2, Zenon
  <2> QED BY <2>5, <2>6, <2>7 DEF Doubts
<1> QED BY <1>5, <1>6

LEMMA TrustStep == OneTurn /\ TrustInv /\ [Next]_vars => TrustInv'
<1> SUFFICES ASSUME OneTurn, TrustInv, [Next]_vars PROVE TrustInv'
  OBVIOUS
<1>1. Ordered /\ Doubts
  BY DEF TrustInv, Ordered
<1>2. Ordered'
  BY <1>1, OrderedStep
<1>3. Doubts'
  <2>1. CASE lgw_gps_sync
    BY <2>1, SyncTrust
  <2>2. CASE ConcentratorRestarts
    <3>1. confirmed' = FALSE
      BY <2>2 DEF ConcentratorRestarts
    <3> QED BY <3>1 DEF Doubts
  <2>3. CASE UNCHANGED <<offset, filter>>
    <3>1. UNCHANGED <<offset, ref, wrongs, confirmed, aber_min1, aber_min2>>
      BY <2>3 DEF filter
    <3>2. Right(ref) => Right(ref)'
      <4>1. TypeOK
        BY <1>1 DEF Ordered
      <4> QED BY <3>1, <4>1, RightKept, NowMoves
    <3> QED BY <1>1, <3>1, <3>2 DEF Doubts
  <2>4. lgw_gps_sync \/ ConcentratorRestarts \/ UNCHANGED <<offset, filter>>
    BY DEF Next, vars, world, Pulse, lgw_gps_enable, lgw_gps_disable, lgw_parse_nmea,
           lgw_parse_ubx
  <2> QED BY <2>1, <2>2, <2>3, <2>4
<1> QED BY <1>2, <1>3 DEF TrustInv, Ordered

LEMMA TrustHolds ==
  ASSUME OneTurn
  PROVE  Spec => []TrustInv
<1>1. Init => TrustInv
  BY InitOrdered DEF Init, TrustInv, Ordered, Doubts
<1>2. TrustInv /\ [Next]_vars => TrustInv'
  BY TrustStep
<1> QED BY <1>1, <1>2, PTL DEF Spec

(* loragw_gps.c:694-728: a confirmed reference is right: its counter, its  *)
(* UTC and its GPS time are of one pulse, whatever samples it has seen.    *)
THEOREM TrustCorrect ==
  ASSUME OneTurn
  PROVE  Spec => []Trusted
<1>1. TrustInv => Trusted
  BY DEF TrustInv, Doubts, Trusted
<1> QED BY <1>1, TrustHolds, PTL

-----------------------------------------------------------------------------
(* The conversions.                                                        *)

(* The carry and the phase of the second cancel.                           *)
LEMMA SinceAfter ==
  ASSUME NEW sec \in Int, NEW nsec \in 0 .. Nanos - 1, NEW delta \in Nat
  PROVE  Since(sec, nsec, After(sec, nsec, delta)) = delta
<1>1. Nanos \in Nat \ {0}
  BY GpsAssumption
<1>2. PICK q \in Int, r \in 0 .. Nanos - 1 :
        q = delta \div Nanos /\ r = delta % Nanos /\ delta = Nanos * q + r
  BY <1>1, Division
<1>3. After(sec, nsec, delta) = Carry(sec + q, nsec + r)
  BY <1>2 DEF After
<1>4. CASE nsec + r < Nanos
  <2>1. /\ After(sec, nsec, delta).sec = sec + q
        /\ After(sec, nsec, delta).nsec = nsec + r
    BY <1>3, <1>4 DEF Carry
  <2>2. (sec + q) - sec = q /\ (nsec + r) - nsec = r
    BY <1>1, <1>2
  <2> QED BY <1>2, <2>1, <2>2 DEF Since
<1>5. CASE ~(nsec + r < Nanos)
  <2>1. /\ After(sec, nsec, delta).sec = sec + q + 1
        /\ After(sec, nsec, delta).nsec = nsec + r - Nanos
    <3>1. Carry(sec + q, nsec + r) = [sec |-> (sec + q) + 1, nsec |-> (nsec + r) - Nanos]
      BY <1>5, Zenon DEF Carry
    <3> QED BY <1>1, <1>2, <1>3, <3>1
  <2>2. (sec + q + 1) - sec = q + 1 /\ (nsec + r - Nanos) - nsec = r - Nanos
    BY <1>1, <1>2
  <2>3. Nanos * (q + 1) + (r - Nanos) = Nanos * q + r
    <3>1. Nanos * (q + 1) = Nanos * q + Nanos /\ Nanos * q \in Int
      BY <1>1, <1>2
    <3> QED BY <1>1, <1>2, <3>1
  <2> QED BY <1>2, <2>1, <2>2, <2>3 DEF Since
<1> QED BY <1>4, <1>5

(* Cut off twice and rounded twice, at most a tick gets lost: a tick is    *)
(* four nanoseconds or more.                                               *)
LEMMA CutTwice ==
  ASSUME NEW a \in Nat \ {0}, NEW b \in Nat \ {0}, 4 * b <= a,
         NEW d \in Nat \ {0}, NEW k \in -2 .. 2
  PROVE  LET f == (d * a) \div b
         IN f \in Nat /\ f >= 3 /\ ((f + k) * b) \div a \in {d - 1, d}
<1>1. d * a \in Int /\ d * a >= a
  <2>1. d * a = a + (d - 1) * a /\ (d - 1) * a >= 0 /\ d * a \in Int
    OBVIOUS
  <2> QED BY <2>1
<1>2. PICK f \in Int, r \in 0 .. b - 1 : f = (d * a) \div b /\ d * a = b * f + r
  BY <1>1, Division
<1>3. f >= 3
  <2>1. b * f > b * 2
    BY <1>1, <1>2
  <2>2. f > 2
    BY <1>2, <2>1, Smaller
  <2> QED BY <1>2, <2>2
<1>4. (f + k) * b = b * f + k * b /\ b * f \in Int /\ k * b \in Int /\ (f + k) * b \in Int
  BY <1>2
<1>5. -(2 * b) <= k * b /\ k * b <= 2 * b
  <2>1. k \in {-2, -1, 0, 1, 2}
    OBVIOUS
  <2> QED BY <2>1
<1>6. PICK q \in Int, w \in 0 .. a - 1 : q = ((f + k) * b) \div a /\ (f + k) * b = a * q + w
  BY <1>4, Division
<1>7. a * (d + 1) = d * a + a /\ a * (q + 2) = a * q + 2 * a /\ a * (d + 0) = d * a
      /\ a * q \in Int
  BY <1>1, <1>6
<1>8. a * q < a * (d + 1)
  BY <1>1, <1>2, <1>4, <1>5, <1>6, <1>7
<1>9. a * d < a * (q + 2)
  BY <1>1, <1>2, <1>4, <1>5, <1>6, <1>7
<1>10. q < d + 1
  BY <1>6, <1>8, Smaller
<1>11. d < q + 2
  BY <1>6, <1>9, Smaller
<1>12. q \in {d - 1, d}
  BY <1>6, <1>10, <1>11
<1>13. f \in Nat /\ f >= 3 /\ ((f + k) * b) \div a \in {d - 1, d}
  <2>1. f \in Nat
    BY <1>3
  <2> QED BY <1>3, <1>6, <1>12, <2>1, Zenon
<1> QED BY <1>2, <1>13, Zenon

LEMMA TicksBack ==
  ASSUME NEW d \in Nat, NEW x \in Xtals, NEW i \in Rounding, NEW j \in Rounding
  PROVE  /\ NanosOf(d, x, i) \in Nat
         /\ TicksOf(NanosOf(d, x, i), x, j) \in {d - 1, d}
         /\ d = 0 => TicksOf(NanosOf(d, x, i), x, j) = 0
<1> DEFINE a == Nanos * Nanos
           b == Ticks * x
<1>1. /\ Nanos \in Nat \ {0} /\ Ticks \in Nat \ {0} /\ x \in Nat \ {0}
      /\ i \in -1 .. 1 /\ j \in -1 .. 1 /\ 4 * Ticks * x <= Nanos * Nanos
  BY GpsAssumption
<1>2. a \in Nat \ {0} /\ b \in Nat \ {0} /\ 4 * b <= a
  BY <1>1
<1>3. /\ NanosOf(d, x, i) = Rounded((d * a) \div b, i)
      /\ \A n \in Int : TicksOf(n, x, j) = (Rounded(n, j) * b) \div a
  <2>1. d * Nanos * Nanos = d * a
    BY <1>1
  <2>2. \A n \in Int : (Rounded(n, j) * Ticks * x) = Rounded(n, j) * b
    BY <1>1 DEF Rounded
  <2> QED BY <2>1, <2>2 DEF NanosOf, TicksOf
<1> HIDE DEF a, b
<1>4. CASE d = 0
  <2>1. (0 * a) \div b = 0
    <3>1. 0 * a = b * 0 + 0 /\ 0 \in 0 .. b - 1 /\ 0 \in Int
      BY <1>2
    <3>2. (b * 0 + 0) \div b = 0
      BY <1>2, <3>1, DivisionUnique
    <3> QED BY <3>1, <3>2
  <2>2. NanosOf(d, x, i) = 0
    BY <1>3, <1>4, <2>1 DEF Rounded
  <2>3. (0 * b) \div a = 0
    <3>1. 0 * b = a * 0 + 0 /\ 0 \in 0 .. a - 1 /\ 0 \in Int
      BY <1>2
    <3>2. (a * 0 + 0) \div a = 0
      BY <1>2, <3>1, DivisionUnique
    <3> QED BY <3>1, <3>2
  <2>4. TicksOf(0, x, j) = 0
    BY <1>3, <2>3 DEF Rounded
  <2> QED BY <1>4, <2>2, <2>4
<1>5. CASE d # 0
  <2> DEFINE f == (d * a) \div b
  <2>1. d \in Nat \ {0} /\ i + j \in -2 .. 2
    BY <1>1, <1>5
  <2>2. f \in Nat /\ f >= 3 /\ ((f + (i + j)) * b) \div a \in {d - 1, d}
    BY <1>2, <2>1, CutTwice
  <2>3. NanosOf(d, x, i) = Rounded(f, i)
    BY <1>3
  <2> HIDE DEF f
  <2>4. NanosOf(d, x, i) = f + i /\ f + i \in Nat /\ f + i # 0
    BY <1>1, <2>2, <2>3 DEF Rounded
  <2>5. TicksOf(f + i, x, j) = ((f + i + j) * b) \div a
    BY <1>3, <2>4 DEF Rounded
  <2>6. f + i + j = f + (i + j)
    BY <1>1, <2>2
  <2> QED BY <1>5, <2>2, <2>4, <2>5, <2>6
<1> QED BY <1>4, <1>5

(* The counter a tick before.                                              *)
LEMMA AddOneLess ==
  ASSUME NEW a \in 0 .. Wrap - 1, NEW b \in 0 .. Wrap - 1, Sub(b, a) # 0
  PROVE  Add(a, Sub(b, a) - 1) = Sub(b, 1)
BY GpsAssumption DEF Sub, Add

LEMMA ThereAndBack ==
  ASSUME NEW r, r.count_us \in 0 .. Wrap - 1, r.utc \in Int, r.gps \in Int,
         NEW count \in 0 .. Wrap - 1, NEW x \in Xtals, NEW i \in Rounding, NEW j \in Rounding
  PROVE  ComesBack(r, count, x, i, j)
<1> DEFINE d == Sub(count, r.count_us)
           n == NanosOf(d, x, i)
<1>1. 0 \in 0 .. Nanos - 1 /\ Phase \in 0 .. Nanos - 1
  BY GpsAssumption
<1>2. d \in 0 .. Wrap - 1 /\ d \in Nat /\ Add(r.count_us, d) = count
      /\ (d # 0 => Add(r.count_us, d - 1) = Sub(count, 1))
  <2>1. d \in 0 .. Wrap - 1 /\ Add(r.count_us, d) = count
    BY AddOfSub
  <2>2. d # 0 => Add(r.count_us, d - 1) = Sub(count, 1)
    BY AddOneLess
  <2> QED BY <2>1, <2>2, Numbers
<1> HIDE DEF d
<1>3. /\ n \in Nat /\ TicksOf(n, x, j) \in {d - 1, d}
      /\ d = 0 => TicksOf(n, x, j) = 0
  BY <1>2, TicksBack
<1> HIDE DEF n
<1>4. Add(r.count_us, TicksOf(n, x, j)) \in {count, Sub(count, 1)}
  BY <1>2, <1>3
<1>5. Since(r.utc, 0, After(r.utc, 0, n)) = n
  BY <1>1, <1>3, SinceAfter
<1>6. Since(r.gps, Phase, After(r.gps, Phase, n)) = n
  BY <1>1, <1>3, SinceAfter
<1> QED BY <1>4, <1>5, <1>6 DEF d, n, ComesBack, utc2cnt, cnt2utc, gps2cnt, cnt2gps

(* lgw_cnt2utc and the three others: whatever the reference taken, the     *)
(* crystal and the rounding, a counter value comes back as itself or as    *)
(* the tick before.                                                        *)
THEOREM TimestampCorrect == Spec => Timestamps
<1> DEFINE Back == ref' # ref =>
                     \A count \in 0 .. Wrap - 1, x \in Xtals, i, j \in Rounding :
                       ComesBack(ref', count, x, i, j)
<1>1. TypeOK' => Back
  <2>1. SUFFICES ASSUME TypeOK',
                        NEW count \in 0 .. Wrap - 1, NEW x \in Xtals,
                        NEW i \in Rounding, NEW j \in Rounding
                 PROVE  ComesBack(ref', count, x, i, j)
    OBVIOUS
  <2>2. ref'.count_us \in 0 .. Wrap - 1 /\ ref'.utc \in Int /\ ref'.gps \in Int
    BY <2>1 DEF TypeOK
  <2> QED BY <2>2, ThereAndBack
<1>2. TypeOK' => [Back]_vars
  BY <1>1
<1> QED BY <1>2, TypeCorrect, PTL DEF Timestamps
=============================================================================
