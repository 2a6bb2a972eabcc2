------------------------------ MODULE GpsSync ------------------------------
(***************************************************************************)
(* The time reference of libloragw/src/loragw_gps.c, as test_loragw_gps.c  *)
(* keeps it: sentences of the GPS module update the globals gps_*, each    *)
(* NAV-TIMEGPS frame makes the program take the globals and the counter    *)
(* the concentrator latched at the last pulse, and lgw_gps_sync decides    *)
(* whether they become the reference that converts between counter, UTC    *)
(* and GPS time.                                                           *)
(*                                                                         *)
(* Time is in seconds of the pulse, Ticks of the counter and Nanos per     *)
(* second; GPS time has the same origin as UTC.  In the filter the crystal *)
(* is good: an error of 10 ppm over the 71 minutes of the counter is less  *)
(* than the second by which two pulses differ, which is 232 ppm of them,   *)
(* so "aberrant" is inequality.  Positions are left out.                   *)
(***************************************************************************)
EXTENDS Integers, Sequences

CONSTANTS
  Ticks,    \* TS_CPS, counter ticks per second
  Nanos,    \* nanoseconds per second
  Phase,    \* nanoseconds of the GPS time at a pulse (fTOW)
  Xtals,    \* values of xtal_err, in units of 1 / Nanos
  Rounding, \* nanoseconds a computation in doubles may be off
  Wrap,     \* values of the counter, 2^32 in the concentrator
  Moments,  \* ticks after a pulse at which lgw_start may reset it
  Day,      \* seconds of a day
  Errors,   \* seconds an estimated date or a half valid frame may be off
  MaxTime,  \* seconds
  Backlog   \* sentences the program may be behind when a pulse comes

ASSUME GpsAssumption ==
  /\ Ticks \in Nat \ {0} /\ Wrap \in Nat /\ Wrap > Ticks
  /\ Moments \subseteq 0 .. Ticks - 1
  /\ Nanos \in Nat \ {0} /\ Phase \in 0 .. Nanos - 1
  /\ Xtals \subseteq Nat \ {0} /\ \A x \in Xtals : 4 * Ticks * x <= Nanos * Nanos
  /\ Rounding \subseteq -1 .. 1
  /\ Day \in Nat \ {0} /\ Errors \subseteq Int
  /\ MaxTime \in Nat /\ Backlog \in Nat

VARIABLES
  now,        \* the second of the last pulse
  offset,     \* the counter at second 0, set by the start of the concentrator
  line,       \* sentences on their way to the parsers
  enabled,    \* between lgw_gps_enable and lgw_gps_disable
  gps_time_ok,
  gps_utc,    \* gps_yea .. gps_fra
  fixed,      \* history: they are of one sentence, which had a fix
  pending,    \* what lgw_gps_get returned, until lgw_gps_sync has it
  ref,        \* struct tref
  aber_min1, aber_min2,
  wrongs,     \* samples in a row, up to now, that are not of one pulse or
              \* are of the reference's own (at most 3)
  rights,     \* samples in a row that are of one pulse (at most 3)
  confirmed   \* a later sample agreed with ref, and nothing has cast doubt on it since

world  == <<now, offset, line>>
parser == <<gps_time_ok, gps_utc, fixed>>
filter == <<ref, aber_min1, aber_min2, wrongs, rights, confirmed>>
vars == <<world, enabled, parser, pending, filter>>

(* 1970 of a memset, or the year 0 before the first sentence: further back *)
(* than the counter takes to go round.                                     *)
Past == -Wrap

(* A sample is exact if its date had a fix and its frame both validity     *)
(* bits.                                                                   *)
None  == [got |-> FALSE, utc |-> Past, gps |-> Past, exact |-> FALSE]
NoRef == [set |-> FALSE, count_us |-> 0, utc |-> Past, gps |-> Past, exact |-> FALSE]

Seconds == 0 .. MaxTime

(* A sentence about second t, and the second it says it is.                *)
Sentences ==
  [kind : {"RMC", "TIMEGPS"}, t : Seconds, says : Int,
   how : {"fix", "estimated", "dateless", "empty", "valid", "half", "invalid"}]

(* No two pulses find the same value in the counter, nor a pulse and a     *)
(* date that is ahead by less than a turn of it: 2^32 values and 10^6      *)
(* ticks do so for 777 days.                                               *)
OneTurn == \A s \in Seconds, t \in 0 .. MaxTime + Wrap \div Ticks :
             (Ticks * (s - t)) % Wrap = 0 => s = t

(* Types; nothing exact is of a second that has not come.                  *)
TypeOK ==
  /\ now \in Seconds
  /\ offset \in 0 .. Wrap - 1
  /\ line \in Seq(Sentences)
  /\ enabled \in BOOLEAN
  /\ gps_time_ok \in BOOLEAN
  /\ gps_utc \in Int /\ fixed \in BOOLEAN
  /\ pending \in [got : BOOLEAN, utc : Int, gps : Int, exact : BOOLEAN]
  /\ ref \in [set : BOOLEAN, count_us : 0 .. Wrap - 1, utc : Int, gps : Int, exact : BOOLEAN]
  /\ aber_min1 \in BOOLEAN /\ aber_min2 \in BOOLEAN
  /\ wrongs \in 0 .. 3 /\ rights \in 0 .. 3
  /\ confirmed \in BOOLEAN
  /\ fixed => gps_utc <= now
  /\ pending.exact => pending.utc <= now /\ pending.gps <= now
  /\ ref.exact => ref.utc <= now /\ ref.gps <= now

Init ==
  /\ now = 0 /\ offset \in Moments /\ line = <<>>
  /\ enabled = FALSE
  /\ gps_time_ok = FALSE /\ gps_utc = Past /\ fixed = FALSE
  /\ pending = None
  /\ ref = NoRef /\ aber_min1 = FALSE /\ aber_min2 = FALSE
  /\ wrongs = 0 /\ rights = 0 /\ confirmed = FALSE

-----------------------------------------------------------------------------
(* The GPS module and the concentrator's counter. *)

Counter(t) == (offset + Ticks * t) % Wrap

(* A pulse, and the sentences about it, either first; one whose checksum   *)
(* is wrong is not there.  Only an RMC sentence with a fix and a frame     *)
(* with both validity bits tell the time for certain.                      *)
Sentence(kind, t, sure, unsure, mute) ==
  {<<>>} \cup {<<[kind |-> kind, t |-> t, says |-> t, how |-> h]>> : h \in {sure, mute}}
  \cup {<<[kind |-> kind, t |-> t, says |-> t + e, how |-> h]>> : h \in unsure, e \in Errors}

Emitted(t) ==
  LET rmc == Sentence("RMC", t, "fix", {"estimated", "dateless"}, "empty")
      ubx == Sentence("TIMEGPS", t, "valid", {"half"}, "invalid")
  IN {r \o u : r \in rmc, u \in ubx} \cup {u \o r : r \in rmc, u \in ubx}

Pulse ==
  /\ now < MaxTime
  /\ Len(line) <= Backlog
  /\ now' = now + 1
  /\ \E s \in Emitted(now + 1) : line' = IF enabled THEN line \o s ELSE line
  /\ UNCHANGED <<offset, enabled, parser, pending, filter>>

(* lgw_start resets the counter, at some moment of the second.             *)
ConcentratorRestarts ==
  /\ \E tick \in Moments : offset' = (tick - Ticks * now) % Wrap
  /\ wrongs' = 0 /\ rights' = 0 /\ confirmed' = FALSE
  /\ UNCHANGED <<now, line, enabled, parser, pending, ref, aber_min1, aber_min2>>

-----------------------------------------------------------------------------
(* The serial port. *)

lgw_gps_enable ==
  /\ ~enabled
  /\ enabled' = TRUE
  /\ line' = <<>>                                  \* tcflush
  /\ gps_time_ok' = FALSE
  /\ UNCHANGED <<now, offset, gps_utc, fixed, pending, filter>>

lgw_gps_disable ==
  /\ enabled /\ ~pending.got
  /\ enabled' = FALSE
  /\ line' = <<>>
  /\ UNCHANGED <<now, offset, parser, pending, filter>>

-----------------------------------------------------------------------------
(* The parsers. *)

Arrived(kind) == enabled /\ ~pending.got /\ line # <<>> /\ Head(line).kind = kind

(* The time of day is written before the date is looked for.               *)
TimeOfDayOnly(utc, says) == utc - (utc % Day) + (says % Day)

Parsed(s) ==
  CASE s.how = "empty"    -> gps_utc
    [] s.how = "dateless" -> TimeOfDayOnly(gps_utc, s.says)
    [] OTHER              -> s.says

(* The flag goes up only with a fix, the fields are taken without one.     *)
lgw_parse_nmea ==
  /\ Arrived("RMC")
  /\ LET s == Head(line) IN
       /\ gps_utc' = Parsed(s)
       /\ gps_time_ok' = (s.how = "fix")
       /\ fixed' = (s.how = "fix" \/ (s.how = "empty" /\ fixed))
  /\ line' = Tail(line)
  /\ UNCHANGED <<now, offset, enabled, pending, filter>>

TimeOfWeek_Rounded(t) == t + 1                     \* mutant: rounded up
TimeOfWeek(t) == t

(* One validity bit of the two is enough, and the flag is the one of the   *)
(* RMC sentence.  gps_process_sync follows any TIMEGPS frame: lgw_gps_get  *)
(* returns both times if the flag is up; the week and its time are not     *)
(* read before another frame has written them.                             *)
lgw_parse_ubx ==
  /\ Arrived("TIMEGPS")
  /\ LET s == Head(line) IN
       /\ gps_time_ok' = (s.how # "invalid")
       /\ pending' = IF gps_time_ok'
                     THEN [got |-> TRUE, utc |-> gps_utc, gps |-> TimeOfWeek(s.says),
                           exact |-> fixed /\ s.how = "valid"]
                     ELSE None
  /\ line' = Tail(line)
  /\ UNCHANGED <<now, offset, enabled, gps_utc, fixed, filter>>

-----------------------------------------------------------------------------
(* lgw_gps_sync, with the counter lgw_get_trigcnt reads after lgw_gps_get. *)

Sub(a, b) == IF a >= b THEN a - b ELSE a - b + Wrap      \* uint32_t
Add(a, b) == IF a + b < Wrap THEN a + b ELSE a + b - Wrap

Aberrant(r, count, utc) ==
  utc = r.utc \/ Sub(count, r.count_us) # Ticks * (utc - r.utc)

ResetDue_Two(aber_n0) == aber_n0 /\ aber_min1      \* mutant: two in a row do
ResetDue(aber_n0) == aber_n0 /\ aber_min1 /\ aber_min2

Min1_AcceptedOnly(aber_n0) ==                      \* mutant: not kept when ignored
  IF aber_n0 /\ ~ResetDue(aber_n0) THEN aber_min1 ELSE aber_n0
Min1(aber_n0) == aber_n0

(* The counter has gone round since the reference was taken.               *)
GoneRound == Ticks * (now - ref.utc) >= Wrap

(* Counter and UTC are of one pulse that has come; so is the GPS time when *)
(* the sentences were exact.                                               *)
OfOnePulse(count, s) ==
  /\ count = Counter(s.utc) /\ 0 <= s.utc /\ s.utc <= now
  /\ s.exact => s.gps = s.utc

lgw_gps_sync ==
  /\ pending.got
  /\ LET count == Counter(now)
         aber_n0 == Aberrant(ref, count, pending.utc)
         accepted == ~aber_n0 \/ ResetDue(aber_n0)
         right == OfOnePulse(count, pending)
     IN /\ ref' = IF accepted
                  THEN [set |-> TRUE, count_us |-> count,
                        utc |-> pending.utc, gps |-> pending.gps,
                        exact |-> pending.exact]
                  ELSE ref
        /\ aber_min2' = aber_min1
        /\ aber_min1' = Min1(aber_n0)
        /\ wrongs' = IF right /\ pending.utc # ref.utc THEN 0 ELSE IF wrongs < 3 THEN wrongs + 1 ELSE 3
        /\ rights' = IF ~right THEN 0 ELSE IF rights < 3 THEN rights + 1 ELSE 3
        /\ confirmed' = IF wrongs' = 3 \/ GoneRound THEN FALSE
                        ELSE confirmed \/ (right /\ ~aber_n0)
  /\ pending' = None
  /\ UNCHANGED <<world, enabled, parser>>

Next ==
  \/ Pulse \/ ConcentratorRestarts
  \/ lgw_gps_enable \/ lgw_gps_disable
  \/ lgw_parse_nmea \/ lgw_parse_ubx \/ lgw_gps_sync

Spec == Init /\ [][Next]_vars

-----------------------------------------------------------------------------
(* The conversions, between the counter and [sec, nsec].  The computations *)
(* are in doubles and cut off twice, to nanoseconds and to ticks: x is the *)
(* crystal's error and i what the doubles are off, in nanoseconds (never   *)
(* when there is nothing to compute).                                      *)

Rounded(n, i) == IF n = 0 THEN 0 ELSE n + i

NanosOf(ticks, x, i) == Rounded((ticks * Nanos * Nanos) \div (Ticks * x), i)
TicksOf(nanos, x, i) == (Rounded(nanos, i) * Ticks * x) \div (Nanos * Nanos)

Carry_Missing(sec, nsec) == [sec |-> sec, nsec |-> nsec % Nanos]   \* mutant
Carry(sec, nsec) ==
  IF nsec < Nanos THEN [sec |-> sec, nsec |-> nsec]
  ELSE [sec |-> sec + 1, nsec |-> nsec - Nanos]

After(sec, nsec, delta) == Carry(sec + (delta \div Nanos), nsec + (delta % Nanos))
Since(sec, nsec, time) == Nanos * (time.sec - sec) + (time.nsec - nsec)

cnt2utc(r, count, x, i) == After(r.utc, 0, NanosOf(Sub(count, r.count_us), x, i))
utc2cnt(r, time, x, i)  == Add(r.count_us, TicksOf(Since(r.utc, 0, time), x, i))
cnt2gps(r, count, x, i) == After(r.gps, Phase, NanosOf(Sub(count, r.count_us), x, i))
gps2cnt(r, time, x, i)  == Add(r.count_us, TicksOf(Since(r.gps, Phase, time), x, i))

-----------------------------------------------------------------------------
Right(r) == r.set /\ OfOnePulse(r.count_us, r)

(* loragw_gps.c:694-728: once a sample has agreed with the reference, lost *)
(* or late sentences, an estimated or half updated date or a pulse between *)
(* reading the clock and reading the counter do not spoil it, unless three *)
(* samples in a row are wrong or a sample finds the counter gone round:    *)
(* then good ones look aberrant too, and the next bad one may be the third *)
(* in a row.  GPS time, which is never compared, is the UTC's if the       *)
(* sentences of the sample taken were exact.                               *)
Trusted == confirmed => Right(ref)

(* Why: sentences come in order, so the date of a fix that goes with a GPS *)
(* time is never newer than it; and as long as the counter has not gone    *)
(* round, a sample of a new pulse that looks aberrant to a right reference *)
(* is a wrong one.                                                         *)
SentencesInOrder ==
  /\ \A i \in DOMAIN line :
       /\ fixed => gps_utc <= line[i].t
       /\ line[i].t <= now
       /\ line[i].how \in {"fix", "valid"} => line[i].says = line[i].t
  /\ \A i, j \in DOMAIN line : i < j => line[i].t <= line[j].t
  /\ pending.exact => pending.utc <= pending.gps

Doubts ==
  confirmed =>
    /\ Right(ref)
    /\ aber_min1 => wrongs >= 1
    /\ aber_min1 /\ aber_min2 => wrongs >= 2

TrustInv == TypeOK /\ SentencesInOrder /\ Doubts

(* The other way round, whatever was accepted before and however long the  *)
(* counter has run: three good samples in a row put the reference right.   *)
Recovers == rights = 3 => Right(ref)

(* Why: a good sample becomes the reference, or it counts as aberrant.     *)
RecoverInv ==
  /\ rights >= 1 => Right(ref) \/ aber_min1
  /\ rights >= 2 => Right(ref) \/ aber_min2
  /\ Recovers

(* loragw_gps.h:186, test_loragw_gps.c:97-109: a counter value turned into *)
(* a time by a reference just taken comes back as itself or as the tick    *)
(* before, wherever the doubles are cut off, across the carry of the       *)
(* nanoseconds and the wrap of the counter.                                *)
ComesBack(r, count, x, i, j) ==
  /\ utc2cnt(r, cnt2utc(r, count, x, i), x, j) \in {count, Sub(count, 1)}
  /\ gps2cnt(r, cnt2gps(r, count, x, i), x, j) \in {count, Sub(count, 1)}

Timestamps ==
  [][ref' # ref =>
       \A count \in 0 .. Wrap - 1, x \in Xtals, i, j \in Rounding :
         ComesBack(ref', count, x, i, j)]_vars
=============================================================================
