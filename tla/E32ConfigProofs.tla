-------------------------- MODULE E32ConfigProofs --------------------------
(* A complete read-back that passed is of the parameters the radio has: in *)
(* all five programs, for any number of resets, whatever byte differs and  *)
(* whatever the stack holds.                                               *)
EXTENDS E32Config, SequenceTheorems, TLAPS

-----------------------------------------------------------------------------
(* Where each step stands in the programs. *)

LEMMA Variants == DOMAIN Program = {"relay", "uart", "uart2", "library", "pi"}
  BY DEF Program

Steps == Len(Program[variant])

LEMMA Lengths ==
  ASSUME variant \in DOMAIN Program
  PROVE  Steps = IF variant = "library" THEN 8 ELSE 11
<1>1. /\ Len(RelayConfig) = 11 /\ Len(UartConfig) = 11 /\ Len(Uart2Config) = 11
      /\ Len(LibraryConfig) = 8 /\ Len(PiConfig) = 11
  BY DEF RelayConfig, UartConfig, Uart2Config, LibraryConfig, PiConfig
<1>2. /\ variant = "relay" => Program[variant] = RelayConfig
      /\ variant = "uart" => Program[variant] = UartConfig
      /\ variant = "uart2" => Program[variant] = Uart2Config
      /\ variant = "library" => Program[variant] = LibraryConfig
      /\ variant = "pi" => Program[variant] = PiConfig
  BY DEF Program
<1>3. Steps = 8 <=> variant = "library"
  BY <1>1, <1>2, Variants DEF Steps
<1>4. Steps = 11 <=> variant # "library"
  BY <1>1, <1>2, Variants DEF Steps
<1> QED BY <1>3, <1>4

LEMMA InProgram == TypeOK => variant \in DOMAIN Program /\ at \in 1 .. Steps
  BY DEF TypeOK, Steps

LEMMA OfSketch ==
  ASSUME variant \in {"relay", "uart", "uart2"}
  PROVE  /\ Program[variant][1] = "sleep" /\ Program[variant][2] = "waitOrStop"
         /\ Program[variant][3] = "set" /\ Program[variant][4] = "wait"
         /\ Program[variant][5] = "pause" /\ Program[variant][6] = "clean"
         /\ Program[variant][7] = "ask" /\ Program[variant][8] = "wait"
         /\ Program[variant][9] = "pause" /\ Program[variant][10] = "verify"
         /\ Program[variant][11] = "normal"
  BY DEF Program, RelayConfig, UartConfig, Uart2Config

LEMMA OfPi ==
  ASSUME variant = "pi"
  PROVE  /\ Program[variant][1] = "sleep" /\ Program[variant][2] = "pause"
         /\ Program[variant][3] = "set" /\ Program[variant][4] = "wait"
         /\ Program[variant][5] = "pause" /\ Program[variant][6] = "clean"
         /\ Program[variant][7] = "ask" /\ Program[variant][8] = "wait"
         /\ Program[variant][9] = "pause" /\ Program[variant][10] = "verify"
         /\ Program[variant][11] = "normal"
  BY DEF Program, PiConfig

LEMMA OfLibrary ==
  ASSUME variant = "library"
  PROVE  /\ Program[variant][1] = "sleep" /\ Program[variant][2] = "waitOrStop"
         /\ Program[variant][3] = "set" /\ Program[variant][4] = "waitOrStop"
         /\ Program[variant][5] = "clean" /\ Program[variant][6] = "ask"
         /\ Program[variant][7] = "waitOrStop" /\ Program[variant][8] = "verify"
  BY DEF Program, LibraryConfig

LEMMA Positions ==
  ASSUME TypeOK
  PROVE  /\ Doing("sleep") => at = 1
         /\ Doing("set") => at = 3
         /\ Doing("clean") => at = AskAt - 1
         /\ Doing("ask") => at = AskAt
         /\ Doing("verify") => at = VerifyAt
         /\ Doing("normal") => at = 11 /\ variant # "library"
         /\ Doing("pause") => at \in {2, 5, 9} /\ variant # "library"
         /\ Doing("wait") => at \in {4, 8} /\ variant # "library"
         /\ Doing("waitOrStop") => at = 2 \/ (at \in {4, 7} /\ variant = "library")
<1>1. /\ at \in Int /\ 1 <= at
      /\ variant = "library" => at <= 8
      /\ variant # "library" => at <= 11
  BY InProgram, Lengths
<1>2. CASE variant = "library"
  <2>1. at \in {1, 2, 3, 4, 5, 6, 7, 8}
    BY <1>1, <1>2
  <2> QED BY <2>1, <1>2, OfLibrary DEF Doing, AskAt, VerifyAt
<1>3. CASE variant # "library"
  <2>1. at \in {1, 2, 3, 4, 5, 6, 7, 8, 9, 10, 11}
    BY <1>1, <1>3
  <2>2. variant \in {"relay", "uart", "uart2"} \/ variant = "pi"
    BY <1>3, Variants DEF TypeOK
  <2> QED BY <2>1, <2>2, <1>3, OfSketch, OfPi DEF Doing, AskAt, VerifyAt
<1> QED BY <1>2, <1>3

(* A program goes on from each of its steps but the last.                  *)
LEMMA GoesOn ==
  ASSUME TypeOK, NEW step \in {"sleep", "pause", "wait", "waitOrStop", "set", "ask", "clean"},
         Doing(step)
  PROVE  at + 1 \in 1 .. Len(Program[variant])
<1>1. /\ at \in Int /\ 1 <= at
      /\ variant = "library" => at <= 7
      /\ variant # "library" => at <= 9
  BY InProgram, Lengths, Positions DEF AskAt
<1>2. at + 1 \in 1 .. Steps
  BY <1>1, InProgram, Lengths
<1> QED BY <1>2 DEF Steps

-----------------------------------------------------------------------------
(* Types. *)

LEMMA InitType == Init => TypeOK
<1> SUFFICES ASSUME Init PROVE TypeOK
  OBVIOUS
<1>1. variant \in DOMAIN Program /\ at = 1
  BY DEF Init
<1>2. at \in 1 .. Steps
  BY <1>1, Lengths
<1>3. at \in 1 .. Len(Program[variant])
  BY <1>2 DEF Steps
<1> QED BY <1>1, <1>3, E32Assumption DEF Init, TypeOK, Answer

(* The radio works on a command only while it has one.                     *)
LEMMA Working ==
  ASSUME TypeOK, Idle, ~aux
  PROVE  /\ work # <<>> /\ Tail(work) \in Seq({"set", "ask"})
         /\ Head(work) \in {"set", "ask"}
<1>1. work # <<>>
  BY DEF Idle
<1> QED BY <1>1 DEF TypeOK

LEMMA AppendHead ==
  ASSUME NEW S, NEW q \in Seq(S), NEW c \in S
  PROVE  /\ Append(q, c) \in Seq(S) /\ Append(q, c) # <<>>
         /\ q # <<>> => Head(Append(q, c)) = Head(q)
<1>1. /\ Append(q, c) \in Seq(S)
      /\ Append(q, c) # <<>>
      /\ Len(Append(q, c)) = Len(q) + 1
      /\ \A i \in 1 .. Len(q) : Append(q, c)[i] = q[i]
  BY AppendProperties
<1>2. q # <<>> => Head(q) = q[1] /\ 1 \in 1 .. Len(q)
  BY HeadTailProperties, EmptySeq
<1>3. Head(Append(q, c)) = Append(q, c)[1]
  BY <1>1
<1> QED BY <1>1, <1>2, <1>3

LEMMA RadioType == TypeOK /\ Idle /\ Radio => TypeOK' /\ Idle'
<1> SUFFICES ASSUME TypeOK, Idle, Radio PROVE TypeOK' /\ Idle'
  OBVIOUS
<1>1. CASE Starts
  BY <1>1 DEF Starts, TypeOK, host, Idle
<1>2. CASE Sets
  <2>1. Tail(work) \in Seq({"set", "ask"}) /\ work # <<>>
    BY <1>2, Working DEF Sets
  <2>2. TypeOK'
    BY <1>2, <2>1 DEF Sets, TypeOK, host
  <2>3. Idle'
    BY <1>2, <2>1 DEF Sets, Idle
  <2> QED BY <2>2, <2>3
<1>3. CASE Answers
  <2>1. Tail(work) \in Seq({"set", "ask"}) /\ work # <<>>
    BY <1>3, Working DEF Answers
  <2>2. buffer' \in Seq((0 .. Answer - 1) \X {"old", "asked"})
    <3>1. <<sent, params>> \in (0 .. Answer - 1) \X {"old", "asked"}
      BY DEF TypeOK
    <3> QED BY <1>3, <3>1 DEF Answers, TypeOK
  <2>3. sent' \in 0 .. Answer - 1
    BY <1>3 DEF Answers, TypeOK, Answer
  <2>6. work' \in Seq({"set", "ask"}) /\ aux' \in BOOLEAN
    BY <1>3, <2>1 DEF Answers, TypeOK
  <2>4. TypeOK'
    BY <1>3, <2>2, <2>3, <2>6 DEF Answers, TypeOK, host
  <2>5. Idle'
    BY <1>3, <2>1 DEF Answers, Idle
  <2> QED BY <2>4, <2>5
<1> QED BY <1>1, <1>2, <1>3 DEF Radio

LEMMA HostType == TypeOK /\ Idle /\ Host => TypeOK' /\ Idle'
<1> SUFFICES ASSUME TypeOK, Idle, Host PROVE TypeOK' /\ Idle'
  OBVIOUS
<1>1. CASE Sleep
  BY <1>1, GoesOn DEF Sleep, TypeOK, Proceed, radio, Idle
<1>2. CASE Pause
  BY <1>2, GoesOn DEF Pause, TypeOK, Proceed, radio, Idle
<1>3. CASE WaitAUX_H
  BY <1>3, GoesOn DEF WaitAUX_H, TypeOK, Proceed, radio, Idle
<1>4. CASE WaitOrStop
  BY <1>4, GoesOn DEF WaitOrStop, TypeOK, Proceed, radio, Idle
<1>5. ASSUME NEW command \in {"set", "ask"}, Write(command)
      PROVE  TypeOK' /\ Idle'
  <2>3. work \in Seq({"set", "ask"}) /\ command \in {"set", "ask"}
    BY DEF TypeOK
  <2>1. Append(work, command) \in Seq({"set", "ask"}) /\ Append(work, command) # <<>>
        /\ (work # <<>> => Head(Append(work, command)) = Head(work))
    BY <2>3, AppendHead
  <2>2. at + 1 \in 1 .. Len(Program[variant])
    BY <1>5, GoesOn DEF Write
  <2> QED BY <1>5, <2>1, <2>2 DEF Write, TypeOK, Proceed, Idle
<1>6. CASE Clean
  BY <1>6, GoesOn DEF Clean, TypeOK, Proceed, radio, Idle
<1>7. CASE Verify
  <2>1. at # Steps => at + 1 \in 1 .. Steps
    BY InProgram, Lengths
  <2>2. at # Len(Program[variant]) => at + 1 \in 1 .. Len(Program[variant])
    BY <2>1 DEF Steps
  <2> QED BY <1>7, <2>2 DEF Verify, TypeOK, Proceed, radio, Idle
<1>8. CASE Normal
  BY <1>8 DEF Normal, TypeOK, radio, Idle
<1> QED BY <1>1, <1>2, <1>3, <1>4, <1>5, <1>6, <1>7, <1>8 DEF Host

LEMMA ResetType == TypeOK /\ Idle /\ Reset => TypeOK' /\ Idle'
<1> SUFFICES ASSUME TypeOK, Idle, Reset PROVE TypeOK' /\ Idle'
  OBVIOUS
<1>1. 1 \in 1 .. Steps
  BY InProgram, Lengths
<1>2. 1 \in 1 .. Len(Program[variant])
  BY <1>1 DEF Steps
<1> QED BY <1>2, E32Assumption DEF Reset, TypeOK, radio, Idle

LEMMA TypeStep == TypeOK /\ Idle /\ [Next]_vars => TypeOK' /\ Idle'
<1>1. TypeOK /\ Idle /\ UNCHANGED vars => TypeOK' /\ Idle'
  BY DEF TypeOK, Idle, vars, host, radio
<1> QED BY <1>1, RadioType, HostType, ResetType DEF Next

(* The program never runs past its end.                                    *)
THEOREM TypeCorrect == Spec => []TypeOK
<1>1. Init => Idle
  BY DEF Init, Idle
<1> QED BY <1>1, InitType, TypeStep, PTL DEF Spec

-----------------------------------------------------------------------------
(* The read-back. *)

Truth == FirstBoot /\ Asking /\ Reading /\ Compared

LEMMA Queues ==
  /\ <<"set">> # <<>> /\ <<"ask">> # <<>> /\ <<"set", "ask">> # <<>>
  /\ Head(<<"set">>) = "set" /\ Head(<<"ask">>) = "ask" /\ Head(<<"set", "ask">>) = "set"
  /\ Tail(<<"set">>) = <<>> /\ Tail(<<"ask">>) = <<>> /\ Tail(<<"set", "ask">>) = <<"ask">>
  /\ Append(<<>>, "set") = <<"set">> /\ Append(<<>>, "ask") = <<"ask">>
  /\ Append(<<"set">>, "ask") = <<"set", "ask">>
<1>1. /\ <<"set">> # <<>> /\ <<"ask">> # <<>> /\ <<"set", "ask">> # <<>>
  OBVIOUS
<1>2. /\ Head(<<"set">>) = "set" /\ Head(<<"ask">>) = "ask" /\ Head(<<"set", "ask">>) = "set"
  OBVIOUS
<1>3. /\ Tail(<<"set">>) = <<>> /\ Tail(<<"ask">>) = <<>>
  OBVIOUS
<1>4. Tail(<<"set", "ask">>) = <<"ask">>
  <2>1. <<"set", "ask">> \in Seq({"set", "ask"}) /\ Len(<<"set", "ask">>) = 2
    OBVIOUS
  <2>2. /\ Tail(<<"set", "ask">>) \in Seq({"set", "ask"})
        /\ Len(Tail(<<"set", "ask">>)) = 1
        /\ Tail(<<"set", "ask">>)[1] = "ask"
    BY <1>1, <2>1, HeadTailProperties
  <2> QED BY <2>2, SeqEqual
<1>5. Append(<<>>, "set") = <<"set">> /\ Append(<<>>, "ask") = <<"ask">>
  OBVIOUS
<1>6. Append(<<"set">>, "ask") = <<"set", "ask">>
  <2>1. /\ <<"set">> \in Seq({"set", "ask"}) /\ Len(<<"set">>) = 1 /\ <<"set">>[1] = "set"
        /\ <<"set", "ask">> \in Seq({"set", "ask"}) /\ Len(<<"set", "ask">>) = 2
    OBVIOUS
  <2>2. /\ Append(<<"set">>, "ask") \in Seq({"set", "ask"})
        /\ Len(Append(<<"set">>, "ask")) = 2
        /\ Append(<<"set">>, "ask")[1] = "set" /\ Append(<<"set">>, "ask")[2] = "ask"
    BY <2>1, AppendProperties
  <2>3. \A i \in 1 .. 2 : Append(<<"set">>, "ask")[i] = <<"set", "ask">>[i]
    BY <2>2
  <2> QED BY <2>1, <2>2, <2>3, SeqEqual
<1> QED BY <1>1, <1>2, <1>3, <1>4, <1>5, <1>6

(* One more byte of the answer.                                            *)
LEMMA EchoAppend ==
  ASSUME NEW S, NEW q \in Seq(S), NEW b \in S, NEW p, NEW n \in Nat,
         Len(q) = n, b = <<n, p>>, \A i \in DOMAIN q : q[i] = <<i - 1, p>>
  PROVE  /\ Len(Append(q, b)) = n + 1
         /\ \A i \in DOMAIN Append(q, b) : Append(q, b)[i] = <<i - 1, p>>
<1>1. /\ Append(q, b) \in Seq(S)
      /\ Len(Append(q, b)) = Len(q) + 1
      /\ \A i \in 1 .. Len(q) : Append(q, b)[i] = q[i]
      /\ Append(q, b)[Len(q) + 1] = b
  BY AppendProperties
<1>2. DOMAIN Append(q, b) = 1 .. n + 1 /\ DOMAIN q = 1 .. n
  BY <1>1, LenProperties
<1>3. SUFFICES ASSUME NEW i \in 1 .. n + 1 PROVE Append(q, b)[i] = <<i - 1, p>>
  BY <1>1, <1>2
<1>4. CASE i \in 1 .. n
  BY <1>1, <1>2, <1>4
<1>5. CASE i = n + 1
  BY <1>1, <1>5
<1> QED BY <1>3, <1>4, <1>5

LEMMA RadioTruth ==
  ASSUME TypeOK, Idle, Truth, Radio PROVE Truth'
<1>1. UNCHANGED <<variant, at, result, count, pins, resets, slow>>
  BY DEF Radio, Starts, Sets, Answers, host
<1>2. AskAt' = AskAt /\ VerifyAt' = VerifyAt
  BY <1>1 DEF AskAt, VerifyAt
<1>3. CASE Starts
  <2>1. UNCHANGED <<buffer, work, sent, params>>
    BY <1>3 DEF Starts
  <2>2. FirstBoot' /\ Asking'
    BY <1>1, <1>2, <2>1 DEF Truth, FirstBoot, Asking, Quiet
  <2>3. Reading'
    BY <1>1, <1>2, <2>1 DEF Truth, Reading, UnderWay, Echo
  <2>4. Compared'
    BY <1>1, <1>2, <2>1 DEF Truth, Compared
  <2> QED BY <2>2, <2>3, <2>4 DEF Truth
<1>4. CASE Sets
  <2>1. /\ Head(work) = "set" /\ work # <<>> /\ work' = Tail(work) /\ UNCHANGED <<buffer, sent>>
    BY <1>4, Working DEF Sets
  <2>2. FirstBoot' /\ Asking'
    BY <1>1, <1>2, <2>1, Queues DEF Truth, FirstBoot, Asking, Quiet
  <2>3. Reading'
    <3>1. SUFFICES ASSUME at \in AskAt + 1 .. VerifyAt, result = "none"
                   PROVE  UnderWay' /\ Echo'
      BY <1>1, <1>2 DEF Reading
    <3>2. work = <<"set", "ask">> /\ sent = 0 /\ buffer = <<>>
      BY <3>1, <2>1, Queues DEF Truth, Reading, UnderWay
    <3>3. work' = <<"ask">> /\ sent' = 0 /\ buffer' = <<>>
      BY <3>2, <2>1, Queues
    <3> QED BY <3>3 DEF UnderWay, Echo
  <2>4. Compared'
    BY <1>1, <1>2, <2>1 DEF Truth, Compared
  <2> QED BY <2>2, <2>3, <2>4 DEF Truth
<1>5. CASE Answers
  <2>1. /\ Head(work) = "ask" /\ work # <<>> /\ UNCHANGED params
        /\ buffer' = Append(buffer, <<sent, params>>)
        /\ IF sent + 1 < Answer THEN sent' = sent + 1 /\ work' = work
                                ELSE sent' = 0 /\ work' = Tail(work)
    BY <1>5, Working DEF Answers
  <2>2. FirstBoot' /\ Asking'
    BY <1>1, <1>2, <2>1, Queues DEF Truth, FirstBoot, Asking, Quiet
  <2>3. Reading'
    <3>1. SUFFICES ASSUME at \in AskAt + 1 .. VerifyAt, result = "none"
                   PROVE  UnderWay' /\ Echo'
      BY <1>1, <1>2 DEF Reading
    <3>2. work = <<"ask">> /\ Len(buffer) = sent /\ Echo
      BY <3>1, <2>1, Queues DEF Truth, Reading, UnderWay
    <3>3. /\ Len(buffer') = sent + 1
          /\ \A i \in DOMAIN buffer' : buffer'[i] = <<i - 1, params>>
      <4>1. /\ sent \in Nat /\ buffer \in Seq((0 .. Answer - 1) \X {"old", "asked"})
            /\ <<sent, params>> \in (0 .. Answer - 1) \X {"old", "asked"}
        BY DEF TypeOK
      <4> QED BY <4>1, <3>2, <2>1, EchoAppend DEF Echo
    <3>4. Echo'
      BY <3>3, <2>1 DEF Echo
    <3>5. CASE sent + 1 < Answer
      <4>1. work' = <<"ask">>
        BY <3>2, <3>5, <2>1
      <4>2. Len(buffer') = sent'
        BY <3>3, <3>5, <2>1
      <4> QED BY <3>4, <4>1, <4>2, Zenon DEF UnderWay
    <3>6. CASE ~(sent + 1 < Answer)
      <4>1. work' = <<>>
        BY <3>2, <3>6, <2>1, Queues
      <4>2. sent + 1 = Answer
        BY <3>6 DEF TypeOK, Answer
      <4>3. Len(buffer') = Answer
        BY <3>3, <4>2, Zenon
      <4> QED BY <3>4, <4>1, <4>3, Zenon DEF UnderWay
    <3> QED BY <3>4, <3>5, <3>6
  <2>4. Compared'
    BY <1>1, <1>2, <2>1 DEF Truth, Compared
  <2> QED BY <2>2, <2>3, <2>4 DEF Truth
<1> QED BY <1>3, <1>4, <1>5 DEF Radio

(* The host's side: only what the step at hand touches moves.              *)
LEMMA Moved ==
  ASSUME TypeOK, Truth, Timely, result = "none",
         UNCHANGED <<variant, resets, buffer, radio>>, count' = count,
         (at' = at /\ result' = "failed") \/ (at' = at + 1 /\ result' = result),
         at' = AskAt - 1 => Quiet,
         at' = AskAt => Quiet /\ buffer = <<>>,
         at \notin {3, AskAt, VerifyAt, 11}
  PROVE  result' = "failed" \/ Truth'
<1> SUFFICES ASSUME result' # "failed" PROVE Truth'
  OBVIOUS
<1>1. at' = at + 1 /\ result' = "none" /\ at \in Nat /\ at <= 10
  BY InProgram, Lengths
<1>2. AskAt' = AskAt /\ VerifyAt' = VerifyAt
  BY DEF AskAt, VerifyAt
<1>3. /\ Quiet' <=> Quiet
      /\ UnderWay' <=> UnderWay
      /\ Echo' <=> Echo
  BY DEF Quiet, UnderWay, Echo, radio
<1>4. FirstBoot'
  BY <1>1, <1>2, <1>3 DEF Truth, FirstBoot, AskAt, radio
<1>5. Asking'
  BY <1>1, <1>2, <1>3 DEF Asking
<1>6. Reading'
  BY <1>1, <1>2, <1>3 DEF Truth, Reading, AskAt, VerifyAt
<1>7. Compared'
  BY <1>1, <1>2 DEF Truth, Compared, VerifyAt, radio
<1> QED BY <1>4, <1>5, <1>6, <1>7 DEF Truth

LEMMA PauseTruth ==
  ASSUME TypeOK, Idle, Truth, Timely, Pause PROVE Truth'
<1>1. /\ result = "none" /\ at' = at + 1 /\ UNCHANGED <<variant, resets, buffer, radio, count, result>>
      /\ at \in {2, 5, 9} /\ variant # "library" /\ Elapsed
  BY Positions DEF Pause, Doing, Proceed
<1>2. AskAt = 7 /\ VerifyAt = 10
  BY <1>1 DEF AskAt, VerifyAt
<1>3. at' = AskAt - 1 => Quiet
  <2>1. CASE resets = 0
    BY <1>1, <1>2, <2>1 DEF Truth, FirstBoot
  <2>2. CASE resets # 0
    <3>1. work = <<>>
      BY <1>1, <2>2 DEF Timely, Elapsed
    <3> QED BY <3>1 DEF Idle, Quiet
  <2> QED BY <2>1, <2>2
<1>4. at' # AskAt /\ at \notin {3, AskAt, VerifyAt, 11}
  BY <1>1, <1>2
<1>5. result' = "failed" \/ Truth'
  BY <1>1, <1>3, <1>4, Moved
<1> QED BY <1>1, <1>5

LEMMA WaitTruth ==
  ASSUME TypeOK, Truth, Timely, Sleep \/ WaitAUX_H \/ WaitOrStop
  PROVE  result' = "failed" \/ Truth'
<1>1. /\ result = "none" /\ UNCHANGED <<variant, resets, buffer, radio, count>>
      /\ (at' = at /\ result' = "failed") \/ (at' = at + 1 /\ result' = result)
      /\ at \in {1, 2} \/ (at \in {4, 8} /\ variant # "library") \/ (at \in {4, 7} /\ variant = "library")
  <2>1. CASE Sleep
    BY <2>1, Positions DEF Sleep, Doing, Proceed
  <2>2. CASE WaitAUX_H
    BY <2>2, Positions DEF WaitAUX_H, Doing, Proceed
  <2>3. CASE WaitOrStop
    <3>1. Doing("waitOrStop") /\ UNCHANGED <<variant, resets, buffer, radio, count>>
      BY <2>3 DEF WaitOrStop
    <3>2. (at' = at /\ result' = "failed") \/ (at' = at + 1 /\ result' = result)
      <4>1. CASE aux /\ Proceed /\ UNCHANGED result
        BY <4>1 DEF Proceed
      <4>2. CASE TimesOut /\ result' = "failed" /\ UNCHANGED at
        BY <4>2
      <4> QED BY <2>3, <4>1, <4>2 DEF WaitOrStop
    <3>3. at = 2 \/ (at \in {4, 7} /\ variant = "library")
      BY <3>1, Positions
    <3>4. result = "none"
      BY <3>1 DEF Doing
    <3> QED BY <3>1, <3>2, <3>3, <3>4
  <2> QED BY <2>1, <2>2, <2>3
<1>2. at \notin {3, AskAt, VerifyAt, 11} /\ at # AskAt - 1
  BY <1>1 DEF AskAt, VerifyAt
<1>3. at' = AskAt - 1 => Quiet
  <2>1. SUFFICES ASSUME at' = AskAt - 1 PROVE Quiet
    OBVIOUS
  <2>2. variant = "library" /\ at = 4
    BY <1>1, <1>2, <2>1 DEF AskAt
  <2>3. resets = 0 /\ at <= AskAt
    BY <2>2 DEF Timely, AskAt
  <2> QED BY <2>3 DEF Truth, FirstBoot
<1>4. at' # AskAt
  BY <1>1, <1>2 DEF AskAt
<1> QED BY <1>1, <1>2, <1>3, <1>4, Moved

LEMMA CleanTruth ==
  ASSUME TypeOK, Truth, Clean PROVE Truth'
<1>1. /\ result = "none" /\ at' = at + 1 /\ buffer' = <<>> /\ at = AskAt - 1
      /\ UNCHANGED <<variant, resets, radio, count, result>>
  BY Positions DEF Clean, Doing, Proceed
<1>2. AskAt' = AskAt /\ VerifyAt' = VerifyAt /\ at' = AskAt /\ AskAt \in {6, 7} /\ VerifyAt \in {8, 10}
  BY <1>1 DEF AskAt, VerifyAt
<1>3. Quiet /\ (Quiet' <=> Quiet)
  BY <1>1 DEF Truth, Asking, Quiet, radio
<1>4. FirstBoot' /\ Asking'
  BY <1>1, <1>2, <1>3 DEF FirstBoot, Asking
<1>5. Reading' /\ Compared'
  BY <1>1, <1>2 DEF Reading, Compared
<1> QED BY <1>4, <1>5 DEF Truth

LEMMA SetTruth ==
  ASSUME TypeOK, Truth, Write("set") PROVE Truth'
<1>1. /\ result = "none" /\ at' = 4 /\ at = 3 /\ work' = Append(work, "set")
      /\ UNCHANGED <<variant, resets, buffer, count, result, sent, params>>
  BY Positions DEF Write, Doing, Proceed
<1>2. AskAt' = AskAt /\ VerifyAt' = VerifyAt /\ AskAt \in {6, 7} /\ VerifyAt \in {8, 10}
  BY <1>1 DEF AskAt, VerifyAt
<1>3. FirstBoot'
  <2>1. SUFFICES ASSUME resets = 0 PROVE buffer' = <<>> /\ Quiet'
    BY <1>1 DEF FirstBoot
  <2>2. buffer = <<>> /\ sent = 0 /\ work = <<>>
    BY <1>1, <1>2, <2>1 DEF Truth, FirstBoot, Quiet
  <2> QED BY <1>1, <2>2, Queues DEF Quiet
<1>4. Asking' /\ Reading' /\ Compared'
  BY <1>1, <1>2 DEF Asking, Reading, Compared
<1> QED BY <1>3, <1>4 DEF Truth

LEMMA AskTruth ==
  ASSUME TypeOK, Truth, Write("ask") PROVE Truth'
<1>1. /\ result = "none" /\ at' = at + 1 /\ at = AskAt /\ work' = Append(work, "ask")
      /\ UNCHANGED <<variant, resets, buffer, count, result, sent, params>>
  BY Positions DEF Write, Doing, Proceed
<1>2. AskAt' = AskAt /\ VerifyAt' = VerifyAt /\ AskAt \in {6, 7} /\ AskAt + 1 <= VerifyAt /\ VerifyAt \in Nat
  BY <1>1 DEF AskAt, VerifyAt
<1>3. Quiet /\ buffer = <<>>
  BY <1>1 DEF Truth, Asking
<1>4. UnderWay' /\ Echo'
  <2>1. buffer' = <<>> /\ sent' = 0
    BY <1>1, <1>3 DEF Quiet
  <2>2. work' = <<"ask">> \/ work' = <<"set", "ask">>
    BY <1>1, <1>3, Queues DEF Quiet
  <2> QED BY <2>1, <2>2 DEF UnderWay, Echo
<1>5. FirstBoot' /\ Asking' /\ Compared'
  BY <1>1, <1>2 DEF FirstBoot, Asking, Compared
<1> QED BY <1>4, <1>5 DEF Truth, Reading

(* Six bytes of one answer that match are of the parameters asked for.     *)
LEMMA Matched ==
  ASSUME Echo, AllMatch, Len(buffer) = Answer, DOMAIN buffer = 1 .. Len(buffer), params \in {"old", "asked"}
  PROVE  params = "asked"
<1>1. Differs \in 1 .. 5
  BY E32Assumption DEF Answer
<1>2. Differs + 1 \in DOMAIN buffer /\ Differs + 1 <= Answer /\ (Differs + 1) - 1 = Differs
  BY <1>1 DEF Answer
<1>3. buffer[Differs + 1] = <<Differs, params>>
  BY <1>2 DEF Echo
<1>4. Matches(Differs + 1)
  BY <1>2 DEF AllMatch
<1> QED BY <1>3, <1>4 DEF Matches

LEMMA VerifyTruth ==
  ASSUME TypeOK, Truth, Verify PROVE result' = "failed" \/ Truth'
<1> SUFFICES ASSUME result' # "failed" PROVE Truth'
  OBVIOUS
<1>1. /\ result = "none" /\ at = VerifyAt /\ count' = Len(buffer)
      /\ UNCHANGED <<variant, resets, radio>>
      /\ (at' = at /\ result' = "ok") \/ (at' = at + 1 /\ result' = result)
  BY Positions DEF Verify, Doing, Proceed
<1>2. AskAt' = AskAt /\ VerifyAt' = VerifyAt /\ AskAt \in Nat /\ AskAt + 1 <= VerifyAt /\ VerifyAt \in Nat
  BY <1>1 DEF AskAt, VerifyAt
<1>3. UnderWay /\ Echo
  BY <1>1, <1>2 DEF Truth, Reading
<1>4. Len(buffer) = Answer => AllMatch
  <2>1. Len(buffer) = Answer => buffer # <<>> /\ Len(buffer) >= Answer /\ ~(Len(buffer) > Answer)
    BY DEF Answer
  <2>2. variant \in {"relay", "uart", "uart2"} \/ variant = "library" \/ variant = "pi"
    BY Variants DEF TypeOK
  <2> QED BY <2>1, <2>2 DEF Verify, Verdict_sketch, Verdict_library, Verdict_pi
<1>5. Len(buffer) = Answer => params = "asked"
  <2>1. DOMAIN buffer = 1 .. Len(buffer) /\ params \in {"old", "asked"}
    BY LenProperties DEF TypeOK
  <2> QED BY <1>3, <1>4, <2>1, Matched
<1>6. Len(buffer) = Answer => work = <<>>
  <2>1. sent # Answer /\ Len(<<>>) # Answer
    BY DEF TypeOK, Answer
  <2> QED BY <1>3, <2>1 DEF UnderWay
<1>7. Compared'
  BY <1>1, <1>5, <1>6 DEF Compared, radio
<1>8. FirstBoot' /\ Asking'
  BY <1>1, <1>2 DEF FirstBoot, Asking
<1>9. Reading'
  BY <1>1, <1>2 DEF Reading
<1> QED BY <1>7, <1>8, <1>9 DEF Truth

LEMMA NormalTruth ==
  ASSUME TypeOK, Truth, Normal PROVE Truth'
<1>1. /\ result = "none" /\ at = 11 /\ variant # "library" /\ result' = "ok"
      /\ UNCHANGED <<variant, at, count, resets, buffer, radio>>
  BY Positions DEF Normal, Doing
<1>2. AskAt' = 7 /\ VerifyAt' = 10 /\ VerifyAt = 10
  BY <1>1 DEF AskAt, VerifyAt
<1>3. FirstBoot' /\ Asking' /\ Reading'
  BY <1>1, <1>2 DEF FirstBoot, Asking, Reading
<1>4. Compared'
  BY <1>1, <1>2 DEF Truth, Compared, radio
<1> QED BY <1>3, <1>4 DEF Truth

LEMMA ResetTruth ==
  ASSUME TypeOK, Reset PROVE Truth'
<1>1. resets' # 0 /\ at' = 1 /\ result' = "none"
  BY DEF Reset, TypeOK
<1>2. AskAt' \in {6, 7} /\ VerifyAt' \in {8, 10}
  BY DEF AskAt, VerifyAt
<1>3. FirstBoot' /\ Asking'
  BY <1>1, <1>2 DEF FirstBoot, Asking
<1>4. Reading' /\ Compared'
  <2>1. ~(at' > VerifyAt') /\ result' # "ok"
    BY <1>1, <1>2
  <2>2. at' \notin AskAt' + 1 .. VerifyAt'
    <3>1. \A a \in {6, 7}, v \in {8, 10} : 1 \notin a + 1 .. v
      OBVIOUS
    <3> QED BY <1>1, <1>2, <3>1, Zenon
  <2> QED BY <2>1, <2>2 DEF Reading, Compared
<1> QED BY <1>3, <1>4 DEF Truth

LEMMA HostTruth ==
  ASSUME TypeOK, Idle, Truth, Timely, Host PROVE result' = "failed" \/ Truth'
  BY WaitTruth, PauseTruth, CleanTruth, SetTruth, AskTruth, VerifyTruth, NormalTruth DEF Host

LEMMA InitReadBack == Init => ReadBackInv
<1> SUFFICES ASSUME Init PROVE ReadBackInv
  OBVIOUS
<1>1. AskAt \in {6, 7} /\ VerifyAt \in {8, 10}
  BY DEF AskAt, VerifyAt
<1>2. FirstBoot /\ Asking /\ Reading /\ Compared
  BY <1>1 DEF Init, FirstBoot, Quiet, Asking, Reading, Compared
<1>3. Idle
  BY DEF Init, Idle
<1> QED BY <1>2, <1>3, InitType DEF ReadBackInv

LEMMA ReadBackStep == ReadBackInv /\ [Next]_vars => ReadBackInv'
<1> SUFFICES ASSUME ReadBackInv, [Next]_vars
             PROVE  ReadBackInv'
  OBVIOUS
<1>1. TypeOK /\ Idle /\ TypeOK' /\ Idle'
  BY TypeStep DEF ReadBackInv
<1>2. SUFFICES ASSUME Timely', result' # "failed" PROVE Truth'
  BY <1>1 DEF ReadBackInv, Truth
<1>3. CASE Reset
  BY <1>1, <1>3, ResetTruth
<1>4. CASE ~Reset
  <2>1. CASE Radio
    <3>1. UNCHANGED <<variant, resets, slow, result>>
      BY <2>1 DEF Radio, Starts, Sets, Answers, host
    <3>2. Truth
      BY <1>2, <3>1 DEF ReadBackInv, Truth, Timely
    <3> QED BY <1>1, <2>1, <3>2, RadioTruth
  <2>2. CASE Host
    <3>1. UNCHANGED <<variant, resets, slow>> /\ result = "none"
      BY <2>2 DEF Host, Sleep, Pause, WaitAUX_H, WaitOrStop, Write, Clean, Verify, Normal, Doing, radio
    <3>2. Truth /\ Timely
      BY <1>2, <3>1 DEF ReadBackInv, Truth, Timely
    <3> QED BY <1>1, <1>2, <2>2, <3>2, HostTruth
  <2>3. CASE UNCHANGED vars
    BY <1>2, <2>3
    DEF vars, host, radio, ReadBackInv, Truth, Timely, FirstBoot, Asking, Reading, Compared,
        AskAt, VerifyAt, Quiet, UnderWay, Echo
  <2> QED BY <1>4, <2>1, <2>2, <2>3 DEF Next
<1> QED BY <1>3, <1>4

LEMMA ReadBackHolds == Spec => []ReadBackInv
<1> QED BY InitReadBack, ReadBackStep, PTL DEF Spec

(* What the host read back complete and took for right is what the radio   *)
(* has, unless it was reset while a slow radio, or one behind the library, *)
(* still had commands to obey.                                             *)
THEOREM TruthCorrect == Spec => []Truthful
<1>1. ReadBackInv => Truthful
  BY DEF ReadBackInv, Compared, Truthful
<1> QED BY <1>1, ReadBackHolds, PTL
=============================================================================
