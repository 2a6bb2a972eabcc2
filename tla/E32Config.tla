----------------------------- MODULE E32Config -----------------------------
(***************************************************************************)
(* Configuring an E32 radio over its serial line: put it to sleep, write   *)
(* the parameters, ask for them and compare.  The repository has it five   *)
(* times: RelayNode.ino, UartNode1.ino (UartNode2 has another address),    *)
(* E32LoRa::set of Node_SX1278/src/E32LoRa and e32_config of               *)
(* Gateway/main/src/e32_api.c.  They differ in where they wait and in what *)
(* they take for a success.  The radio pulls AUX low while it works on a   *)
(* command, a moment after it was written; it stays powered when the host  *)
(* is reset.                                                               *)
(***************************************************************************)
EXTENDS Integers, Sequences

CONSTANTS
  Differs,   \* the byte of the parameters that a radio not yet set has wrong
  Stack,     \* what the bytes of readbuf that were not read may hold
  MaxResets  \* resets of the host while it configures

Answer == 6   \* bytes of the parameters, header first

ASSUME E32Assumption ==
  /\ Differs \in 1 .. Answer - 1          \* the header never differs
  /\ Stack \subseteq {"junk", "right"} /\ Stack # {}
  /\ MaxResets \in Nat

RelayConfig   == <<"sleep", "waitOrStop", "set", "wait", "pause",
                   "clean", "ask", "wait", "pause", "verify", "normal">>
UartConfig    == <<"sleep", "waitOrStop", "set", "wait", "pause",
                   "clean", "ask", "wait", "pause", "verify", "normal">>
Uart2Config   == UartConfig            \* another address
LibraryConfig_Unchecked ==             \* mutant: the answer is not compared
  <<"sleep", "waitOrStop", "set", "waitOrStop", "clean", "ask", "waitOrStop">>
LibraryConfig == <<"sleep", "waitOrStop", "set", "waitOrStop",
                   "clean", "ask", "waitOrStop", "verify">>
PiConfig      == <<"sleep", "pause", "set", "wait", "pause",
                   "clean", "ask", "wait", "pause", "verify", "normal">>

Program == [relay |-> RelayConfig, uart |-> UartConfig, uart2 |-> Uart2Config,
            library |-> LibraryConfig, pi |-> PiConfig]

VARIABLES
  variant,   \* which of the five
  at,        \* the next step of its program
  result,    \* "none", "ok" or "failed"
  buffer,    \* bytes received: <<position in the answer, parameters>>
  count,     \* Readcount, how many there were to compare; 0 before
  pins,      \* M0 and M1: "normal" or "sleep"
  resets,
  slow,      \* it may take longer than the pauses, or never finish
  aux,       \* AUX is high: the radio is idle
  work,      \* commands the radio has received
  sent,      \* bytes of the answer under way that have left
  params     \* the radio's parameters: "old" or "asked"

host  == <<variant, at, result, count, pins, resets>>
radio == <<slow, aux, work, sent, params>>
vars  == <<host, buffer, radio>>

Init ==
  /\ variant \in DOMAIN Program
  /\ at = 1 /\ result = "none" /\ buffer = <<>> /\ count = 0
  /\ pins = "normal" /\ resets = 0
  /\ slow \in BOOLEAN /\ aux = TRUE /\ work = <<>> /\ sent = 0 /\ params = "old"

-----------------------------------------------------------------------------
(* The radio. *)

Starts ==
  /\ aux /\ work # <<>>
  /\ aux' = FALSE
  /\ UNCHANGED <<host, buffer, slow, work, sent, params>>

(* A command damaged on the line is not obeyed, or sets something else.    *)
Sets ==
  /\ ~aux /\ Head(work) = "set"
  /\ params' \in {"old", "asked"}
  /\ work' = Tail(work)
  /\ aux' = TRUE
  /\ UNCHANGED <<host, buffer, slow, sent>>

Answers ==
  /\ ~aux /\ Head(work) = "ask"
  /\ buffer' = Append(buffer, <<sent, params>>)
  /\ IF sent + 1 < Answer
     THEN sent' = sent + 1 /\ UNCHANGED <<work, aux>>
     ELSE sent' = 0 /\ work' = Tail(work) /\ aux' = TRUE
  /\ UNCHANGED <<host, slow, params>>

-----------------------------------------------------------------------------
(* The host. *)

Doing(step) == result = "none" /\ Program[variant][at] = step

Proceed == at' = at + 1

Sleep ==                             \* M0 and M1 high
  /\ Doing("sleep")
  /\ pins' = "sleep"
  /\ Proceed
  /\ UNCHANGED <<variant, result, count, resets, buffer, radio>>

(* digitalWrite, delay: unless it is slow the radio has finished by then.  *)
Elapsed_Short == TRUE                    \* mutant: the delay is too short
Elapsed == slow \/ work = <<>>

Pause ==
  /\ Doing("pause")
  /\ Elapsed
  /\ Proceed
  /\ UNCHANGED <<variant, result, count, pins, resets, buffer, radio>>

(* WaitAUX_H gives up after a hundred looks, ten seconds.                  *)
TimesOut_Never == FALSE                  \* mutant: the looks are not counted
TimesOut == slow /\ ~aux

WaitAUX_H ==                         \* its result is not looked at
  /\ Doing("wait")
  /\ aux \/ TimesOut
  /\ Proceed
  /\ UNCHANGED <<variant, result, count, pins, resets, buffer, radio>>

WaitOrStop ==                        \* exit(0), or return false
  /\ Doing("waitOrStop")
  /\ \/ aux /\ Proceed /\ UNCHANGED result
     \/ TimesOut /\ result' = "failed" /\ UNCHANGED at
  /\ UNCHANGED <<variant, count, pins, resets, buffer, radio>>

Write(command) ==
  /\ Doing(command)
  /\ work' = Append(work, command)
  /\ Proceed
  /\ UNCHANGED <<variant, result, count, pins, resets, buffer, slow, aux, sent, params>>

Clean ==                             \* empties the receive buffer
  /\ Doing("clean")
  /\ buffer' = <<>>
  /\ Proceed
  /\ UNCHANGED <<variant, result, count, pins, resets, radio>>

(* Byte i of what was received is byte i of what was asked for.            *)
Matches(i) ==
  buffer[i][1] = i - 1 /\ (buffer[i][2] = "asked" \/ buffer[i][1] # Differs)

AllMatch == \A i \in DOMAIN buffer : i <= Answer => Matches(i)

(* The sketches compare six bytes if there is one; those not read are what *)
(* the stack holds.  More than six are stored behind readbuf.              *)
Verdict_sketch(ok) ==
  IF buffer = <<>> THEN ok = FALSE
  ELSE IF Len(buffer) < Answer THEN ok => AllMatch /\ "right" \in Stack
  ELSE IF Len(buffer) = Answer THEN ok = AllMatch
  ELSE TRUE

(* The library compares what there is.                                     *)
Verdict_library(ok) == IF Len(buffer) > Answer THEN TRUE ELSE ok = AllMatch

(* The gateway's program wants exactly six bytes.                          *)
Verdict_pi(ok) == ok = (Len(buffer) = Answer /\ AllMatch)

Verify ==
  /\ Doing("verify")
  /\ \E ok \in BOOLEAN :
       /\ variant \in {"relay", "uart", "uart2"} => Verdict_sketch(ok)
       /\ variant = "library" => Verdict_library(ok)
       /\ variant = "pi" => Verdict_pi(ok)
       /\ IF ~ok THEN result' = "failed" /\ UNCHANGED at
          ELSE IF at = Len(Program[variant]) THEN result' = "ok" /\ UNCHANGED at
          ELSE Proceed /\ UNCHANGED result
  /\ count' = Len(buffer)
  /\ buffer' = <<>>
  /\ UNCHANGED <<variant, pins, resets, radio>>

Normal ==                            \* M0 and M1 low: in use
  /\ Doing("normal")
  /\ pins' = "normal"
  /\ result' = "ok"
  /\ UNCHANGED <<variant, at, count, resets, buffer, radio>>

(* After a failure the sketches stop for good; somebody resets them.       *)
Reset ==
  /\ result # "ok"
  /\ resets < MaxResets
  /\ resets' = resets + 1
  /\ at' = 1 /\ result' = "none" /\ count' = 0 /\ pins' = "normal" /\ buffer' = <<>>
  /\ UNCHANGED <<variant, radio>>

-----------------------------------------------------------------------------
Radio == Starts \/ Sets \/ Answers

Host == Sleep \/ Pause \/ WaitAUX_H \/ WaitOrStop \/ Write("set") \/ Write("ask")
        \/ Clean \/ Verify \/ Normal

Next == Radio \/ Host \/ Reset

Spec == Init /\ [][Next]_vars

(* The host executes; a radio that is not slow answers.                    *)
FairSpec == Spec /\ WF_vars(Host) /\ WF_vars(~slow /\ Radio)

-----------------------------------------------------------------------------
TypeOK ==
  /\ variant \in DOMAIN Program
  /\ at \in 1 .. Len(Program[variant])
  /\ result \in {"none", "ok", "failed"}
  /\ buffer \in Seq((0 .. Answer - 1) \X {"old", "asked"})
  /\ count \in Nat
  /\ pins \in {"normal", "sleep"}
  /\ resets \in 0 .. MaxResets
  /\ slow \in BOOLEAN
  /\ aux \in BOOLEAN
  /\ work \in Seq({"set", "ask"})
  /\ sent \in 0 .. Answer - 1
  /\ params \in {"old", "asked"}

(* The read-back (RelayNode.ino:198, E32LoRa.cpp:50, e32_api.c:76): when   *)
(* six bytes came back and they passed, the radio has the parameters, even *)
(* if the command was damaged and a wait ended before the radio pulled AUX *)
(* low.  After a reset the radio may still have commands to obey; then it  *)
(* takes the pauses that the library does not make, and a radio in time.   *)
Timely == resets = 0 \/ (~slow /\ variant # "library")

Truthful == result = "ok" /\ count = Answer /\ Timely => params = "asked"

(* Why it holds: the parameters are asked for when the radio has at most   *)
(* the setting before it and the buffer is empty; so what arrives is the   *)
(* one answer, from its start, of parameters that no longer change, and a  *)
(* complete one leaves the radio with nothing to do.                       *)
AskAt    == IF variant = "library" THEN 6 ELSE 7
VerifyAt == IF variant = "library" THEN 8 ELSE 10

(* The radio works while it has commands, and answers what it was asked.   *)
Idle ==
  /\ work = <<>> => aux
  /\ sent # 0 => work # <<>> /\ Head(work) = "ask"

(* The answer is to come, coming, or there; what is there is so still.     *)
Quiet == work \in {<<>>, <<"set">>} /\ sent = 0
UnderWay ==
  \/ work = <<"set", "ask">> /\ sent = 0 /\ buffer = <<>>
  \/ work = <<"ask">> /\ Len(buffer) = sent
  \/ work = <<>> /\ Len(buffer) = Answer
Echo == \A i \in DOMAIN buffer : buffer[i] = <<i - 1, params>>

FirstBoot == resets = 0 /\ at <= AskAt => buffer = <<>> /\ Quiet /\ (at <= 3 => work = <<>>)
Asking    == (at = AskAt - 1 => Quiet) /\ (at = AskAt => Quiet /\ buffer = <<>>)
Reading   == at \in AskAt + 1 .. VerifyAt /\ result = "none" => UnderWay /\ Echo
Compared  ==
  (at > VerifyAt \/ result = "ok") /\ count = Answer => params = "asked" /\ work = <<>>

ReadBackInv ==
  /\ TypeOK /\ Idle
  /\ Timely /\ result # "failed" => FirstBoot /\ Asking /\ Reading /\ Compared

(* A radio that does not answer never holds the host up.                   *)
Ends == <>[](result # "none")
=============================================================================
