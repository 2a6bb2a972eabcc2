------------------------------ MODULE Mailbox ------------------------------
(***************************************************************************)
(* What a hand-over between two threads of Gateway/main/src/main.c         *)
(* promises: contents are posted one over the other, and what the taker    *)
(* gets is the newest there is or, when it is posted over meanwhile, torn. *)
(* As long as the box is open it gets every whole content that is not      *)
(* replaced.  It may take the same content again, and one that is not      *)
(* whole.                                                                  *)
(***************************************************************************)
EXTENDS Integers

VARIABLES
  posted,   \* the newest content, counted from 1
  whole,    \* it is complete and good
  taken,    \* the content taken last, 0 before the first, -1 for a torn one
  open      \* the gateway runs

vars == <<posted, whole, taken, open>>

Init == posted = 0 /\ whole = TRUE /\ taken = 0 /\ open = TRUE

(* A newer content; what was not taken is gone. *)
Post == open /\ posted' > posted /\ whole' = FALSE /\ UNCHANGED <<taken, open>>

(* The content is complete; a damaged one never gets there. *)
Complete == open /\ whole' = TRUE /\ UNCHANGED <<posted, taken, open>>

(* The taker gets what is newest at that moment, never an older content,   *)
Take == open /\ taken' = posted /\ UNCHANGED <<posted, whole, open>>

(* or torn parts.                                                          *)
Tear == open /\ taken' = -1 /\ UNCHANGED <<posted, whole, open>>

Close == open' = FALSE /\ UNCHANGED <<posted, whole, taken>>

Next == Post \/ Complete \/ Take \/ Tear \/ Close

Spec == Init /\ [][Next]_vars

FairSpec == Spec /\ WF_vars(whole /\ Take)
=============================================================================
