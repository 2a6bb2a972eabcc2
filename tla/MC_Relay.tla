------------------------------ MODULE MC_Relay ------------------------------
(* Two messages, three packets of the gateway, as many as it takes to hang *)
(* the relay, and a buffer one and a half messages long: pieces, merged    *)
(* messages, losses and drops all happen.                                  *)
EXTENDS Relay
=============================================================================
