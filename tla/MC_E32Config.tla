---------------------------- MODULE MC_E32Config ----------------------------
(* All five programs, a radio in time or not, one reset: enough for an     *)
(* answer of the boot before to arrive behind the cleaning of the buffer.  *)
EXTENDS E32Config
=============================================================================
