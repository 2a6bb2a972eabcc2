----------------------------- MODULE MC_GpsSync -----------------------------
(* Six seconds of a counter that goes round in less than three; a pulse    *)
(* may come between reading the clock and reading the counter.  Three      *)
(* samples make the first reference and a fourth confirms it; then there   *)
(* is time for two wrong ones, or for a restart.                           *)
EXTENDS GpsSync

MCErrors == {-1}
MCRounding == {-1}

ASSUME MCOneTurn == OneTurn
=============================================================================
