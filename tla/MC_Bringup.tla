----------------------------- MODULE MC_Bringup -----------------------------
(* Small files, boards and packets for Bringup, with the real times. *)
EXTENDS Bringup

Board_(kind, sx, a) ==
  [fpga |-> kind # "plain", lbt |-> kind = "ap2", notch |-> kind # "plain", initial |-> 0,
   sx127x |-> sx, locks |-> [c \in {0, 1} |-> c = 0 \/ a]]
MCBoards == {Board_("ap2", "SX1276", TRUE), Board_("ap2", "SX1272", TRUE), Board_("plain", "none", FALSE)}

File(objects, id) == [kind |-> "file", objects |-> objects, gateway_ID |-> id]
BoardObj(named, p, k) == [section |-> "board", named |-> named, public |-> p, clksrc |-> k]
Radio_(c, on, f, tx) ==
  [section |-> "radio", chain |-> c,
   conf |-> [enable |-> on, type |-> "SX1255", freq |-> f, tx |-> tx, notch |-> IF tx THEN 129000 ELSE 0]]
Chan_(c, on, r, f, bw, dr) ==
  [section |-> "chan", chain |-> c, conf |-> [enable |-> on, rf |-> r, freq |-> f, bw |-> bw, dr |-> dr]]
Chan(c, r, ok) == Chan_(c, TRUE, r, IF ok THEN -400000 ELSE 400001, 0, 0)
Lut_(entries, first) ==
  [section |-> "tx_lut", objects |-> [i \in 0 .. LutMax - 1 |-> IF i \in entries THEN first + i ELSE NoEntry]]

(* A complete file, whose standard and FSK channels leave values open; two *)
(* that end early, at a disabled radio and at a channel out of band; one   *)
(* without a concentrator; one that overrides parts of the first.          *)
Full == File(<<BoardObj(TRUE, TRUE, 1), Lut_(0 .. 2, 56), Radio_(0, TRUE, 867500000, TRUE),
               Radio_(1, TRUE, 868500000, FALSE), Chan(0, 1, TRUE), Chan(1, 0, TRUE),
               Chan_(8, TRUE, 1, 400000, 200000, 6), Chan_(9, TRUE, 1, 300000, 600000, 0)>>, 7)
OneRadio == File(<<BoardObj(TRUE, FALSE, 0), Lut_(0 .. LutMax - 1, 60), Radio_(0, TRUE, 867500000, FALSE),
                   Radio_(1, FALSE, 0, FALSE), Chan(1, 1, TRUE)>>, 0)
Gaps == File(<<BoardObj(FALSE, FALSE, 1), Lut_({0, 2}, 59), Radio_(0, TRUE, 867500000, TRUE),
               Chan(0, 0, FALSE), Chan(1, 1, TRUE)>>, 9)
IdOnly == File(<<>>, 8)
Override == File(<<BoardObj(TRUE, FALSE, 0), Chan(1, 1, TRUE), Chan_(8, TRUE, 1, -200000, 250000, 7),
                   Chan_(9, FALSE, 0, 0, 0, 0)>>, 0)

(* Its section names no network.                                           *)
Unnamed == File(<<BoardObj(FALSE, FALSE, 0), Lut_({0}, 58)>>, 0)

MCDebugs == {Absent, Gaps, Invalid}
MCGlobals == {Absent, Full, OneRadio}
MCLocals == {Absent, IdOnly, Override, Unnamed}

Channel(f, s) == [freq_hz |-> 915000000 + f, scan_time_us |-> s]
MCLbtConfs ==
  {[enable |-> TRUE, channels |-> <<Channel(0, 128), Channel(200000, 128)>>],
   [enable |-> TRUE, channels |-> <<Channel(200000, 5000)>>],
   [enable |-> TRUE, channels |-> <<Channel(0, 128), Channel(0, 77)>>]}

Pkt(f, bw, sf, size, mode) ==
  [modulation |-> "lora", freq_hz |-> 915000000 + f, bw |-> bw, sf |-> sf, size |-> size,
   preamble |-> 8, coderate |-> 1, no_header |-> FALSE, tx_mode |-> mode]
MCPackets ==
  {Pkt(0, 125, 7, 20, "TIMESTAMPED"), Pkt(205000, 125, 10, 20, "ON_GPS"),
   Pkt(100000, 250, 7, 50, "TIMESTAMPED"), Pkt(0, 125, 7, 1, "IMMEDIATE"),
   [Pkt(0, 125, 7, 1, "TIMESTAMPED") EXCEPT !.modulation = "fsk"], Pkt(900000, 125, 7, 1, "TIMESTAMPED")}
(* Free in the lower half of a turn of the stamps, where a packet that     *)
(* starts later may end in the next turn of the counter, and at its end.   *)
MCFrees == {8000000, 16777100}
MCStarts == {100, 338000, 345000, 3000000, 8389000}
=============================================================================
