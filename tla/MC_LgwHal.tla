----------------------------- MODULE MC_LgwHal -----------------------------
(* Small instances of the concentrator HAL: two radios, one IF chain.      *)
EXTENDS LgwHal

(* Frequencies are small integers that keep every radio/IF pair apart. *)
MCRfConfs == {[enable |-> TRUE, freq |-> 100, tx_enable |-> TRUE],
              [enable |-> TRUE, freq |-> 200, tx_enable |-> FALSE]}

MCIfConfs == {[enable |-> TRUE, rf |-> 0, freq |-> 3],
              [enable |-> TRUE, rf |-> 1, freq |-> -3],
              [enable |-> TRUE, rf |-> 0, freq |-> 9]}      \* out of band

ok(p)  == [power |-> p, ok |-> TRUE]
bad(p) == [power |-> p, ok |-> FALSE]
Table(n, e0, e1, e2) ==
  [size |-> n, lut |-> [i \in LutIndex |-> CASE i = 0 -> e0 [] i = 1 -> e1
                                             [] i = 2 -> e2 [] OTHER -> NoGain]]

MCOneIf == {[enable |-> TRUE, rf |-> 0, freq |-> 3],
            [enable |-> FALSE, rf |-> 0, freq |-> 0]}

(* A table that is not sorted and one whose second entry is invalid. *)
MCLutConfs == {Table(3, ok(27), ok(20), ok(10)),
               Table(3, ok(14), bad(20), ok(27))}
MCNoLut    == {}

(* Requests below every entry and on one. *)
MCPowers   == {5, 20}
MCNoPower == {}
=============================================================================
