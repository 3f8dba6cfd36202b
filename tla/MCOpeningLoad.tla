----------------------------- MODULE MCOpeningLoad -----------------------------
(* Two customers and a supplier; files that are clean, that carry a fraction of *)
(* a paisa, that are wrong in each of the ways _read refuses, and corrections.  *)
EXTENDS OpeningLoad

CONSTANTS c1, c2, s1

OpeningRow(p, amount) == [party |-> p, amount |-> amount, dated |-> TRUE]

MCFiles ==
    {<<OpeningRow(c1, 20), OpeningRow(c2, 10), OpeningRow(s1, -30)>>,
     <<OpeningRow(c1, 10), OpeningRow(s1, 10)>>,
     <<OpeningRow(c1, 14), OpeningRow(s1, 6)>>,
     <<OpeningRow(c1, 4), OpeningRow(s1, 30)>>,
     <<OpeningRow(c1, 20), OpeningRow(c1, 10)>>,
     <<OpeningRow(c2, -10), OpeningRow(s1, 0), OpeningRow(Stranger, 10)>>,
     <<OpeningRow(c2, 10), [party |-> s1, amount |-> 10, dated |-> FALSE]>>}
================================================================================
