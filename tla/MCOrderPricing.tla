--------------------------- MODULE MCOrderPricing ---------------------------
(* Instances of OrderPricing for TLC: one product sold in packs, at a price  *)
(* and at a rate that round, and one order of two lines that may be amended. *)
EXTENDS OrderPricing, TLC

CONSTANT g

MCRows == {[price |-> 25, rate |-> 1250, pack |-> 3, active |-> TRUE],
           [price |-> 31, rate |-> 1850, pack |-> 2, active |-> FALSE]}

Entry(n, packs, d) == [product |-> g, entered |-> n, packs |-> packs, discount |-> d]

MCOrderings == {<<Entry(1500, FALSE, 0), Entry(500, TRUE, 3)>>, <<Entry(2000, FALSE, 0)>>}

Perms == Permutations(Clerks)
=============================================================================
