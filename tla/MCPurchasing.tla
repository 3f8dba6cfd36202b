----------------------------- MODULE MCPurchasing -----------------------------
(* A purchase order of two products and two concurrent receipts. Costs, rates and *)
(* fractional quantities make taxable amount and tax fall on either side of a half *)
(* paisa; the tolerance puts an acceptance limit on a half thousandth.            *)
EXTENDS Purchasing

CONSTANTS p1, p2

MCProducts == {p1, p2}
MCCost == [p \in MCProducts |-> IF p = p1 THEN 13 ELSE 7]
MCTaxRate == [p \in MCProducts |-> IF p = p1 THEN 500 ELSE 1800]
===============================================================================
