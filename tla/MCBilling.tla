------------------------------- MODULE MCBilling -------------------------------
(* Two orders of one customer, billed by two workers while the credit gate    *)
(* measures. The amounts reach every rounding case: o1 is rounded up and      *)
(* credited whole, o2's halves round up past the invoice, so its second half  *)
(* is refused.                                                                *)
EXTENDS CreditExposure, TLC

CONSTANTS o1, o2

MCTaxable == (o1 :> 150) @@ (o2 :> 85)
MCTax     == (o1 :> 27)  @@ (o2 :> 15)
MCUnits   == (o1 :> 1)   @@ (o2 :> 2)
=============================================================================
