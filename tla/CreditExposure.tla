---------------------------- MODULE CreditExposure ----------------------------
(****************************************************************************)
(* The credit gate's measurement, orders/selectors.py credit_exposure, read *)
(* while the billing services run.                                          *)
(*                                                                          *)
(* The sum is two SELECTs of one READ COMMITTED transaction: each sees what *)
(* is committed when it starts, so transactions may commit between them.    *)
(* Both range over one customer's orders. A term is modelled by the set of  *)
(* orders whose value is in it.                                             *)
(****************************************************************************)
EXTENDS Billing

VARIABLE probe   \* the evaluation in progress: has it read the ledger, and what it found

NoProbe == [half |-> FALSE, settled |-> {}]
Probes == [half : BOOLEAN, settled : SUBSET Orders]

\* D-9: LIVE_STATUSES is every status but CANCELLED.
LiveOrders == {o \in Orders : order[o] # "CANCELLED"}

\* settled_balance: the orders whose invoice is in the customer's ledger sum.
SettledTerm == entered

Mut_OpenTerm_ByStatus == LiveOrders

\* open_order_value: live orders with no INVOICE entry (settled_order_ids).
OpenTerm == LiveOrders \ entered

\* credit_exposure evaluates settled_balance first ...
ReadFirst ==
    /\ ~probe.half
    /\ probe' = [half |-> TRUE, settled |-> SettledTerm]
    /\ UNCHANGED vars

\* ... and open_order_value second: the evaluation is the two terms, added up.
ReadSecond ==
    /\ probe.half
    /\ probe' = NoProbe
    /\ UNCHANGED vars

\* The other requests go on between the two reads.
Others == Next /\ UNCHANGED probe

ExposureInit == Init /\ probe = NoProbe

ExposureNext == ReadFirst \/ ReadSecond \/ Others

ExposureSpec == ExposureInit /\ [][ExposureNext]_<<vars, probe>>

FairExposureSpec == ExposureSpec /\ Fairness

----------------------------------------------------------------------------
(* Properties                                                               *)

\* D-9, A-13: an order is never counted as settled debt and as an open order in one
\* evaluation: whenever the second read of credit_exposure comes, the orders it counts
\* as open are none of those the first read found in the ledger, even when an invoice
\* committed in between. It rests on the order of the reads.
NeverDoubleCounts == probe.settled \cap OpenTerm = {}
=============================================================================
