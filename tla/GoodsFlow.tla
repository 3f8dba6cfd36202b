------------------------------ MODULE GoodsFlow ------------------------------
(****************************************************************************)
(* What fulfilment promises about the goods of an order, with no request,   *)
(* no row and no lock in sight: they leave the warehouse at most once, and   *)
(* from the van they either reach the shop or come back, once, for good.    *)
(* backend/fulfilment/services.py states it as M5-1 (the ISSUE is written   *)
(* at dispatch), F-5 (completing twice is a no-op) and F-6 (failing twice   *)
(* must not return the stock a second time). OrderCycle implements it.      *)
(****************************************************************************)
CONSTANT Orders

VARIABLE goods  \* goods[o]: where the goods of order o are

Places == {"warehouse", "van", "shop", "returned"}

FlowInit == goods = [o \in Orders |-> "warehouse"]

\* The goods are loaded: the one ISSUE.
Leave(o) ==
    /\ goods[o] = "warehouse"
    /\ goods' = [goods EXCEPT ![o] = "van"]

\* The handover: no stock moves.
HandOver(o) ==
    /\ goods[o] = "van"
    /\ goods' = [goods EXCEPT ![o] = "shop"]

\* The failed delivery: the one RETURN.
ComeBack(o) ==
    /\ goods[o] = "van"
    /\ goods' = [goods EXCEPT ![o] = "returned"]

FlowNext == \E o \in Orders : Leave(o) \/ HandOver(o) \/ ComeBack(o)

FlowSpec == FlowInit /\ [][FlowNext]_goods
=============================================================================
