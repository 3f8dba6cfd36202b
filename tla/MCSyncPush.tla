------------------------------- MODULE MCSyncPush -------------------------------
(* A delivery, as the app sends it or without delivered_at, and then a visit; a visit *)
(* and then a delivery as the app sends it; a delivery and an unsupported operation.  *)
EXTENDS SyncPush, TLC

Delivery(stamped) == [type |-> "DELIVERY_COMPLETE", stamped |-> stamped]
Visit == [type |-> "VISIT_CREATE", stamped |-> FALSE]
Other == [type |-> "OTHER", stamped |-> FALSE]

MCCaptures == {1 :> Delivery(TRUE) @@ 2 :> Visit, 1 :> Delivery(FALSE) @@ 2 :> Visit,
               1 :> Visit @@ 2 :> Delivery(TRUE)}
MCCapturesOther == {1 :> Delivery(FALSE) @@ 2 :> Other}
=============================================================================
