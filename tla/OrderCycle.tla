------------------------------ MODULE OrderCycle ------------------------------
(****************************************************************************)
(* The life of a sales order: orders/services.py (capture, amendment and    *)
(* the status machine), fulfilment/services.py (assignment, dispatch and    *)
(* outcome) and the stock movements dispatch and a failed delivery append   *)
(* through inventory/services.py.                                           *)
(*                                                                          *)
(* Every service is one READ COMMITTED transaction. The order services are  *)
(* handed a SalesOrder instance that the view loaded before the transaction *)
(* began (ATOMIC_REQUESTS is off), check THAT instance's status and then    *)
(* UPDATE the row without locking or re-reading it. A request may be        *)
(* delayed between its load and its update for as long as one likes, so the *)
(* statuses a request can be acting on are exactly those the row has ever   *)
(* had: the history variable held. Fulfilment locks the delivery row; the   *)
(* dispatch transaction holds that lock across several reads, which the     *)
(* variable dispatching records. The variable serial says which deployment  *)
(* a behaviour is of: one worker, whose requests never overlap, or several. *)
(****************************************************************************)
EXTENDS Naturals, Sequences

CONSTANTS Orders,      \* the orders
          Products,    \* the products an order may have a line for
          MaxQty,      \* bound: the largest quantity of a line
          Keys,        \* the client_uuid values of delivery outcomes
          NoKey        \* an outcome posted without a client_uuid

ASSUME QtyAssumption == MaxQty \in Nat
ASSUME KeyAssumption == NoKey \notin Keys

VARIABLES
    status,       \* sales_order.status, "NONE" before the order is placed
    held,         \* the statuses an in-flight request's instance may carry
    lines,        \* the order's current lines, as a quantity per product
    delivery,     \* the delivery row of the order
    dispatching,  \* the dispatch transaction that holds the delivery row's lock
    moves,        \* the stock movements whose source document is the delivery
    serial        \* requests run one at a time, so no instance is stale

vars == <<status, held, lines, delivery, dispatching, moves, serial>>

OrderStatus == {"PLACED", "CONFIRMED", "DISPATCHED", "DELIVERED", "CANCELLED"}

\* A line's quantity is positive (ck_order_line_qty); zero stands for no line.
NoLines == [p \in Products |-> 0]
Baskets == [Products -> 0..MaxQty] \ {NoLines}

\* M3-4: "the state machine, declared once".
AllowedTransitions ==
    [s \in OrderStatus |->
        CASE s = "PLACED"     -> {"CONFIRMED", "CANCELLED"}
          [] s = "CONFIRMED"  -> {"DISPATCHED", "CANCELLED"}
          [] s = "DISPATCHED" -> {"DELIVERED"}
          [] OTHER            -> {}]

\* SalesOrder.is_editable.
Editable == {"PLACED", "CONFIRMED"}

DeliveryStatus == {"NONE", "PENDING", "DELIVERED", "FAILED"}
NoDelivery == [status |-> "NONE", dispatched |-> FALSE, key |-> NoKey]
Deliveries == [status : DeliveryStatus, dispatched : BOOLEAN, key : Keys \cup {NoKey}]

\* A dispatch transaction: not running, past its status check, or past its read
\* of the lines it is going to issue.
NotRunning == [phase |-> "none", basket |-> NoLines]
DispatchTx == [phase : {"none", "checked", "read"}, basket : Baskets \cup {NoLines}]

Movements == [type : {"ISSUE", "RETURN"}, basket : Baskets]

TypeOK ==
    /\ status \in [Orders -> OrderStatus \cup {"NONE"}]
    /\ held \in [Orders -> SUBSET OrderStatus]
    /\ lines \in [Orders -> Baskets \cup {NoLines}]
    /\ delivery \in [Orders -> Deliveries]
    /\ dispatching \in [Orders -> DispatchTx]
    /\ moves \in [Orders -> Seq(Movements)]
    /\ serial \in BOOLEAN

Init ==
    /\ status = [o \in Orders |-> "NONE"]
    /\ held = [o \in Orders |-> {}]
    /\ lines = [o \in Orders |-> NoLines]
    /\ delivery = [o \in Orders |-> NoDelivery]
    /\ dispatching = [o \in Orders |-> NotRunning]
    /\ moves = [o \in Orders |-> <<>>]
    /\ serial \in BOOLEAN

----------------------------------------------------------------------------
(* Requests and their instances                                             *)

\* The statuses the instance in a request's hands may carry when the service
\* checks it. With one request at a time that is the row's own status.
Snapshots(o) ==
    IF serial
      THEN IF dispatching[o].phase = "none" THEN {status[o]} \cap OrderStatus ELSE {}
      ELSE held[o]

\* _transition: the check is made on the instance, the UPDATE on the row.
Mut_Transition_Unchecked(o, to) ==
    /\ Snapshots(o) # {}
    /\ status' = [status EXCEPT ![o] = to]
    /\ held' = [held EXCEPT ![o] = @ \cup {to}]

Transition(o, to) ==
    /\ \E snapshot \in Snapshots(o) : to \in AllowedTransitions[snapshot]
    /\ status' = [status EXCEPT ![o] = to]
    /\ held' = [held EXCEPT ![o] = @ \cup {to}]

----------------------------------------------------------------------------
(* orders/services.py                                                       *)

\* place_order: the row, its lines and its totals in one transaction. A replayed
\* client_uuid returns the order that exists, and a credit refusal rolls back:
\* neither leaves a trace.
PlaceOrder(o, basket) ==
    /\ status[o] = "NONE"
    /\ status' = [status EXCEPT ![o] = "PLACED"]
    /\ held' = [held EXCEPT ![o] = {"PLACED"}]
    /\ lines' = [lines EXCEPT ![o] = basket]
    /\ UNCHANGED <<delivery, dispatching, moves>>

\* amend_order: is_editable is asked of the instance; _replace_lines deletes the
\* lines and inserts the new ones.
Mut_AmendOrder_AnyStatus(o, basket) ==
    /\ Snapshots(o) # {}
    /\ lines' = [lines EXCEPT ![o] = basket]
    /\ UNCHANGED <<status, held, delivery, dispatching, moves>>

AmendOrder(o, basket) ==
    /\ Snapshots(o) \cap Editable # {}
    /\ lines' = [lines EXCEPT ![o] = basket]
    /\ UNCHANGED <<status, held, delivery, dispatching, moves>>

ConfirmOrder(o) ==
    /\ Transition(o, "CONFIRMED")
    /\ UNCHANGED <<lines, delivery, dispatching, moves>>

\* cancel_order: nothing is reversed, because nothing physical has happened.
CancelOrder(o) ==
    /\ Transition(o, "CANCELLED")
    /\ UNCHANGED <<lines, delivery, dispatching, moves>>

----------------------------------------------------------------------------
(* fulfilment/services.py                                                   *)

\* assign_delivery re-reads the order, without a lock, and then inserts: the
\* CONFIRMED it saw may be gone by the time the row is written. The unique index
\* on sales_order refuses a second delivery.
AssignDelivery(o) ==
    /\ "CONFIRMED" \in Snapshots(o)
    /\ delivery[o].status = "NONE"
    /\ delivery' = [delivery EXCEPT ![o].status = "PENDING"]
    /\ UNCHANGED <<status, held, lines, dispatching, moves>>

\* Nobody holds the delivery row's lock.
RowFree(o) == dispatching[o].phase = "none"

\* dispatch_delivery takes the delivery row's lock, returns if the goods have
\* already gone, and reads the order (unlocked), which must be CONFIRMED.
Mut_DispatchBegin_Again(o) ==
    /\ RowFree(o)
    /\ delivery[o].status # "NONE"
    /\ status[o] = "CONFIRMED"
    /\ dispatching' = [dispatching EXCEPT ![o].phase = "checked"]
    /\ UNCHANGED <<status, held, lines, delivery, moves>>

DispatchBegin(o) ==
    /\ RowFree(o)
    /\ delivery[o].status # "NONE"
    /\ ~delivery[o].dispatched
    /\ status[o] = "CONFIRMED"
    /\ dispatching' = [dispatching EXCEPT ![o].phase = "checked"]
    /\ UNCHANGED <<status, held, lines, delivery, moves>>

\* After the credit gate, a second statement reads the lines to be issued.
DispatchReadLines(o) ==
    /\ dispatching[o].phase = "checked"
    /\ dispatching' = [dispatching EXCEPT ![o] = [phase |-> "read", basket |-> lines[o]]]
    /\ UNCHANGED <<status, held, lines, delivery, moves>>

\* The ISSUE per line, dispatched_at and mark_dispatched commit together, and the
\* commit releases the lock. mark_dispatched checks the instance read at the start.
Mut_DispatchCommit_NoStamp(o) ==
    /\ dispatching[o].phase = "read"
    /\ moves' = [moves EXCEPT
                   ![o] = Append(@, [type |-> "ISSUE", basket |-> dispatching[o].basket])]
    /\ status' = [status EXCEPT ![o] = "DISPATCHED"]
    /\ held' = [held EXCEPT ![o] = @ \cup {"DISPATCHED"}]
    /\ dispatching' = [dispatching EXCEPT ![o] = NotRunning]
    /\ UNCHANGED <<lines, delivery>>

DispatchCommit(o) ==
    /\ dispatching[o].phase = "read"
    /\ moves' = [moves EXCEPT
                   ![o] = Append(@, [type |-> "ISSUE", basket |-> dispatching[o].basket])]
    /\ delivery' = [delivery EXCEPT ![o].dispatched = TRUE]
    /\ status' = [status EXCEPT ![o] = "DISPATCHED"]
    /\ held' = [held EXCEPT ![o] = @ \cup {"DISPATCHED"}]
    /\ dispatching' = [dispatching EXCEPT ![o] = NotRunning]
    /\ UNCHANGED lines

\* CreditLimitExceeded, or a crash: the transaction rolls back, the lock is freed.
DispatchRollback(o) ==
    /\ dispatching[o].phase # "none"
    /\ dispatching' = [dispatching EXCEPT ![o] = NotRunning]
    /\ UNCHANGED <<status, held, lines, delivery, moves>>

\* The outcome key is free: _replay_of finds it on no delivery and the unique
\* index on outcome_client_uuid will accept it.
KeyFree(k) == k = NoKey \/ \A o \in Orders : delivery[o].key # k

\* _lock_dispatched and the status check behind it: the delivery and order rows
\* are locked, the goods have left and no outcome is recorded. Every other case
\* returns the row as it is, or refuses.
OutcomeDue(o, k) ==
    /\ RowFree(o)
    /\ delivery[o].dispatched
    /\ delivery[o].status = "PENDING"
    /\ KeyFree(k)

\* complete_delivery: the outcome key and DELIVERED, then mark_delivered on the
\* order row the lock has just read; a refused transition rolls everything back.
CompleteDelivery(o, k) ==
    /\ OutcomeDue(o, k)
    /\ status[o] \in OrderStatus
    /\ "DELIVERED" \in AllowedTransitions[status[o]]
    /\ delivery' = [delivery EXCEPT ![o].status = "DELIVERED", ![o].key = k]
    /\ status' = [status EXCEPT ![o] = "DELIVERED"]
    /\ held' = [held EXCEPT ![o] = @ \cup {"DELIVERED"}]
    /\ UNCHANGED <<lines, dispatching, moves>>

\* fail_delivery: the key and FAILED first, then a RETURN per line of the order as
\* it is NOW. The order stays where it was.
FailDelivery(o, k) ==
    /\ OutcomeDue(o, k)
    /\ delivery' = [delivery EXCEPT ![o].status = "FAILED", ![o].key = k]
    /\ moves' = [moves EXCEPT ![o] = Append(@, [type |-> "RETURN", basket |-> lines[o]])]
    /\ UNCHANGED <<status, held, lines, dispatching>>

----------------------------------------------------------------------------
OrderService(o) ==
    \/ \E basket \in Baskets : PlaceOrder(o, basket)
    \/ \E basket \in Baskets : AmendOrder(o, basket)
    \/ ConfirmOrder(o)
    \/ CancelOrder(o)

Dispatch(o) ==
    \/ DispatchBegin(o)
    \/ DispatchReadLines(o)
    \/ DispatchCommit(o)
    \/ DispatchRollback(o)

Outcome(o) ==
    \E k \in Keys \cup {NoKey} : CompleteDelivery(o, k) \/ FailDelivery(o, k)

Next ==
    /\ \E o \in Orders : OrderService(o) \/ AssignDelivery(o) \/ Dispatch(o) \/ Outcome(o)
    /\ UNCHANGED serial

Spec == Init /\ [][Next]_vars

----------------------------------------------------------------------------
(* What holds whatever the requests do                                      *)

Issue(o) == moves[o][1].basket
Return(o) == moves[o][2].basket

\* The stock ledger tells the delivery's story and nothing else (M5-1, F-5, F-6,
\* A-5): an ISSUE exactly when the goods were dispatched, one RETURN after it
\* exactly when the delivery failed, however dispatch and the outcomes are retried
\* or raced and whatever has since happened to the order's status.
LedgerTellsDelivery(o) ==
    /\ Len(moves[o]) \in 0..2
    /\ Len(moves[o]) >= 1 <=> delivery[o].dispatched
    /\ Len(moves[o]) = 2 <=> delivery[o].status = "FAILED"
    /\ Len(moves[o]) >= 1 => moves[o][1].type = "ISSUE"
    /\ Len(moves[o]) = 2 => moves[o][2].type = "RETURN"

StockMovesOnce == \A o \in Orders : LedgerTellsDelivery(o)

\* An outcome is never recorded for goods that have not left, and an order is only
\* ever DELIVERED because its delivery was completed (the order services cannot
\* reach DELIVERED, even from a stale instance).
DeliveredMeansHandedOver ==
    \A o \in Orders :
        /\ delivery[o].status \in {"DELIVERED", "FAILED"} => delivery[o].dispatched
        /\ status[o] = "DELIVERED" => delivery[o].status = "DELIVERED"

\* The abstract flow of the goods, read off the delivery row and the ledger.
GoodsAt(o) ==
    CASE Len(moves[o]) = 0 -> "warehouse"
      [] Len(moves[o]) = 1 -> IF delivery[o].status = "DELIVERED" THEN "shop" ELSE "van"
      [] Len(moves[o]) = 2 /\ moves[o][2].type = "RETURN" -> "returned"
      [] OTHER -> "unaccounted"

Flow == INSTANCE GoodsFlow WITH goods <- [o \in Orders |-> GoodsAt(o)]

\* The order cycle implements the abstract flow: the goods of an order leave at
\* most once and then reach the shop or come back, once (fulfilment/services.py).
ImplementsGoodsFlow == Flow!FlowSpec

----------------------------------------------------------------------------
(* What holds when no instance is stale, and what the documents say holds   *)

\* Total stock returned never exceeds total dispatched, per product (A-12 of
\* docs/M5_Design_Review.md), as long as requests do not overlap: the goods a
\* failed delivery brings back are the goods that left.
ReturnsCoveredByIssue ==
    serial => \A o \in Orders :
        Len(moves[o]) = 2 => \A p \in Products : Return(o)[p] <= Issue(o)[p]

\* "Cancel before dispatch. Nothing physical has happened": as long as requests do
\* not overlap, no stock movement exists for a cancelled order (cancel_order; F-10
\* of docs/M5_Design_Review.md).
CancelledNeverMoved ==
    serial => \A o \in Orders : status[o] = "CANCELLED" => moves[o] = <<>>

\* "A transition not in ALLOWED_TRANSITIONS is rejected" (_transition, M3-4): as
\* long as requests do not overlap, the row itself only ever follows the declared
\* state machine.
TransitionsAllowed ==
    [][\A o \in Orders :
          (serial /\ status[o] # "NONE" /\ status'[o] # status[o])
             => status'[o] \in AllowedTransitions[status[o]]]_vars
=============================================================================
