------------------------------ MODULE Purchasing ------------------------------
(****************************************************************************)
(* Purchase orders and goods receipts: purchasing/services.py, driven by    *)
(* webadmin/purchasing_views.py.                                            *)
(*                                                                          *)
(* A view loads the PurchaseOrder and its lines, then calls a service that  *)
(* opens a READ COMMITTED transaction, checks THAT instance and writes the  *)
(* row without locking or re-reading it. As in OrderCycle, the statuses an  *)
(* instance may carry are those the row has ever had (held). A goods        *)
(* receipt reads the quantities received so far twice, once to check the    *)
(* acceptance limit and once, after its own lines, to settle the status, so *)
(* it is split at those reads. Its foreign keys are deferred: they are      *)
(* checked when it commits.                                                 *)
(*                                                                          *)
(* goods_receipt_line and supplier_ledger_entry are append-only and read    *)
(* through SUM, so they are modelled by their sums, kept apart per order    *)
(* and product: a receipt posts one entry for the total of its lines.       *)
(* Amounts are in paise, quantities in thousandths of a unit and            *)
(* percentages in hundredths, as core/fields.py stores them.                *)
(****************************************************************************)
EXTENDS Integers

CONSTANTS Orders,     \* the purchase orders
          Products,   \* the products an order may have a line for
          Workers,    \* concurrent goods receipt requests
          LineQuantities,  \* bound: the quantities of an order line or a receipt line
          MaxReceived,  \* bound: the quantity at which no further receipt is begun
          Tolerance,  \* over_receipt_tolerance_percent of the business profile
          Cost,       \* Cost[p]: the unit cost agreed for the product
          TaxRate     \* TaxRate[p]: its tax_rate_percent

ASSUME PurchaseAssumption ==
    /\ LineQuantities \subseteq Nat \ {0}
    /\ MaxReceived \in Nat
    /\ Tolerance \in Nat
    /\ Cost \in [Products -> Nat]
    /\ TaxRate \in [Products -> Nat]

VARIABLES
    status,    \* purchase_order.status, "NONE" before the order is created
    held,      \* the statuses an in-flight request's instance may carry
    lines,     \* the order's current lines, as a quantity ordered per product
    received,  \* SUM(goods_receipt_line.quantity_received) per order and product
    booked,    \* the number of goods_receipt_line rows per order and product
    payable,   \* what those lines put into the supplier's GOODS_RECEIPT entries
    stock,     \* SUM of the RECEIPT movements of the product
    receipt,   \* the create_goods_receipt transaction each worker runs
    raced      \* history: the orders on which one request overlapped another

vars == <<status, held, lines, received, booked, payable, stock, receipt, raced>>
goods == <<received, booked, payable, stock>>

OrderStatus == {"DRAFT", "ISSUED", "PARTIALLY_RECEIVED", "RECEIVED", "CLOSED", "CANCELLED"}

Nothing == [p \in Products |-> 0]
Quantities == [Products -> Nat]
Baskets == [Products -> {0} \cup LineQuantities] \ {Nothing}

\* The lifecycle, and the whole of it.
AllowedTransitions ==
    [s \in OrderStatus |->
        CASE s = "DRAFT"              -> {"ISSUED", "CANCELLED"}
          [] s = "ISSUED"             -> {"PARTIALLY_RECEIVED", "RECEIVED", "CANCELLED"}
          [] s = "PARTIALLY_RECEIVED" -> {"PARTIALLY_RECEIVED", "RECEIVED", "CLOSED"}
          [] s = "RECEIVED"           -> {"CLOSED"}
          [] OTHER                    -> {}]

\* PurchaseOrder.is_editable and _RECEIVABLE_STATUSES.
Editable == {"DRAFT"}
Receivable == {"ISSUED", "PARTIALLY_RECEIVED"}

NoReceipt == [phase |-> "idle"]
Receipts ==
    [phase : {"checked", "posted"}, order : Orders, seen : Receivable, basket : Baskets,
     to : {"PARTIALLY_RECEIVED", "RECEIVED"}, orphan : BOOLEAN]

TypeOK ==
    /\ status \in [Orders -> OrderStatus \cup {"NONE"}]
    /\ held \in [Orders -> SUBSET OrderStatus]
    /\ lines \in [Orders -> Baskets \cup {Nothing}]
    /\ received \in [Orders -> Quantities]
    /\ booked \in [Orders -> Quantities]
    /\ payable \in [Orders -> Quantities]
    /\ stock \in Quantities
    /\ receipt \in [Workers -> Receipts \cup {NoReceipt}]
    /\ raced \subseteq Orders

Init ==
    /\ status = [o \in Orders |-> "NONE"]
    /\ held = [o \in Orders |-> {}]
    /\ lines = [o \in Orders |-> Nothing]
    /\ received = [o \in Orders |-> Nothing]
    /\ booked = [o \in Orders |-> Nothing]
    /\ payable = [o \in Orders |-> Nothing]
    /\ stock = Nothing
    /\ receipt = [w \in Workers |-> NoReceipt]
    /\ raced = {}

----------------------------------------------------------------------------
(* Requests and their instances                                             *)

\* The statuses of the instance a view may have loaded before it calls the service.
Instances(o) == held[o]

\* Worker w serves goods_receipt_form for o.
Open(w, o) == receipt[w] # NoReceipt /\ receipt[w].order = o

\* A request on o that ends now overlapped another if the status its instance
\* carries is no longer the row's, or if another request is open on o.
Overlaps(o, seen, others) == seen # status[o] \/ \E w \in others : Open(w, o)
Noted(o, seen, others) == raced' = IF Overlaps(o, seen, others) THEN raced \cup {o} ELSE raced

\* _transition: the map is asked about the instance's status, the UPDATE is
\* unconditional.
Transition(o, seen, to) ==
    /\ to \in AllowedTransitions[seen]
    /\ status' = [status EXCEPT ![o] = to]
    /\ held' = [held EXCEPT ![o] = @ \cup {to}]

----------------------------------------------------------------------------
(* The order                                                                *)

\* create_purchase_order and _replace_lines: at least one line, each positive.
CreatePurchaseOrder(o, basket) ==
    /\ status[o] = "NONE"
    /\ status' = [status EXCEPT ![o] = "DRAFT"]
    /\ held' = [held EXCEPT ![o] = {"DRAFT"}]
    /\ lines' = [lines EXCEPT ![o] = basket]
    /\ UNCHANGED <<goods, receipt, raced>>

\* GoodsReceiptLine.purchase_order_line is RESTRICT, so a line that something has
\* been received against cannot be deleted: the whole amendment rolls back.
Mut_LinesDeletable_Cascade(o) == TRUE
LinesDeletable(o) == received[o] = Nothing

\* amend_purchase_order: a draft's lines are deleted and inserted anew. A receipt
\* in flight is left holding lines that no longer exist.
AmendPurchaseOrder(o, basket) ==
    \E seen \in Instances(o) \cap Editable :
        /\ LinesDeletable(o)
        /\ lines' = [lines EXCEPT ![o] = basket]
        /\ receipt' = [w \in Workers |->
                          IF Open(w, o) THEN [receipt[w] EXCEPT !.orphan = TRUE] ELSE receipt[w]]
        /\ Noted(o, seen, Workers)
        /\ UNCHANGED <<status, held, goods>>

\* issue_purchase_order: an order always has lines, so only the map can refuse.
IssuePurchaseOrder(o) ==
    \E seen \in Instances(o) :
        /\ lines[o] # Nothing
        /\ Transition(o, seen, "ISSUED")
        /\ Noted(o, seen, Workers)
        /\ UNCHANGED <<lines, goods, receipt>>

\* cancel_purchase_order, with a reason.
CancelPurchaseOrder(o) ==
    \E seen \in Instances(o) :
        /\ Transition(o, seen, "CANCELLED")
        /\ Noted(o, seen, Workers)
        /\ UNCHANGED <<lines, goods, receipt>>

\* close_purchase_order: no more will arrive; every receipt stands.
ClosePurchaseOrder(o) ==
    \E seen \in Instances(o) :
        /\ Transition(o, seen, "CLOSED")
        /\ Noted(o, seen, Workers)
        /\ UNCHANGED <<lines, goods, receipt>>

----------------------------------------------------------------------------
(* Goods receipt                                                            *)

\* _parsed_receipt_lines: a blank quantity is skipped, the others must name a line of
\* this order.
OfThisOrder(o, basket) == \A p \in Products : basket[p] > 0 => lines[o][p] > 0

\* _quantize of n/d: half up.
Quantize(n, d) == (2 * n + d) \div (2 * d)

\* _acceptance_limit: the ordered quantity and its tolerance, as a canonical quantity.
AcceptanceLimit(ordered) == Quantize(ordered * (10000 + Tolerance), 10000)

Mut_WithinLimit_PerReceipt(o, prior, basket) ==
    \A p \in Products : basket[p] > 0 => basket[p] <= AcceptanceLimit(lines[o][p])

\* _price_receipt_lines: what has arrived with what arrives now stays within the limit,
\* line by line.
WithinLimit(o, prior, basket) ==
    \A p \in Products : basket[p] > 0 =>
        prior[p] + basket[p] <= AcceptanceLimit(lines[o][p])

Mut_ToMoney_Truncated(n, d) == n \div d
ToMoney(n, d) == Quantize(n, d)

\* The total of a receipt line: the taxable amount is rounded to the paisa, and then
\* the tax on the rounded amount.
Taxable(p, q) == ToMoney(Cost[p] * q, 1000)
LineTotal(p, q) == Taxable(p, q) + ToMoney(Taxable(p, q) * TaxRate[p], 10000)

\* The receipt's lines, one for every product that arrived, and their totals.
ReceiptLines(basket) == [p \in Products |-> IF basket[p] > 0 THEN 1 ELSE 0]
ReceiptTotals(basket) == [p \in Products |-> LineTotal(p, basket[p])]

Plus(f, g) == [p \in Products |-> f[p] + g[p]]

\* _settle_order_status: RECEIVED when every line has met its ordered quantity.
Complete(o, total) == \A p \in Products : total[p] >= lines[o][p]
Mut_SettledStatus_AnyLine(o, total) ==
    IF \E p \in Products : lines[o][p] > 0 /\ total[p] >= lines[o][p]
      THEN "RECEIVED" ELSE "PARTIALLY_RECEIVED"
SettledStatus(o, total) == IF Complete(o, total) THEN "RECEIVED" ELSE "PARTIALLY_RECEIVED"

\* outstanding_lines: what is still to come, negative for a tolerated over-receipt.
OutstandingLines(o) == [p \in Products |-> lines[o][p] - received[o][p]]

\* receive_stock, for every line of the receipt.
ReceiveStock(basket) == stock' = Plus(stock, basket)

\* create_goods_receipt up to the acceptance check. The instance and its lines were
\* loaded by the view; the quantities received so far are read here.
ReceiptCheck(w, o, basket) ==
    /\ receipt[w] = NoReceipt
    /\ \A p \in Products : received[o][p] < MaxReceived
    /\ \E seen \in Instances(o) \cap Receivable :
        /\ OfThisOrder(o, basket)
        /\ WithinLimit(o, received[o], basket)
        /\ receipt' = [receipt EXCEPT ![w] =
               [phase |-> "checked", order |-> o, seen |-> seen, basket |-> basket,
                to |-> "PARTIALLY_RECEIVED", orphan |-> FALSE]]
        /\ Noted(o, seen, Workers)
    /\ UNCHANGED <<status, held, lines, goods>>

\* _post_receipt_lines, then the second read of what has been received, which sees
\* this receipt's own lines and every receipt committed meanwhile.
ReceiptPost(w) ==
    /\ receipt[w] # NoReceipt
    /\ receipt[w].phase = "checked"
    /\ LET o == receipt[w].order IN
       receipt' = [receipt EXCEPT ![w].phase = "posted",
                                  ![w].to = SettledStatus(o, Plus(received[o], receipt[w].basket))]
    /\ UNCHANGED <<status, held, lines, goods, raced>>

\* The rest of the transaction: the stock movements, the lines, the supplier ledger
\* entry (none for free goods) and the transition from the status of the instance.
ReceiptCommit(w) ==
    /\ receipt[w] # NoReceipt
    /\ receipt[w].phase = "posted"
    /\ ~receipt[w].orphan
    /\ LET o == receipt[w].order
           basket == receipt[w].basket
       IN  /\ Transition(o, receipt[w].seen, receipt[w].to)
           /\ received' = [received EXCEPT ![o] = Plus(@, basket)]
           /\ booked' = [booked EXCEPT ![o] = Plus(@, ReceiptLines(basket))]
           /\ payable' = [payable EXCEPT ![o] = Plus(@, ReceiptTotals(basket))]
           /\ ReceiveStock(basket)
           /\ Noted(o, receipt[w].seen, Workers \ {w})
    /\ receipt' = [receipt EXCEPT ![w] = NoReceipt]
    /\ UNCHANGED lines

\* A receipt whose lines an amendment deleted fails its foreign key; any receipt may
\* fail on its way. Nothing of it remains.
ReceiptRollback(w) ==
    /\ receipt[w] # NoReceipt
    /\ receipt' = [receipt EXCEPT ![w] = NoReceipt]
    /\ UNCHANGED <<status, held, lines, goods, raced>>

Next ==
    \/ \E o \in Orders :
        \/ \E basket \in Baskets :
              \/ CreatePurchaseOrder(o, basket)
              \/ AmendPurchaseOrder(o, basket)
              \/ \E w \in Workers : ReceiptCheck(w, o, basket)
        \/ IssuePurchaseOrder(o)
        \/ CancelPurchaseOrder(o)
        \/ ClosePurchaseOrder(o)
    \/ \E w \in Workers : ReceiptPost(w) \/ ReceiptCommit(w) \/ ReceiptRollback(w)

Spec == Init /\ [][Next]_vars

----------------------------------------------------------------------------
(* Properties                                                               *)

\* RECEIVED never overstates: whatever receipts, cancellations and amendments
\* overlapped, an order that _settle_order_status moved to RECEIVED has every
\* ordered quantity booked in.
ReceivedIsComplete ==
    \A o \in Orders : status[o] = "RECEIVED" => Complete(o, received[o])

\* Once goods have arrived against an order, no amend_purchase_order that was loaded
\* while it was a draft can change the lines they were priced from.
ReceivedLinesStand ==
    [][\A o \in Orders : received[o] # Nothing => lines'[o] = lines[o]]_vars

\* For an order whose requests never overlapped, the status tells exactly what has
\* arrived, and no line is received beyond its acceptance limit.
UnracedStatusIsExact ==
    \A o \in Orders \ raced :
        /\ \A p \in Products : received[o][p] <= AcceptanceLimit(lines[o][p])
        /\ status[o] \in {"NONE", "DRAFT", "ISSUED", "CANCELLED"} <=> received[o] = Nothing
        /\ status[o] = "PARTIALLY_RECEIVED" =>
              \E p \in Products : OutstandingLines(o)[p] > 0

\* Whatever receipts overlapped and in however many instalments the goods came, the
\* payable raised for a product of an order is what the quantity received cost with its
\* tax, to a paisa and half the tax on one for every receipt line: _price_receipt_lines
\* rounds the taxable amount, taxes what it rounded, and rounds the tax.
PayableFollowsGoods ==
    \A o \in Orders, p \in Products :
        LET exact == Cost[p] * received[o][p] * (10000 + TaxRate[p])
            drift == 1000 * (10000 * booked[o][p]) + 500 * (TaxRate[p] * booked[o][p])
        IN  /\ 10000000 * payable[o][p] - exact <= drift
            /\ exact - 10000000 * payable[o][p] <= drift
=============================================================================
