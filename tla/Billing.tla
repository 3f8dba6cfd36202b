-------------------------------- MODULE Billing --------------------------------
(****************************************************************************)
(* Tax invoices, credit notes, their gapless number series and the customer *)
(* ledger entries they write: billing/services.py over ledger/services.py.  *)
(*                                                                          *)
(* A worker is one request in one transaction. The row locks are not        *)
(* variables: a lock is held by the worker whose transaction is past the    *)
(* statement that takes it, until that transaction commits or rolls back.   *)
(*                                                                          *)
(* credit_note and customer_ledger_entry are append-only (database triggers *)
(* refuse UPDATE and DELETE) and are read only through SUM and EXISTS, so   *)
(* they are modelled by what those reads return: credited[o] and balance[o].*)
(* Amounts are in paise.                                                    *)
(****************************************************************************)
EXTENDS Integers, Sequences

CONSTANTS Orders,   \* the orders that may be invoiced
          Workers,  \* concurrent requests
          Years,    \* the financial years of document dates
          Keys,     \* client_uuid values of credit note requests
          NoKey,    \* a credit note request without one
          Taxable,  \* Taxable[o]: taxable amount of the order's line
          Tax,      \* Tax[o]: tax on it
          Units     \* Units[o]: the quantity ordered and invoiced

ASSUME ChargeAssumption ==
    /\ Taxable \in [Orders -> Nat]
    /\ Tax \in [Orders -> Nat]
    /\ Units \in [Orders -> Nat \ {0}]
ASSUME NoteKeyAssumption == NoKey \notin Keys

VARIABLES
    order,     \* the class of sales_order.status that billing tells apart
    invoice,   \* the invoice of the order
    credited,  \* SUM(credit_note.total_amount) for the order's invoice
    balance,   \* SUM(customer_ledger_entry.amount) for the order
    entered,   \* orders with an INVOICE entry in the ledger
    current,   \* number_series.current_value
    numbers,   \* the numbers of the documents issued in a series, in issue order
    usedKeys,  \* credit_note.client_uuid values
    tx         \* the transaction each worker runs

vars == <<order, invoice, credited, balance, entered, current, numbers, usedKeys, tx>>
docs == <<invoice, credited, balance, entered, current, numbers, usedKeys>>

OrderClass == {"LIVE", "SHIPPED", "CANCELLED"}
Kinds == {"INVOICE", "CREDIT_NOTE"}
Series == Kinds \X Years

NoInvoice == [status |-> "NONE", total |-> 0]
Invoices == [status : {"NONE", "ISSUED", "CANCELLED"}, total : Nat]

IdleTx == [phase |-> "idle", kind |-> "INVOICE", order |-> "none", year |-> "none",
           units |-> 0, key |-> NoKey, number |-> 0]
Transactions ==
    [phase : {"checked", "locked", "numbered"}, kind : Kinds, order : Orders, year : Years,
     units : Nat, key : Keys \cup {NoKey}, number : Nat] \cup {IdleTx}

TypeOK ==
    /\ order \in [Orders -> OrderClass]
    /\ invoice \in [Orders -> Invoices]
    /\ credited \in [Orders -> Nat]
    /\ balance \in [Orders -> Int]
    /\ entered \subseteq Orders
    /\ current \in [Series -> Nat]
    /\ numbers \in [Series -> Seq(Nat)]
    /\ usedKeys \subseteq Keys
    /\ tx \in [Workers -> Transactions]

Init ==
    /\ order = [o \in Orders |-> "LIVE"]
    /\ invoice = [o \in Orders |-> NoInvoice]
    /\ credited = [o \in Orders |-> 0]
    /\ balance = [o \in Orders |-> 0]
    /\ entered = {}
    /\ current = [s \in Series |-> 0]
    /\ numbers = [s \in Series |-> <<>>]
    /\ usedKeys = {}
    /\ tx = [w \in Workers |-> IdleTx]

----------------------------------------------------------------------------
(* Money                                                                    *)

\* to_money of n/d: two decimals, half up (core/fields.py), for amounts >= 0.
ToMoney(n, d) == (2 * n + d) \div (2 * d)

\* _round_off: the payable is the total rounded to the rupee, half up.
RoundOff(total) == 100 * ToMoney(total, 100)

InvoiceTotal(o) == RoundOff(Taxable[o] + Tax[o])

\* A credit note's payable for q of the invoiced units, from the invoice line's own
\* figures: the taxable amount and the tax are each rounded to the paisa first. The
\* share q / Units is exact here; the code's Decimal keeps 28 digits of it, which can
\* tip an exact half paisa down (never with 1 or 2 units, the sizes TLC runs).
NotePayable(o, q) ==
    RoundOff(ToMoney(Taxable[o] * q, Units[o]) + ToMoney(Tax[o] * q, Units[o]))

----------------------------------------------------------------------------
(* Row locks                                                                *)

Running(w) == tx[w].phase # "idle"
SeriesOf(w) == <<tx[w].kind, tx[w].year>>
Mine(w) == tx[w].order

\* select_for_update on the sales_order row, held by a running issue_invoice.
Mut_OrderFree_NoLock(o) == TRUE
OrderFree(o) == \A w \in Workers : Running(w) /\ tx[w].kind = "INVOICE" => Mine(w) # o

\* select_for_update on the invoice row, held by issue_credit_note once it is past
\* its replay check.
Mut_InvoiceFree_NoLock(o) == TRUE
InvoiceFree(o) ==
    \A w \in Workers :
        (tx[w].kind = "CREDIT_NOTE" /\ tx[w].phase \in {"locked", "numbered"}) => Mine(w) # o

\* select_for_update on the number_series row (or the unique index, for the insert
\* of a new year's row), held from allocate_number to the end of the transaction.
Mut_SeriesFree_NoLock(s) == TRUE
SeriesFree(s) == \A w \in Workers : tx[w].phase = "numbered" => SeriesOf(w) # s

----------------------------------------------------------------------------
(* Orders: other transactions move the status of the row. A stale instance  *)
(* can move it in any direction (see OrderCycle); billing sees the class.   *)
OrderMoves(o) ==
    /\ OrderFree(o)
    /\ \E class \in OrderClass \ {order[o]} : order' = [order EXCEPT ![o] = class]
    /\ UNCHANGED <<docs, tx>>

----------------------------------------------------------------------------
(* issue_invoice                                                            *)

\* The order is locked and re-read; an existing invoice is returned, whatever its
\* status; the goods must have gone.
InvoiceLock(w, o, y) ==
    /\ ~Running(w)
    /\ OrderFree(o)
    /\ invoice[o] = NoInvoice
    /\ order[o] = "SHIPPED"
    /\ tx' = [tx EXCEPT ![w] = [IdleTx EXCEPT !.phase = "locked", !.kind = "INVOICE",
                                              !.order = o, !.year = y]]
    /\ UNCHANGED <<order, docs>>

\* allocate_number: current_value + 1 of the locked series row.
AllocateNumber(w) ==
    /\ tx[w].phase = "locked"
    /\ SeriesFree(SeriesOf(w))
    /\ tx' = [tx EXCEPT ![w].phase = "numbered", ![w].number = current[SeriesOf(w)] + 1]
    /\ UNCHANGED <<order, docs>>

\* The document carries the number and the series row its new value.
Number(w) ==
    /\ current' = [current EXCEPT ![SeriesOf(w)] = tx[w].number]
    /\ numbers' = [numbers EXCEPT ![SeriesOf(w)] = Append(@, tx[w].number)]

\* The invoice, the series row and the INVOICE ledger entry commit together. A zero
\* amount is refused by record_entry.
InvoiceCommit(w) ==
    /\ tx[w].phase = "numbered" /\ tx[w].kind = "INVOICE"
    /\ InvoiceTotal(Mine(w)) > 0
    /\ Number(w)
    /\ invoice' = [invoice EXCEPT ![Mine(w)] = [status |-> "ISSUED", total |-> InvoiceTotal(Mine(w))]]
    /\ balance' = [balance EXCEPT ![Mine(w)] = @ + InvoiceTotal(Mine(w))]
    /\ entered' = entered \cup {Mine(w)}
    /\ tx' = [tx EXCEPT ![w] = IdleTx]
    /\ UNCHANGED <<order, credited, usedKeys>>

----------------------------------------------------------------------------
(* issue_credit_note                                                        *)

\* The replay check on client_uuid comes before any lock: two requests with one
\* key can both pass it.
NoteCheck(w, o, q, k, y) ==
    /\ ~Running(w)
    /\ invoice[o] # NoInvoice
    /\ k \notin usedKeys
    /\ tx' = [tx EXCEPT ![w] = [phase |-> "checked", kind |-> "CREDIT_NOTE", order |-> o,
                                year |-> y, units |-> q, key |-> k, number |-> 0]]
    /\ UNCHANGED <<order, docs>>

\* B-7: total credited never exceeds the invoice.
WithinCap(o, q) == credited[o] + NotePayable(o, q) <= invoice[o].total

Creditable(o, q) ==
    /\ invoice[o].status = "ISSUED"
    /\ q \in 1..Units[o]
    /\ WithinCap(o, q)

\* The invoice row is locked and every check is made under the lock.
NoteLock(w) ==
    /\ tx[w].phase = "checked"
    /\ InvoiceFree(Mine(w))
    /\ Creditable(Mine(w), tx[w].units)
    /\ tx' = [tx EXCEPT ![w].phase = "locked"]
    /\ UNCHANGED <<order, docs>>

\* The insert meets the unique index on client_uuid, record_entry refuses zero.
Insertable(w) ==
    /\ tx[w].key \notin usedKeys
    /\ NotePayable(Mine(w), tx[w].units) > 0

NoteCommit(w) ==
    /\ tx[w].phase = "numbered" /\ tx[w].kind = "CREDIT_NOTE"
    /\ Insertable(w)
    /\ Number(w)
    /\ credited' = [credited EXCEPT ![Mine(w)] = @ + NotePayable(Mine(w), tx[w].units)]
    /\ balance' = [balance EXCEPT ![Mine(w)] = @ - NotePayable(Mine(w), tx[w].units)]
    /\ usedKeys' = usedKeys \cup ({tx[w].key} \ {NoKey})
    /\ tx' = [tx EXCEPT ![w] = IdleTx]
    /\ UNCHANGED <<order, invoice, entered>>

----------------------------------------------------------------------------
(* cancel_invoice: lock, check and write; nothing in it waits after the     *)
(* lock, so it is one step.                                                 *)
Mut_CancelInvoice_IgnoresNotes(o) ==
    /\ InvoiceFree(o)
    /\ invoice[o].status = "ISSUED"
    /\ invoice' = [invoice EXCEPT ![o].status = "CANCELLED"]
    /\ balance' = [balance EXCEPT ![o] = @ - invoice[o].total]
    /\ UNCHANGED <<order, credited, entered, current, numbers, usedKeys, tx>>

CancelInvoice(o) ==
    /\ InvoiceFree(o)
    /\ invoice[o].status = "ISSUED"
    /\ credited[o] = 0
    /\ invoice' = [invoice EXCEPT ![o].status = "CANCELLED"]
    /\ balance' = [balance EXCEPT ![o] = @ - invoice[o].total]
    /\ UNCHANGED <<order, credited, entered, current, numbers, usedKeys, tx>>

----------------------------------------------------------------------------
(* A refusal raised inside the transaction rolls it back: the documents and *)
(* the series row are as before, the locks are freed.                       *)
Refused(w) ==
    \/ tx[w].phase = "checked" /\ InvoiceFree(Mine(w)) /\ ~Creditable(Mine(w), tx[w].units)
    \/ tx[w].phase = "numbered" /\ tx[w].kind = "INVOICE" /\ InvoiceTotal(Mine(w)) = 0
    \/ tx[w].phase = "numbered" /\ tx[w].kind = "CREDIT_NOTE" /\ ~Insertable(w)

Mut_Refuse_OnlyUnderLock(w) ==
    /\ Refused(w)
    /\ tx[w].phase = "numbered"
    /\ tx' = [tx EXCEPT ![w] = IdleTx]
    /\ UNCHANGED <<order, docs>>

Refuse(w) ==
    /\ Refused(w)
    /\ tx' = [tx EXCEPT ![w] = IdleTx]
    /\ UNCHANGED <<order, docs>>

\* The process dies, the connection drops: PostgreSQL rolls the transaction back.
Crash(w) ==
    /\ Running(w)
    /\ tx' = [tx EXCEPT ![w] = IdleTx]
    /\ UNCHANGED <<order, docs>>

Advance(w) ==
    \/ AllocateNumber(w)
    \/ InvoiceCommit(w)
    \/ NoteLock(w)
    \/ NoteCommit(w)
    \/ Refuse(w)

Start(w) ==
    \E o \in Orders, y \in Years :
        \/ InvoiceLock(w, o, y)
        \/ \E q \in 1..(Units[o] + 1), k \in Keys \cup {NoKey} : NoteCheck(w, o, q, k, y)

Next ==
    \/ \E w \in Workers : Start(w) \/ Advance(w) \/ Crash(w)
    \/ \E o \in Orders : OrderMoves(o) \/ CancelInvoice(o)

Spec == Init /\ [][Next]_vars

\* A worker's next statement runs, and a lock it waits for is granted in turn
\* (PostgreSQL queues waiters). No request is ever obliged to arrive.
Fairness == \A w \in Workers : SF_vars(Advance(w))

FairSpec == Spec /\ Fairness

----------------------------------------------------------------------------
(* Properties                                                               *)

\* M5-4, B-4: in every series the documents issued so far carry 1, 2, ... up to the
\* series' current value, in that order, each exactly once: no gap, no duplicate,
\* whatever races, is refused or crashes after a number was allocated.
Gapless == \A s \in Series : numbers[s] = [i \in 1..current[s] |-> i]

\* B-7: concurrent credit notes together never exceed the invoice.
CreditedWithinInvoice == \A o \in Orders : credited[o] <= invoice[o].total

\* B-9, D-4: at every moment what the ledger says an order owes is what its documents
\* say: nothing before the invoice, the invoice less its credit notes after it, and
\* nothing again once it is cancelled (when no credit note may exist).
Owed(o) ==
    IF invoice[o].status = "ISSUED" THEN invoice[o].total - credited[o] ELSE 0

BooksAgree ==
    \A o \in Orders :
        /\ balance[o] = Owed(o)
        /\ o \in entered <=> invoice[o] # NoInvoice
        /\ invoice[o].status # "ISSUED" => credited[o] = 0

\* An issued document is final: its total never changes, a cancellation is never
\* undone and the one invoice of an order is never replaced (B-3, B-11). What was
\* credited is never taken back.
DocumentsFinal ==
    [][\A o \in Orders :
          /\ invoice[o] # NoInvoice =>
                /\ invoice'[o].total = invoice[o].total
                /\ invoice'[o].status \in {invoice[o].status, "CANCELLED"}
          /\ credited'[o] >= credited[o]]_vars

Book == INSTANCE BillBook WITH
            Total <- [o \in Orders |-> InvoiceTotal(o)],
            Parts <- [o \in Orders |-> {NotePayable(o, q) : q \in 1..Units[o]}]

\* However requests overlap, are refused or crash between their checks and their commit,
\* the books change as if each document were checked, numbered and entered at one moment.
ImplementsBillBook == Book!BookSpec

\* Every transaction ends: the order, invoice and series locks are taken in one
\* order and released by refusals too, so no request waits for ever.
TransactionsEnd == \A w \in Workers : Running(w) ~> ~Running(w)
=============================================================================
