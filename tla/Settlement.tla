------------------------------ MODULE Settlement ------------------------------
(****************************************************************************)
(* Money against documents, for one party: receivables/services.py for a    *)
(* customer, the payment half of purchasing/services.py for a supplier, the *)
(* entries both append through ledger/services.py, and the positions and    *)
(* statements derived from them.                                            *)
(*                                                                          *)
(* The two sides differ where the code says they do, so kind is chosen in   *)
(* Init. Every service is one READ COMMITTED transaction; one that checks   *)
(* for an earlier row and then inserts is split there, because two of them  *)
(* can pass the check together and only the unique index decides. The       *)
(* ledger is append-only: a sequence in id order.                           *)
(****************************************************************************)
EXTENDS LedgerWalk

CONSTANTS Workers,     \* concurrent requests
          Keys,        \* client_uuid and submission_id values
          NoKey,       \* a customer payment without a client_uuid
          LastDay,     \* bound: dates are 1..LastDay
          DocAmounts,  \* what an invoice or goods receipt may come to
          PayAmounts,  \* what a payment, note, write-off or opening may come to
          MaxEntries   \* bound: the entries of the ledger (see Room)

ASSUME SettlementAssumption ==
    /\ NoKey \notin Keys
    /\ LastDay \in Nat \ {0}
    /\ DocAmounts \subseteq Nat \ {0}
    /\ PayAmounts \subseteq Nat \ {0}
    /\ MaxEntries \in Nat

VARIABLES
    kind,      \* whose ledger this is: "customer" or "supplier"
    today,     \* timezone.localdate()
    ledger,    \* the ledger entries of the party, in id order
    past,      \* history: the ledger as every commit left it, the empty one first
    payments,  \* payment (supplier_payment) rows, in id order
    told,      \* history: the supplier payment requests answered with success
    tx         \* the transaction each worker runs

vars == <<kind, today, ledger, past, payments, told, tx>>

Days == 1..LastDay
Requests == [key : Keys \cup {NoKey}, amount : PayAmounts, date : Days]
Idle == [op |-> "idle"]
Transactions ==
    [op : {"pay"}, req : Requests] \cup
    [op : {"reverse"}, payment : Nat, date : Days] \cup
    [op : {"open"}, amount : Int, date : Days] \cup {Idle}

Payments == Seq([req : Requests, reversed : BOOLEAN])

\* CustomerLedgerEntry.Type and SupplierLedgerEntry.Type.
CustomerTypes == {"INVOICE", "CREDIT_NOTE", "PAYMENT", "OPENING", "ADJUSTMENT", "WRITE_OFF"}
SupplierTypes == {"GOODS_RECEIPT", "PAYMENT", "OPENING", "ADJUSTMENT", "DEBIT_NOTE"}
EntryTypes == IF kind = "customer" THEN CustomerTypes ELSE SupplierTypes

\* _SIGN_RULES and _SUPPLIER_SIGN_RULES, and the rule that no entry is zero.
SignAgrees(type, amount) ==
    /\ amount # 0
    /\ type \in {"INVOICE", "GOODS_RECEIPT"} => amount > 0
    /\ type \in {"PAYMENT", "CREDIT_NOTE", "DEBIT_NOTE", "WRITE_OFF"} => amount < 0
    /\ type = "OPENING" /\ kind = "customer" => amount > 0

Docs == {NoDoc} \cup ({"INVOICE", "GOODS_RECEIPT", "CREDIT_NOTE", "PAYMENT"} \X Nat)
Entries == [date : Days, type : EntryTypes, amount : Int, doc : Docs, reduces : Docs]

TypeOK ==
    /\ kind \in {"customer", "supplier"}
    /\ today \in Days
    /\ ledger \in Seq(Entries)
    /\ \A i \in 1..Len(ledger) : SignAgrees(ledger[i].type, ledger[i].amount)
    /\ past \in Seq(Seq(Entries))
    /\ payments \in Payments
    /\ told \subseteq Requests
    /\ tx \in [Workers -> Transactions]

Init ==
    /\ kind \in {"customer", "supplier"}
    /\ today = 1
    /\ ledger = <<>>
    /\ past = <<ledger>>
    /\ payments = <<>>
    /\ told = {}
    /\ tx = [w \in Workers |-> Idle]

----------------------------------------------------------------------------
(* The ledger                                                               *)

\* The bound on the ledger: nothing is written once it is full, and no payment or
\* reversal is begun.
Room == Len(ledger) < MaxEntries

\* record_entry and record_supplier_entry: the single write path.
RecordEntry(type, amount, date, doc, reduces) ==
    /\ Room
    /\ SignAgrees(type, amount)
    /\ ledger' = Append(ledger, [date |-> date, type |-> type, amount |-> amount,
                                 doc |-> doc, reduces |-> reduces])
    /\ past' = Append(past, ledger')

EntryFor(doc) == ledger[CHOOSE i \in 1..Len(ledger) : ledger[i].doc = doc /\ ledger[i].type = doc[1]]
Adjusted(doc) == \E i \in 1..Len(ledger) : ledger[i].type = "ADJUSTMENT" /\ ledger[i].doc = doc
Credited(doc) == -Total(ledger, {i \in 1..Len(ledger) : ledger[i].reduces = doc})
Invoices == {ledger[i].doc : i \in {i \in 1..Len(ledger) : ledger[i].type = "INVOICE"}}
Openings == {i \in 1..Len(ledger) : ledger[i].type = "OPENING"}

DayPasses ==
    /\ today < LastDay
    /\ today' = today + 1
    /\ UNCHANGED <<kind, ledger, past, payments, told, tx>>

----------------------------------------------------------------------------
(* Documents, as their entries reach the ledger (see Billing, Purchasing).  *)
(* The id an entry is about to get serves as its document's number.         *)

NewDoc(type) == <<type, Len(ledger) + 1>>

\* issue_invoice and create_goods_receipt, dated by the caller.
RaiseDocument(amount, date) ==
    /\ LET type == IF kind = "customer" THEN "INVOICE" ELSE "GOODS_RECEIPT"
       IN  RecordEntry(type, amount, date, NewDoc(type), NoDoc)
    /\ UNCHANGED <<kind, today, payments, told, tx>>

\* issue_credit_note: at most what is left of an invoice that stands.
IssueCreditNote(invoice, amount, date) ==
    /\ kind = "customer"
    /\ ~Adjusted(invoice)
    /\ Credited(invoice) + amount <= EntryFor(invoice).amount
    /\ RecordEntry("CREDIT_NOTE", -amount, date, NewDoc("CREDIT_NOTE"), invoice)
    /\ UNCHANGED <<kind, today, payments, told, tx>>

\* cancel_invoice: not once credited, and once only.
CancelInvoice(invoice) ==
    /\ kind = "customer"
    /\ ~Adjusted(invoice)
    /\ Credited(invoice) = 0
    /\ RecordEntry("ADJUSTMENT", -EntryFor(invoice).amount, today, invoice, NoDoc)
    /\ UNCHANGED <<kind, today, payments, told, tx>>

\* write_off: an explicit amount, no lock, no source document.
WriteOff(amount, date) ==
    /\ kind = "customer"
    /\ RecordEntry("WRITE_OFF", -amount, date, NoDoc, NoDoc)
    /\ UNCHANGED <<kind, today, payments, told, tx>>

----------------------------------------------------------------------------
(* record_payment and record_supplier_payment                               *)

\* The rows with the request's key. A customer payment may come without one.
SameKey(req) ==
    {n \in 1..Len(payments) : req.key # NoKey /\ payments[n].req.key = req.key}

\* A repeated key is answered with the payment it made. _replayed refuses one whose
\* payload has changed; record_payment compares nothing.
Mut_ReplayAccepted_Always(req, n) == TRUE
ReplayAccepted(req, n) == kind = "customer" \/ payments[n].req = req

Answer(req) == told' = IF kind = "supplier" THEN told \cup {req} ELSE told

Replay(req) ==
    /\ SameKey(req) # {}
    /\ IF \E n \in SameKey(req) : ReplayAccepted(req, n) THEN Answer(req) ELSE UNCHANGED told
    /\ UNCHANGED <<kind, today, ledger, past, payments>>

\* The check before the insert.
PaymentCheck(w, req) ==
    /\ tx[w] = Idle
    /\ kind = "supplier" => req.key # NoKey
    /\ \/ Replay(req) /\ UNCHANGED tx
       \/ /\ SameKey(req) = {} /\ Room
          /\ tx' = [tx EXCEPT ![w] = [op |-> "pay", req |-> req]]
          /\ UNCHANGED <<kind, today, ledger, past, payments, told>>

\* The row and its ledger entry are one transaction.
RecordPayment(req) ==
    /\ payments' = Append(payments, [req |-> req, reversed |-> FALSE])
    /\ RecordEntry("PAYMENT", -req.amount, req.date, <<"PAYMENT", Len(payments) + 1>>, NoDoc)
    /\ Answer(req)
    /\ UNCHANGED <<kind, today>>

\* The insert meets the unique index: the loser of a race rolls back to its savepoint
\* and answers as a replay.
PaymentInsert(w) ==
    /\ tx[w].op = "pay"
    /\ \/ SameKey(tx[w].req) = {} /\ RecordPayment(tx[w].req)
       \/ Replay(tx[w].req)
    /\ tx' = [tx EXCEPT ![w] = Idle]

----------------------------------------------------------------------------
(* reverse_payment and reverse_supplier_payment                             *)

\* select_for_update on the payment row, held by a running reversal.
Mut_PaymentFree_NoLock(n) == TRUE
PaymentFree(n) == \A w \in Workers : tx[w].op = "reverse" => tx[w].payment # n

\* Under the lock, a payment that is already reversed is returned as it is. A customer
\* reversal is dated today, a supplier's by the caller.
ReverseLock(w, n, date) ==
    /\ tx[w] = Idle /\ Room
    /\ PaymentFree(n)
    /\ ~payments[n].reversed
    /\ kind = "customer" => date = today
    /\ tx' = [tx EXCEPT ![w] = [op |-> "reverse", payment |-> n, date |-> date]]
    /\ UNCHANGED <<kind, today, ledger, past, payments, told>>

ReverseCommit(w) ==
    /\ tx[w].op = "reverse"
    /\ LET n == tx[w].payment IN
       /\ RecordEntry("ADJUSTMENT", payments[n].req.amount, tx[w].date, <<"PAYMENT", n>>, NoDoc)
       /\ payments' = [payments EXCEPT ![n].reversed = TRUE]
    /\ tx' = [tx EXCEPT ![w] = Idle]
    /\ UNCHANGED <<kind, today, told>>

----------------------------------------------------------------------------
(* load_opening_balance and load_supplier_opening_balance                   *)

\* A customer's is positive; a supplier's may be a credit.
OpeningAmounts == IF kind = "customer" THEN PayAmounts ELSE PayAmounts \cup {-a : a \in PayAmounts}

\* A party that is opened already is answered with its entry (customer) or refused.
OpeningCheck(w, amount, date) ==
    /\ tx[w] = Idle
    /\ \/ Openings # {} /\ UNCHANGED tx
       \/ /\ Openings = {}
          /\ tx' = [tx EXCEPT ![w] = [op |-> "open", amount |-> amount, date |-> date]]
    /\ UNCHANGED <<kind, today, ledger, past, payments, told>>

\* uq_cle_one_opening_per_customer and uq_sle_one_opening_per_supplier: the loser of a
\* race returns the entry that exists (customer) or refuses (supplier).
OpeningInsert(w) ==
    /\ tx[w].op = "open"
    /\ \/ Openings = {} /\ RecordEntry("OPENING", tx[w].amount, tx[w].date, NoDoc, NoDoc)
       \/ Openings # {} /\ UNCHANGED <<ledger, past>>
    /\ tx' = [tx EXCEPT ![w] = Idle]
    /\ UNCHANGED <<kind, today, payments, told>>

\* The process dies or the connection drops: the transaction rolls back.
Crash(w) ==
    /\ tx[w] # Idle
    /\ tx' = [tx EXCEPT ![w] = Idle]
    /\ UNCHANGED <<kind, today, ledger, past, payments, told>>

Next ==
    \/ DayPasses
    \/ \E date \in Days :
        \/ \E amount \in DocAmounts : RaiseDocument(amount, date)
        \/ \E amount \in PayAmounts :
              \/ WriteOff(amount, date)
              \/ \E invoice \in Invoices : IssueCreditNote(invoice, amount, date)
        \/ \E w \in Workers :
              \/ \E amount \in OpeningAmounts : OpeningCheck(w, amount, date)
              \/ \E n \in 1..Len(payments) : ReverseLock(w, n, date)
    \/ \E invoice \in Invoices : CancelInvoice(invoice)
    \/ \E w \in Workers :
        \/ \E req \in Requests : PaymentCheck(w, req)
        \/ PaymentInsert(w) \/ ReverseCommit(w) \/ OpeningInsert(w) \/ Crash(w)

Spec == Init /\ [][Next]_vars

----------------------------------------------------------------------------
(* What is derived: outstanding_for, supplier_position, settled_balance,    *)
(* supplier_balance and customer_statement.                                 *)

Policy == Policies[kind]
Position(asOf) == Walk(ledger, InOrder(ledger), View(ledger, asOf), Policy)
BalanceOf(book, asOf) == Total(book, View(book, asOf))
Balance(asOf) == BalanceOf(ledger, asOf)

Mut_Statement_OpensAtFrom(from, to, seen) ==
    [opening |-> BalanceOf(past[seen.opening], from),
     entries |-> {i \in View(past[seen.entries], to) : past[seen.entries][i].date >= from},
     closing |-> BalanceOf(past[seen.closing], to)]

\* The balance strictly before the first date, the entries between the dates, and the
\* balance as at the last: three queries, each of which sees what is committed when it
\* runs. seen says which of the past ledgers each of them met.
Statement(from, to, seen) ==
    [opening |-> BalanceOf(past[seen.opening], from - 1),
     entries |-> {i \in View(past[seen.entries], to) : past[seen.entries][i].date >= from},
     closing |-> BalanceOf(past[seen.closing], to)]

\* collected_total: the payments that stand.
Collected ==
    SumOf([n \in 1..Len(payments) |-> IF payments[n].reversed THEN 0 ELSE payments[n].req.amount],
          Len(payments))

----------------------------------------------------------------------------
(* Properties                                                               *)

\* M6 5A.7: on every date, what the walk leaves open less what it leaves on account is
\* the ledger's own SUM, whatever was reversed, cancelled, credited or backdated.
WalkAgreesWithLedger ==
    \A asOf \in Days :
        LET pos == Position(asOf)
        IN  Outstanding(pos, Len(ledger)) - pos.pool = Balance(asOf)

\* The entries committed since past ledger n.
Since(n) == {i \in 1..Len(ledger) : n <= i}

\* The queries of a statement that met past ledgers opened, listed and closed, in turn.
Met(opened, listed, closed) == [opening |-> opened, entries |-> listed, closing |-> closed]

\* What a statement that ends now has missed: the entries from before its period that were
\* committed since its opening balance was read, and those of its period since they were
\* listed.
Missed(from, to, opened, listed) ==
    {i \in View(ledger, to) :
        IF ledger[i].date < from THEN i \in Since(opened) ELSE i \in Since(listed)}

\* A statement that ends now, whatever was committed between its queries, is out by exactly
\* what it missed: it adds up when nothing came in between. The figure it closes on is the
\* one the next period opens on, but for what has since been backdated. No query sees what
\* a request has not committed, so it is enough to ask when none is under way.
StatementsReconcile ==
    kind = "customer" /\ (\A w \in Workers : tx[w] = Idle) =>
        /\ \A from \in Days : \A to \in from..LastDay :
             \A listed \in 1..Len(past) : \A opened \in 1..listed :
                LET period == Statement(from, to, Met(opened, listed, Len(past)))
                IN  period.opening + Total(past[listed], period.entries)
                        = period.closing - Total(ledger, Missed(from, to, opened, listed))
        /\ \A to \in 1..(LastDay - 1) : \A closed \in 1..Len(past) :
                LET period == Statement(to, to, Met(closed, closed, closed))
                    next == Statement(to + 1, to + 1, Met(Len(past), Len(past), Len(past)))
                IN  period.closing = next.opening - Total(ledger, View(ledger, to) \cap Since(closed))

\* Money goes to the oldest debt: credit stays on account only when nothing is open,
\* and a debt that is paid in part or in full has no older debt open before it.
OldestDebtFirst ==
    \A asOf \in Days :
        LET order == InOrder(ledger)
            due == Due(ledger, order, Policy, Live(ledger, order, View(ledger, asOf), Policy))
            pos == Settled(order, due)
        IN  /\ pos.pool > 0 => OpenItems(pos) = {}
            /\ \A i, j \in 1..Len(ledger) :
                  Earlier(ledger, i, j) /\ pos.left[j] < due.left[j] => i \notin OpenItems(pos)

\* The entries of one payment: itself and its reversal.
Pair(n) == {i \in 1..Len(ledger) : ledger[i].doc = <<"PAYMENT", n>>}

\* A reversal restores the position: from the day both the payment and its reversal
\* are in view, the documents open, and their dates, are those of a ledger in which
\* neither was ever written.
ReversalRestores ==
    \A n \in 1..Len(payments) : payments[n].reversed =>
        \A asOf \in Days :
            Pair(n) \subseteq View(ledger, asOf) =>
                Position(asOf) = Walk(ledger, InOrder(ledger), View(ledger, asOf) \ Pair(n), Policy)

\* What the payment rows say was collected (collected_total, which knows nothing of the
\* ledger) is what the ledger took off the party's balance for payments.
CollectedIsBooked ==
    Collected = -Total(ledger, {i \in 1..Len(ledger) : ledger[i].doc[1] = "PAYMENT"})

\* The entries of one type for a payment.
EntriesOf(n, type) ==
    {i \in 1..Len(ledger) : ledger[i].doc = <<"PAYMENT", n>> /\ ledger[i].type = type}
WrittenOnce(n, type, amount) ==
    \E i \in 1..Len(ledger) : EntriesOf(n, type) = {i} /\ ledger[i].amount = amount

\* However requests are retried and raced, a key pays once, a payment is reversed
\* once, the party is opened once, and the ledger holds the entries of the payments
\* that exist and no others.
RecordedOnce ==
    /\ \A i, j \in Openings : i = j
    /\ \A m, n \in 1..Len(payments) :
           m # n => payments[m].req.key = NoKey \/ payments[m].req.key # payments[n].req.key
    /\ \A n \in 1..Len(payments) :
           LET amount == payments[n].req.amount
           IN  /\ WrittenOnce(n, "PAYMENT", -amount)
               /\ payments[n].reversed => WrittenOnce(n, "ADJUSTMENT", amount)
               /\ ~payments[n].reversed => EntriesOf(n, "ADJUSTMENT") = {}
    /\ \A i \in 1..Len(ledger) :
           ledger[i].type = "PAYMENT" => \E n \in 1..Len(payments) : ledger[i].doc = <<"PAYMENT", n>>

\* The owner who is told that a supplier payment is recorded has that payment, to the
\* field: no answer ever stands for a payment with another amount or date.
SupplierAnswersHold ==
    \A req \in told : \E n \in 1..Len(payments) : payments[n].req = req
===============================================================================
