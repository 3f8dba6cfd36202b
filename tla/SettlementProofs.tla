--------------------------- MODULE SettlementProofs ---------------------------
(****************************************************************************)
(* Proofs about Settlement, for any workers, keys, amounts and days: who    *)
(* writes what, and how often, by an inductive invariant; and from it, with *)
(* LedgerWalkProofs, what positions, statements and totals come to. The     *)
(* last part is about OpeningLoad, for any files, parties and invocations.  *)
(****************************************************************************)
EXTENDS Settlement, OpeningLoad, LedgerWalkProofs

\* The types of what the services read and write.
Types ==
    /\ kind \in {"customer", "supplier"}
    /\ today \in Days
    /\ ledger \in Seq(Entries)
    /\ \A i \in 1..Len(ledger) : SignAgrees(ledger[i].type, ledger[i].amount)
    /\ payments \in Payments
    /\ told \subseteq Requests
    /\ tx \in [Workers -> Transactions]

\* A payment's document is used by its own entries only, and an invoice's by its kind.
DocInv ==
    \A i \in 1..Len(ledger) :
        /\ \A n \in Nat : ledger[i].doc = <<"PAYMENT", n>> =>
              n \in 1..Len(payments) /\ ledger[i].type \in {"PAYMENT", "ADJUSTMENT"}
        /\ ledger[i].type = "INVOICE" => ledger[i].doc[1] = "INVOICE"

\* A reversal under way has the payment's row lock, and found it not yet reversed.
LockInv ==
    \A v \in Workers : tx[v].op = "reverse" =>
        /\ tx[v].payment \in 1..Len(payments) /\ ~payments[tx[v].payment].reversed
        /\ \A w \in Workers : tx[w].op = "reverse" /\ tx[w].payment = tx[v].payment => w = v

\* Only a supplier payment's answer is kept.
ToldInv == kind = "customer" => told = {}

\* The inductive invariant.
IInv == Types /\ DocInv /\ LockInv /\ ToldInv /\ RecordedOnce /\ SupplierAnswersHold

----------------------------------------------------------------------------
(* The ledger grows at its end                                              *)

\* An entry that record_entry would write.
NewEntry(type, amount, date, doc, reduces) ==
    [date |-> date, type |-> type, amount |-> amount, doc |-> doc, reduces |-> reduces]

\* record_entry: one entry more, typed, and those before it as they were.
LEMMA RecordEntryFacts ==
    ASSUME Types, NEW type \in EntryTypes, NEW amount \in Int, NEW date \in Days,
           NEW doc \in Docs, NEW reduces \in Docs,
           RecordEntry(type, amount, date, doc, reduces), kind' = kind
    PROVE  /\ Len(ledger') = Len(ledger) + 1
           /\ \A i \in 1..Len(ledger) : ledger'[i] = ledger[i]
           /\ ledger'[Len(ledger) + 1].type = type /\ ledger'[Len(ledger) + 1].doc = doc
           /\ ledger'[Len(ledger) + 1].amount = amount
           /\ ledger' \in Seq(Entries')
           /\ \A i \in 1..Len(ledger') : SignAgrees(ledger[i].type, ledger[i].amount)'
  <1> DEFINE e == NewEntry(type, amount, date, doc, reduces)
  <1>1. e \in Entries /\ e.type = type /\ e.doc = doc /\ e.amount = amount
    BY DEF NewEntry, Entries, Types
  <1>2. ledger' = Append(ledger, e) /\ SignAgrees(type, amount)
    BY DEF RecordEntry, NewEntry
  <1> HIDE DEF e
  <1>3. ledger \in Seq(Entries)
    BY DEF Types
  <1>4. /\ ledger' \in Seq(Entries) /\ Len(ledger') = Len(ledger) + 1 /\ Len(ledger) \in Nat
        /\ \A i \in 1..Len(ledger) : ledger'[i] = ledger[i]
        /\ ledger'[Len(ledger) + 1] = e
    BY <1>1, <1>2, <1>3
  <1>5. Entries' = Entries
    BY DEF Entries, EntryTypes
  <1>6. \A i \in 1..Len(ledger') : SignAgrees(ledger'[i].type, ledger'[i].amount)
    BY <1>1, <1>2, <1>4 DEF Types
  <1>7. \A i \in 1..Len(ledger') : SignAgrees(ledger[i].type, ledger[i].amount)'
    BY <1>6 DEF SignAgrees
  <1>8. ledger' \in Seq(Entries')
    BY <1>4, <1>5
  <1> QED BY <1>1, <1>4, <1>6, <1>7, <1>8

\* The entries of a payment after one more entry.
LEMMA EntriesOfGrow ==
    ASSUME Types, Len(ledger') = Len(ledger) + 1,
           \A i \in 1..Len(ledger) : ledger'[i] = ledger[i],
           NEW n \in Nat, NEW type
    PROVE  LET last == ledger'[Len(ledger) + 1]
               mine == last.doc = <<"PAYMENT", n>> /\ last.type = type
           IN  /\ mine => EntriesOf(n, type)' = EntriesOf(n, type) \cup {Len(ledger) + 1}
               /\ ~mine => EntriesOf(n, type)' = EntriesOf(n, type)
  <1>1. Len(ledger) \in Nat /\ 1..Len(ledger') = 1..Len(ledger) \cup {Len(ledger) + 1}
    BY DEF Types
  <1> QED BY <1>1 DEF EntriesOf

\* What was written once stays written once when another entry is added.
LEMMA WrittenKept ==
    ASSUME Types, Len(ledger') = Len(ledger) + 1,
           \A i \in 1..Len(ledger) : ledger'[i] = ledger[i],
           NEW n \in Nat, NEW type, NEW amount, WrittenOnce(n, type, amount),
           ~(ledger'[Len(ledger) + 1].doc = <<"PAYMENT", n>> /\ ledger'[Len(ledger) + 1].type = type)
    PROVE  WrittenOnce(n, type, amount)'
  <1>1. EntriesOf(n, type)' = EntriesOf(n, type)
    BY EntriesOfGrow
  <1>2. PICK i \in 1..Len(ledger) : EntriesOf(n, type) = {i} /\ ledger[i].amount = amount
    BY DEF WrittenOnce
  <1>3. i \in 1..Len(ledger') /\ ledger'[i].amount = amount
    BY <1>2 DEF Types
  <1> QED BY <1>1, <1>2, <1>3 DEF WrittenOnce

\* A first entry of its type for a payment is written once.
LEMMA WrittenNew ==
    ASSUME Types, Len(ledger') = Len(ledger) + 1,
           \A i \in 1..Len(ledger) : ledger'[i] = ledger[i],
           NEW n \in Nat, NEW type, NEW amount, EntriesOf(n, type) = {},
           ledger'[Len(ledger) + 1].doc = <<"PAYMENT", n>>, ledger'[Len(ledger) + 1].type = type,
           ledger'[Len(ledger) + 1].amount = amount
    PROVE  WrittenOnce(n, type, amount)'
  <1>1. EntriesOf(n, type)' = {Len(ledger) + 1}
    BY EntriesOfGrow
  <1>2. Len(ledger) + 1 \in 1..Len(ledger')
    BY DEF Types
  <1> QED BY <1>1, <1>2 DEF WrittenOnce

----------------------------------------------------------------------------
(* Every action keeps the inductive invariant                               *)

\* What is recorded depends on the ledger and on the payments only.
LEMMA SameRecords ==
    ASSUME RecordedOnce, UNCHANGED <<ledger, payments>>
    PROVE  RecordedOnce'
  <1>2. Openings' = Openings
    BY DEF Openings
  <1>3. ASSUME NEW n \in 1..Len(payments)
        PROVE  LET a == payments[n].req.amount
               IN  /\ WrittenOnce(n, "PAYMENT", -a)'
                   /\ payments[n].reversed => WrittenOnce(n, "ADJUSTMENT", a)'
                   /\ ~payments[n].reversed => EntriesOf(n, "ADJUSTMENT")' = {}
    <2>1. \A type : EntriesOf(n, type)' = EntriesOf(n, type)
      BY DEF EntriesOf
    <2>2. PICK a : a = payments[n].req.amount
      OBVIOUS
    <2>3. PICK b : b = -a
      OBVIOUS
    <2>4. /\ WrittenOnce(n, "PAYMENT", b)
          /\ payments[n].reversed => WrittenOnce(n, "ADJUSTMENT", a)
          /\ ~payments[n].reversed => EntriesOf(n, "ADJUSTMENT") = {}
      BY <2>2, <2>3 DEF RecordedOnce
    <2>5. WrittenOnce(n, "PAYMENT", b)'
      BY <2>1, <2>4 DEF WrittenOnce
    <2>6. payments[n].reversed => WrittenOnce(n, "ADJUSTMENT", a)'
      BY <2>1, <2>4 DEF WrittenOnce
    <2> QED BY <2>1, <2>2, <2>3, <2>4, <2>5, <2>6 DEF WrittenOnce
  <1> QED BY <1>2, <1>3 DEF RecordedOnce, WrittenOnce

\* A transaction that has written nothing yet, or nothing at all.
LEMMA QuietKeeps ==
    ASSUME IInv, UNCHANGED <<kind, ledger, payments, told>>, today' \in Days,
           tx' \in [Workers -> Transactions], LockInv'
    PROVE  IInv'
  <1>1. Types'
    BY DEF IInv, Types, Entries, EntryTypes, SignAgrees
  <1>2. DocInv' /\ ToldInv'
    BY DEF IInv, DocInv, ToldInv
  <1>3. RecordedOnce'
    BY SameRecords DEF IInv
  <1>4. SupplierAnswersHold'
    BY DEF IInv, SupplierAnswersHold
  <1> QED BY <1>1, <1>2, <1>3, <1>4 DEF IInv

\* A worker that ends its transaction leaves the locks of the others as they were.
LEMMA EndKeepsLocks ==
    ASSUME IInv, NEW w \in Workers, tx' = [tx EXCEPT ![w] = Idle],
           \A v \in Workers : v # w /\ tx[v].op = "reverse" =>
               /\ tx[v].payment \in 1..Len(payments')
               /\ ~payments'[tx[v].payment].reversed
    PROVE  tx' \in [Workers -> Transactions] /\ LockInv'
  <1>1. tx' \in [Workers -> Transactions] /\ tx'[w] = Idle /\ \A v \in Workers : v # w => tx'[v] = tx[v]
    BY DEF IInv, Types, Transactions
  <1>2. Idle.op # "reverse"
    BY DEF Idle
  <1> QED BY <1>1, <1>2 DEF IInv, LockInv

\* An entry that has nothing to do with a payment: documents, notes, cancellations,
\* write-offs and openings.
LEMMA ForeignKeeps ==
    ASSUME IInv, NEW type \in EntryTypes, NEW amount \in Int, NEW date \in Days,
           NEW doc \in Docs, NEW reduces \in Docs,
           RecordEntry(type, amount, date, doc, reduces),
           \A n \in Nat : doc # <<"PAYMENT", n>>, type # "PAYMENT",
           type = "INVOICE" => doc[1] = "INVOICE", type = "OPENING" => Openings = {},
           UNCHANGED <<kind, today, payments, told>>,
           tx' \in [Workers -> Transactions], LockInv'
    PROVE  IInv'
  <1>1. /\ Len(ledger) \in Nat /\ Len(ledger') = Len(ledger) + 1
        /\ \A i \in 1..Len(ledger) : ledger'[i] = ledger[i]
        /\ ledger'[Len(ledger) + 1].type = type /\ ledger'[Len(ledger) + 1].doc = doc
    BY RecordEntryFacts DEF IInv, Types
  <1>2. \A i \in 1..Len(ledger') : i \in 1..Len(ledger) \/ i = Len(ledger) + 1
    BY <1>1
  <1>3. Types'
    BY RecordEntryFacts DEF IInv, Types
  <1>4. DocInv' /\ ToldInv'
    BY <1>1, <1>2 DEF IInv, DocInv, ToldInv
  <1>5. RecordedOnce'
    <2>1. \A i, j \in Openings' : i = j
      <3>1. \A i, j \in Openings : i = j
        BY DEF IInv, RecordedOnce
      <3>2. CASE type = "OPENING"
        <4>1. \A i \in Openings' : i = Len(ledger) + 1
          BY <1>1, <1>2, <3>2 DEF Openings
        <4> QED BY <4>1
      <3>3. CASE type # "OPENING"
        <4>1. Openings' \subseteq Openings
          BY <1>1, <1>2, <3>3 DEF Openings
        <4> QED BY <3>1, <4>1
      <3> QED BY <3>2, <3>3
    <2>2. ASSUME NEW n \in 1..Len(payments)
          PROVE  LET a == payments[n].req.amount
                 IN  /\ WrittenOnce(n, "PAYMENT", -a)'
                     /\ payments[n].reversed => WrittenOnce(n, "ADJUSTMENT", a)'
                     /\ ~payments[n].reversed => EntriesOf(n, "ADJUSTMENT")' = {}
      <3>1. n \in Nat /\ Types
        BY DEF IInv, Types
      <3>2. PICK a : a = payments[n].req.amount
        OBVIOUS
      <3>3. PICK b : b = -a
        OBVIOUS
      <3>4. /\ WrittenOnce(n, "PAYMENT", b)
            /\ payments[n].reversed => WrittenOnce(n, "ADJUSTMENT", a)
            /\ ~payments[n].reversed => EntriesOf(n, "ADJUSTMENT") = {}
        BY <3>2, <3>3 DEF IInv, RecordedOnce
      <3>5. WrittenOnce(n, "PAYMENT", b)'
        BY <1>1, <3>1, <3>4, WrittenKept
      <3>6. payments[n].reversed => WrittenOnce(n, "ADJUSTMENT", a)'
        BY <1>1, <3>1, <3>4, WrittenKept
      <3>7. ~payments[n].reversed => EntriesOf(n, "ADJUSTMENT")' = {}
        BY <1>1, <3>1, <3>4, EntriesOfGrow
      <3> QED BY <3>2, <3>3, <3>5, <3>6, <3>7 DEF WrittenOnce
    <2>3. \A i \in 1..Len(ledger') : ledger'[i].type = "PAYMENT" =>
              \E n \in 1..Len(payments) : ledger'[i].doc = <<"PAYMENT", n>>
      BY <1>1, <1>2 DEF IInv, RecordedOnce
    <2> QED BY <2>1, <2>2, <2>3 DEF IInv, RecordedOnce, WrittenOnce
  <1>6. SupplierAnswersHold'
    BY DEF IInv, SupplierAnswersHold
  <1> QED BY <1>3, <1>4, <1>5, <1>6 DEF IInv

----------------------------------------------------------------------------
(* The entries that are not a payment's                                     *)

\* A service that is one step leaves every worker's transaction alone.
LEMMA SameLocks ==
    ASSUME IInv, UNCHANGED <<payments, tx>>
    PROVE  tx' \in [Workers -> Transactions] /\ LockInv'
  BY DEF IInv, Types, LockInv

\* The invoice a note or a cancellation refers to has its entry, with an amount.
LEMMA InvoiceFacts ==
    ASSUME IInv, NEW invoice \in Invoices
    PROVE  invoice \in Docs /\ invoice[1] = "INVOICE" /\ EntryFor(invoice).amount \in Int
  <1>1. PICK i \in 1..Len(ledger) : ledger[i].type = "INVOICE" /\ ledger[i].doc = invoice
    BY DEF Invoices
  <1>2. ledger \in Seq(Entries)
    BY DEF IInv, Types
  <1>3. ledger[i] \in Entries
    BY <1>2
  <1>4. invoice \in Docs /\ invoice[1] = "INVOICE"
    BY <1>1, <1>3 DEF IInv, DocInv, Entries
  <1>5. \E j \in 1..Len(ledger) : ledger[j].doc = invoice /\ ledger[j].type = invoice[1]
    BY <1>1, <1>4
  <1>6. PICK j \in 1..Len(ledger) : EntryFor(invoice) = ledger[j]
    BY <1>5 DEF EntryFor
  <1>7. ledger[j] \in Entries
    BY <1>2
  <1> QED BY <1>4, <1>6, <1>7 DEF Entries

\* A pair of strings and numbers that is not a payment's document.
LEMMA NotAPayment ==
    ASSUME NEW doc, doc[1] # "PAYMENT"
    PROVE  \A n \in Nat : doc # <<"PAYMENT", n>>
  OBVIOUS

\* The number the next document gets.
LEMMA NewDocFacts ==
    ASSUME Types, NEW type \in {"INVOICE", "GOODS_RECEIPT", "CREDIT_NOTE"}
    PROVE  NewDoc(type) \in Docs /\ NewDoc(type)[1] = type /\ NoDoc \in Docs /\ NoDoc[1] = ""
  <1>1. Len(ledger) + 1 \in Nat
    BY DEF Types
  <1>2. NewDoc(type) = <<type, Len(ledger) + 1>>
    BY DEF NewDoc
  <1>3. NewDoc(type) \in {"INVOICE", "GOODS_RECEIPT", "CREDIT_NOTE", "PAYMENT"} \X Nat
    BY <1>1, <1>2
  <1>4. NoDoc[1] = ""
    BY DEF NoDoc
  <1>5. NewDoc(type)[1] = type
    BY <1>2
  <1>6. NewDoc(type) \in Docs /\ NoDoc \in Docs
    BY <1>3 DEF Docs
  <1> QED BY <1>4, <1>5, <1>6

LEMMA RaiseDocumentKeeps ==
    ASSUME IInv, NEW amount \in DocAmounts, NEW date \in Days, RaiseDocument(amount, date)
    PROVE  IInv'
  <1>1. PICK type : type = IF kind = "customer" THEN "INVOICE" ELSE "GOODS_RECEIPT"
    OBVIOUS
  <1>2. type \in EntryTypes /\ type \in {"INVOICE", "GOODS_RECEIPT", "CREDIT_NOTE"}
    BY <1>1 DEF EntryTypes, CustomerTypes, SupplierTypes, IInv, Types
  <1>3. PICK doc : doc = NewDoc(type)
    OBVIOUS
  <1>4. Types
    BY DEF IInv
  <1>5. doc \in Docs /\ doc[1] = type /\ NoDoc \in Docs
    BY <1>2, <1>3, <1>4, NewDocFacts
  <1>6. RecordEntry(type, amount, date, doc, NoDoc) /\ UNCHANGED <<kind, today, payments, told, tx>>
    BY <1>1, <1>3 DEF RaiseDocument
  <1>7. amount \in Int
    BY SettlementAssumption
  <1>8. \A n \in Nat : doc # <<"PAYMENT", n>>
    BY <1>2, <1>5, NotAPayment
  <1>9. tx' \in [Workers -> Transactions] /\ LockInv'
    BY <1>6, SameLocks
  <1> QED BY <1>2, <1>5, <1>6, <1>7, <1>8, <1>9, ForeignKeeps

LEMMA IssueCreditNoteKeeps ==
    ASSUME IInv, NEW invoice \in Invoices, NEW amount \in PayAmounts, NEW date \in Days,
           IssueCreditNote(invoice, amount, date)
    PROVE  IInv'
  <1>1. PICK doc : doc = NewDoc("CREDIT_NOTE")
    OBVIOUS
  <1>2. PICK note : note = -amount
    OBVIOUS
  <1>3. PICK inv : inv = invoice
    OBVIOUS
  <1>4. Types
    BY DEF IInv
  <1>5. doc \in Docs /\ doc[1] = "CREDIT_NOTE"
    BY <1>1, <1>4, NewDocFacts
  <1>6. inv \in Docs /\ note \in Int
    BY <1>2, <1>3, InvoiceFacts, SettlementAssumption
  <1>7. RecordEntry("CREDIT_NOTE", note, date, doc, inv) /\ UNCHANGED <<kind, today, payments, told, tx>>
    BY <1>1, <1>2, <1>3 DEF IssueCreditNote
  <1>8. \A n \in Nat : doc # <<"PAYMENT", n>>
    BY <1>5, NotAPayment
  <1>9. "CREDIT_NOTE" \in EntryTypes
    BY DEF IssueCreditNote, EntryTypes, CustomerTypes
  <1>10. tx' \in [Workers -> Transactions] /\ LockInv'
    BY <1>7, SameLocks
  <1> QED BY <1>5, <1>6, <1>7, <1>8, <1>9, <1>10, ForeignKeeps

LEMMA CancelInvoiceKeeps ==
    ASSUME IInv, NEW invoice \in Invoices, CancelInvoice(invoice)
    PROVE  IInv'
  <1>1. PICK amount : amount = -EntryFor(invoice).amount
    OBVIOUS
  <1>2. PICK inv : inv = invoice
    OBVIOUS
  <1>3. PICK date : date = today
    OBVIOUS
  <1>4. inv \in Docs /\ inv[1] = "INVOICE" /\ amount \in Int
    BY <1>1, <1>2, InvoiceFacts
  <1>5. date \in Days /\ NoDoc \in Docs
    BY <1>3 DEF IInv, Types, Docs
  <1>6. RecordEntry("ADJUSTMENT", amount, date, inv, NoDoc) /\ UNCHANGED <<kind, today, payments, told, tx>>
    BY <1>1, <1>2, <1>3 DEF CancelInvoice
  <1>7. \A n \in Nat : inv # <<"PAYMENT", n>>
    BY <1>4, NotAPayment
  <1>8. "ADJUSTMENT" \in EntryTypes
    BY DEF CancelInvoice, EntryTypes, CustomerTypes
  <1>9. tx' \in [Workers -> Transactions] /\ LockInv'
    BY <1>6, SameLocks
  <1> QED BY <1>4, <1>5, <1>6, <1>7, <1>8, <1>9, ForeignKeeps

LEMMA WriteOffKeeps ==
    ASSUME IInv, NEW amount \in PayAmounts, NEW date \in Days, WriteOff(amount, date)
    PROVE  IInv'
  <1>1. PICK less : less = -amount
    OBVIOUS
  <1>2. less \in Int /\ NoDoc \in Docs /\ NoDoc[1] = ""
    BY <1>1, SettlementAssumption DEF Docs, NoDoc
  <1>3. RecordEntry("WRITE_OFF", less, date, NoDoc, NoDoc) /\ UNCHANGED <<kind, today, payments, told, tx>>
    BY <1>1 DEF WriteOff
  <1>4. \A n \in Nat : NoDoc # <<"PAYMENT", n>>
    BY <1>2, NotAPayment
  <1>5. "WRITE_OFF" \in EntryTypes
    BY DEF WriteOff, EntryTypes, CustomerTypes
  <1>6. tx' \in [Workers -> Transactions] /\ LockInv'
    BY <1>3, SameLocks
  <1> QED BY <1>2, <1>3, <1>4, <1>5, <1>6, ForeignKeeps

\* A worker that ends without touching a payment.
LEMMA EndQuietly ==
    ASSUME IInv, NEW w \in Workers, tx' = [tx EXCEPT ![w] = Idle], payments' = payments
    PROVE  tx' \in [Workers -> Transactions] /\ LockInv'
  BY EndKeepsLocks DEF IInv, LockInv

LEMMA OpeningInsertKeeps ==
    ASSUME IInv, NEW w \in Workers, OpeningInsert(w)
    PROVE  IInv'
  <1>1. tx' \in [Workers -> Transactions] /\ LockInv'
    BY EndQuietly DEF OpeningInsert
  <1>2. PICK t : t = tx[w]
    OBVIOUS
  <1>3. t \in Transactions /\ t.op = "open"
    BY <1>2 DEF IInv, Types, OpeningInsert
  <1>4. t.amount \in Int /\ t.date \in Days
    BY <1>3 DEF Transactions, Idle
  <1>5. CASE Openings = {} /\ RecordEntry("OPENING", tx[w].amount, tx[w].date, NoDoc, NoDoc)
    <2>1. PICK amount : amount = t.amount
      OBVIOUS
    <2>2. PICK date : date = t.date
      OBVIOUS
    <2>3. amount \in Int /\ date \in Days /\ NoDoc \in Docs /\ NoDoc[1] = ""
      BY <1>4, <2>1, <2>2 DEF Docs, NoDoc
    <2>4. RecordEntry("OPENING", amount, date, NoDoc, NoDoc)
      BY <1>2, <1>5, <2>1, <2>2
    <2>5. \A n \in Nat : NoDoc # <<"PAYMENT", n>>
      BY <2>3, NotAPayment
    <2>6. "OPENING" \in EntryTypes
      BY DEF IInv, Types, EntryTypes, CustomerTypes, SupplierTypes
    <2>7. UNCHANGED <<kind, today, payments, told>>
      BY DEF OpeningInsert
    <2> QED BY <1>1, <1>5, <2>3, <2>4, <2>5, <2>6, <2>7, ForeignKeeps
  <1>6. CASE UNCHANGED ledger
    BY <1>1, <1>6, QuietKeeps DEF OpeningInsert, IInv, Types
  <1> QED BY <1>5, <1>6 DEF OpeningInsert

----------------------------------------------------------------------------
(* Payments and reversals                                                   *)

\* A worker takes up work that holds no row lock.
LEMMA StartUnlocked ==
    ASSUME IInv, NEW w \in Workers, NEW t \in Transactions, t.op # "reverse",
           tx' = [tx EXCEPT ![w] = t], payments' = payments
    PROVE  tx' \in [Workers -> Transactions] /\ LockInv'
  <1>1. tx' \in [Workers -> Transactions] /\ tx'[w] = t /\ \A v \in Workers : v # w => tx'[v] = tx[v]
    BY DEF IInv, Types
  <1> QED BY <1>1 DEF IInv, LockInv

\* A replay's answer stands for the row it found.
LEMMA ReplayKeeps ==
    ASSUME IInv, NEW req \in Requests, Replay(req), tx' \in [Workers -> Transactions], LockInv'
    PROVE  IInv'
  <1>1. UNCHANGED <<kind, today, ledger, payments>>
    BY DEF Replay
  <1>2. CASE told' = told
    BY <1>1, <1>2, QuietKeeps DEF IInv, Types
  <1>3. CASE told' # told
    <2>1. kind = "supplier" /\ told' = told \cup {req}
      BY <1>3 DEF Replay, Answer
    <2>2. PICK n \in 1..Len(payments) : payments[n].req = req
      BY <1>3, <2>1 DEF Replay, ReplayAccepted, SameKey
    <2>3. Types'
      BY <1>1, <2>1 DEF IInv, Types, Entries, EntryTypes, SignAgrees
    <2>4. DocInv' /\ ToldInv'
      BY <1>1, <2>1 DEF IInv, DocInv, ToldInv
    <2>5. SupplierAnswersHold'
      BY <1>1, <2>1, <2>2 DEF IInv, SupplierAnswersHold
    <2>6. RecordedOnce'
      BY <1>1, SameRecords DEF IInv
    <2> QED BY <2>3, <2>4, <2>5, <2>6 DEF IInv
  <1> QED BY <1>2, <1>3

LEMMA PaymentCheckKeeps ==
    ASSUME IInv, NEW w \in Workers, NEW req \in Requests, PaymentCheck(w, req)
    PROVE  IInv'
  <1>1. CASE Replay(req) /\ UNCHANGED tx
    <2>1. UNCHANGED <<payments, tx>>
      BY <1>1 DEF Replay
    <2> QED BY <1>1, <2>1, SameLocks, ReplayKeeps
  <1>2. CASE /\ tx' = [tx EXCEPT ![w] = [op |-> "pay", req |-> req]]
             /\ UNCHANGED <<kind, today, ledger, payments, told>>
    <2>1. PICK t : t = [op |-> "pay", req |-> req]
      OBVIOUS
    <2>2. t \in Transactions /\ t.op # "reverse"
      BY <2>1 DEF Transactions
    <2>3. tx' \in [Workers -> Transactions] /\ LockInv'
      BY <1>2, <2>1, <2>2, StartUnlocked
    <2>4. today' \in Days
      BY <1>2 DEF IInv, Types
    <2> QED BY <1>2, <2>3, <2>4, QuietKeeps
  <1> QED BY <1>1, <1>2 DEF PaymentCheck

\* The row and its entry: the key is new, and so is the document.
LEMMA RecordPaymentKeeps ==
    ASSUME IInv, NEW req \in Requests, SameKey(req) = {}, RecordPayment(req),
           tx' \in [Workers -> Transactions], LockInv'
    PROVE  IInv'
  <1>1. PICK new : new = Len(payments) + 1
    OBVIOUS
  <1>2. PICK doc : doc = <<"PAYMENT", new>>
    OBVIOUS
  <1>3. PICK amount : amount = -req.amount
    OBVIOUS
  <1>4. PICK date : date = req.date
    OBVIOUS
  <1>5. /\ Len(payments) \in Nat /\ Len(payments') = new /\ new \in Nat
        /\ \A n \in 1..Len(payments) : payments'[n] = payments[n]
        /\ payments'[new] = [req |-> req, reversed |-> FALSE] /\ payments' \in Payments
    BY <1>1 DEF IInv, Types, Payments, RecordPayment
  <1>6. \A n \in 1..Len(payments') : n \in 1..Len(payments) \/ n = new
    BY <1>1, <1>5
  <1>7. doc \in Docs /\ amount \in Int /\ date \in Days /\ "PAYMENT" \in EntryTypes /\ NoDoc \in Docs
    <2>1. req.amount \in PayAmounts /\ req.date \in Days
      BY DEF Requests
    <2>2. amount \in Int /\ date \in Days
      BY <1>3, <1>4, <2>1, SettlementAssumption
    <2>3. doc \in {"INVOICE", "GOODS_RECEIPT", "CREDIT_NOTE", "PAYMENT"} \X Nat
      BY <1>2, <1>5
    <2>4. "PAYMENT" \in EntryTypes
      BY DEF EntryTypes, CustomerTypes, SupplierTypes
    <2> QED BY <2>2, <2>3, <2>4 DEF Docs
  <1>8. /\ RecordEntry("PAYMENT", amount, date, doc, NoDoc) /\ Answer(req)
        /\ kind' = kind /\ today' = today /\ Types
    BY <1>1, <1>2, <1>3, <1>4 DEF RecordPayment, IInv
  <1>9. /\ Len(ledger) \in Nat /\ Len(ledger') = Len(ledger) + 1
        /\ \A i \in 1..Len(ledger) : ledger'[i] = ledger[i]
        /\ ledger'[Len(ledger) + 1].type = "PAYMENT" /\ ledger'[Len(ledger) + 1].doc = doc
        /\ ledger'[Len(ledger) + 1].amount = amount
    BY <1>7, <1>8, RecordEntryFacts DEF Types
  <1>10. \A i \in 1..Len(ledger') : i \in 1..Len(ledger) \/ i = Len(ledger) + 1
    BY <1>9
  <1>11. Types'
    <2>1. told' \subseteq Requests
      BY <1>8 DEF Types, Answer
    <2> QED BY <1>5, <1>7, <1>8, <2>1, RecordEntryFacts DEF Types
  <1>12. DocInv'
    <2>1. \A n \in Nat : doc = <<"PAYMENT", n>> => n = new
      BY <1>2
    <2>2. \A n \in 1..Len(payments) : n \in 1..Len(payments')
      BY <1>1, <1>5
    <2>3. new \in 1..Len(payments')
      BY <1>1, <1>5
    <2> QED BY <1>9, <1>10, <2>1, <2>2, <2>3 DEF IInv, DocInv
  <1>13. ToldInv' /\ SupplierAnswersHold'
    <2>1. ToldInv'
      BY <1>8 DEF IInv, ToldInv, Answer
    <2>2. new \in 1..Len(payments') /\ payments'[new].req = req
      BY <1>1, <1>5
    <2>3. \A n \in 1..Len(payments) : n \in 1..Len(payments') /\ payments'[n].req = payments[n].req
      BY <1>1, <1>5
    <2>4. told' \subseteq told \cup {req}
      BY <1>8 DEF Answer
    <2> QED BY <2>1, <2>2, <2>3, <2>4 DEF IInv, SupplierAnswersHold
  <1>14. RecordedOnce'
    <2>1. \A i, j \in Openings' : i = j
      BY <1>9, <1>10 DEF IInv, RecordedOnce, Openings
    <2>2. \A m, n \in 1..Len(payments') :
              m # n => payments'[m].req.key = NoKey \/ payments'[m].req.key # payments'[n].req.key
      BY <1>5, <1>6 DEF IInv, RecordedOnce, SameKey
    <2>3. ASSUME NEW n \in 1..Len(payments')
          PROVE  (LET a == payments[n].req.amount
                  IN  /\ WrittenOnce(n, "PAYMENT", -a)
                      /\ payments[n].reversed => WrittenOnce(n, "ADJUSTMENT", a)
                      /\ ~payments[n].reversed => EntriesOf(n, "ADJUSTMENT") = {})'
      <3>1. CASE n \in 1..Len(payments)
        <4>1. n \in Nat /\ n # new /\ payments'[n] = payments[n]
          BY <1>1, <1>5, <3>1
        <4>2. doc # <<"PAYMENT", n>>
          BY <1>2, <4>1
        <4>3. PICK a : a = payments[n].req.amount
          OBVIOUS
        <4>4. PICK b : b = -a
          OBVIOUS
        <4>5. /\ WrittenOnce(n, "PAYMENT", b)
              /\ payments[n].reversed => WrittenOnce(n, "ADJUSTMENT", a)
              /\ ~payments[n].reversed => EntriesOf(n, "ADJUSTMENT") = {}
          BY <3>1, <4>3, <4>4 DEF IInv, RecordedOnce
        <4>6. WrittenOnce(n, "PAYMENT", b)'
          BY <1>8, <1>9, <4>1, <4>2, <4>5, WrittenKept
        <4>7. payments[n].reversed => WrittenOnce(n, "ADJUSTMENT", a)'
          BY <1>8, <1>9, <4>1, <4>2, <4>5, WrittenKept
        <4>8. ~payments[n].reversed => EntriesOf(n, "ADJUSTMENT")' = {}
          BY <1>8, <1>9, <4>1, <4>2, <4>5, EntriesOfGrow
        <4> QED BY <4>1, <4>3, <4>4, <4>6, <4>7, <4>8 DEF WrittenOnce
      <3>2. CASE n = new
        <4>1. n \in Nat /\ n \notin 1..Len(payments) /\ ~payments'[n].reversed /\ payments'[n].req = req
          BY <1>1, <1>5, <3>2
        <4>2. EntriesOf(n, "PAYMENT") = {} /\ EntriesOf(n, "ADJUSTMENT") = {}
          BY <4>1 DEF IInv, DocInv, EntriesOf
        <4>3. doc = <<"PAYMENT", n>>
          BY <1>2, <3>2
        <4>4. WrittenOnce(n, "PAYMENT", amount)'
          BY <1>8, <1>9, <4>1, <4>2, <4>3, WrittenNew
        <4>5. EntriesOf(n, "ADJUSTMENT")' = {}
          BY <1>8, <1>9, <4>1, <4>2, EntriesOfGrow
        <4> QED BY <1>3, <4>1, <4>4, <4>5 DEF WrittenOnce
      <3> QED BY <1>6, <3>1, <3>2
    <2>4. \A i \in 1..Len(ledger') : ledger'[i].type = "PAYMENT" =>
              \E n \in 1..Len(payments') : ledger'[i].doc = <<"PAYMENT", n>>
      <3>1. new \in 1..Len(payments') /\ \A n \in 1..Len(payments) : n \in 1..Len(payments')
        BY <1>1, <1>5
      <3> QED BY <1>2, <1>9, <1>10, <3>1 DEF IInv, RecordedOnce
    <2> QED BY <2>1, <2>2, <2>3, <2>4 DEF RecordedOnce, WrittenOnce
  <1> QED BY <1>11, <1>12, <1>13, <1>14 DEF IInv

LEMMA PaymentInsertKeeps ==
    ASSUME IInv, NEW w \in Workers, PaymentInsert(w)
    PROVE  IInv'
  <1>1. PICK req : req = tx[w].req
    OBVIOUS
  <1>2. tx[w] \in Transactions /\ tx[w].op = "pay"
    BY DEF IInv, Types, PaymentInsert
  <1>3. req \in Requests
    BY <1>1, <1>2 DEF Transactions, Idle
  <1>4. tx' = [tx EXCEPT ![w] = Idle]
    BY DEF PaymentInsert
  <1>5. CASE SameKey(req) = {} /\ RecordPayment(req)
    <2>1. \A v \in Workers : v # w /\ tx[v].op = "reverse" =>
              tx[v].payment \in 1..Len(payments') /\ ~payments'[tx[v].payment].reversed
      <3>1. /\ Len(payments) \in Nat /\ Len(payments') = Len(payments) + 1
            /\ \A n \in 1..Len(payments) : payments'[n] = payments[n]
        BY <1>5 DEF IInv, Types, Payments, RecordPayment
      <3> QED BY <3>1 DEF IInv, LockInv
    <2>2. tx' \in [Workers -> Transactions] /\ LockInv'
      BY <1>4, <2>1, EndKeepsLocks
    <2> QED BY <1>3, <1>5, <2>2, RecordPaymentKeeps
  <1>6. CASE Replay(req)
    <2>1. payments' = payments
      BY <1>6 DEF Replay
    <2>2. tx' \in [Workers -> Transactions] /\ LockInv'
      BY <1>4, <2>1, EndQuietly
    <2> QED BY <1>3, <1>6, <2>2, ReplayKeeps
  <1> QED BY <1>1, <1>5, <1>6 DEF PaymentInsert

LEMMA ReverseLockKeeps ==
    ASSUME IInv, NEW w \in Workers, NEW n \in 1..Len(payments), NEW date \in Days,
           ReverseLock(w, n, date)
    PROVE  IInv'
  <1>1. PICK t : t = [op |-> "reverse", payment |-> n, date |-> date]
    OBVIOUS
  <1>2. t \in Transactions /\ t.op = "reverse" /\ t.payment = n
    <2>1. n \in Nat
      BY DEF IInv, Types, Payments
    <2> QED BY <1>1, <2>1 DEF Transactions
  <1>3. /\ tx' \in [Workers -> Transactions] /\ tx'[w] = t
        /\ \A v \in Workers : v # w => tx'[v] = tx[v]
    BY <1>1, <1>2 DEF ReverseLock, IInv, Types
  <1>4. LockInv'
    BY <1>2, <1>3 DEF ReverseLock, PaymentFree, IInv, LockInv
  <1> QED BY <1>3, <1>4, QuietKeeps DEF ReverseLock, IInv, Types

\* The reversal's entry is the first of its kind: its worker holds the lock.
LEMMA ReverseCommitKeeps ==
    ASSUME IInv, NEW w \in Workers, ReverseCommit(w)
    PROVE  IInv'
  <1>1. PICK t : t = tx[w]
    OBVIOUS
  <1>2. PICK m : m = t.payment
    OBVIOUS
  <1>3. PICK doc : doc = <<"PAYMENT", m>>
    OBVIOUS
  <1>4. PICK amount : amount = payments[m].req.amount
    OBVIOUS
  <1>5. PICK date : date = t.date
    OBVIOUS
  <1>6. t \in Transactions /\ t.op = "reverse" /\ Types
    BY <1>1 DEF IInv, Types, ReverseCommit
  <1>7. date \in Days
    BY <1>5, <1>6 DEF Transactions, Idle
  <1>8. m \in 1..Len(payments) /\ ~payments[m].reversed /\ m \in Nat
    BY <1>1, <1>2, <1>6 DEF IInv, LockInv, Types, Payments
  <1>9. payments \in Payments /\ payments[m] \in [req : Requests, reversed : BOOLEAN]
    <2>1. payments \in Payments
      BY <1>6 DEF Types
    <2>2. payments \in Seq([req : Requests, reversed : BOOLEAN])
      BY <2>1 DEF Payments
    <2>3. m \in 1..Len(payments)
      BY <1>8
    <2>4. payments[m] \in [req : Requests, reversed : BOOLEAN]
      BY <2>2, <2>3, ElementOfSeq
    <2> QED BY <2>1, <2>4
  <1>10. amount \in Int
    <2>1. payments[m].req \in Requests
      BY <1>9
    <2>2. payments[m].req.amount \in PayAmounts
      BY <2>1 DEF Requests
    <2>3. PayAmounts \subseteq Int
      BY SettlementAssumption
    <2> QED BY <1>4, <2>2, <2>3
  <1>11. doc \in Docs /\ NoDoc \in Docs /\ "ADJUSTMENT" \in EntryTypes
    <2>1. doc \in {"INVOICE", "GOODS_RECEIPT", "CREDIT_NOTE", "PAYMENT"} \X Nat
      BY <1>3, <1>8
    <2>2. "ADJUSTMENT" \in EntryTypes
      BY DEF EntryTypes, CustomerTypes, SupplierTypes
    <2> QED BY <2>1, <2>2 DEF Docs
  <1>12. /\ RecordEntry("ADJUSTMENT", amount, date, doc, NoDoc)
         /\ payments' = [payments EXCEPT ![m].reversed = TRUE]
         /\ tx' = [tx EXCEPT ![w] = Idle]
         /\ UNCHANGED <<kind, today, told>>
    BY <1>1, <1>2, <1>3, <1>4, <1>5 DEF ReverseCommit
  <1>13. /\ Len(payments') = Len(payments) /\ payments' \in Payments
         /\ \A n \in 1..Len(payments) : payments'[n].req = payments[n].req
         /\ \A n \in 1..Len(payments) : n # m => payments'[n] = payments[n]
         /\ payments'[m].reversed
    <2>1. payments' = [payments EXCEPT ![m] = [payments[m] EXCEPT !.reversed = TRUE]]
      BY <1>12
    <2>2. PICK row : row = [payments[m] EXCEPT !.reversed = TRUE]
      OBVIOUS
    <2>3. row \in [req : Requests, reversed : BOOLEAN] /\ row.req = payments[m].req /\ row.reversed = TRUE
      BY <1>9, <2>2
    <2>4. payments' = [payments EXCEPT ![m] = row]
      BY <2>1, <2>2
    <2>5. /\ Len(payments') = Len(payments) /\ payments' \in Payments /\ payments'[m] = row
          /\ \A n \in 1..Len(payments) : n # m => payments'[n] = payments[n]
      BY <1>8, <1>9, <2>3, <2>4 DEF Payments
    <2> QED BY <2>3, <2>5
  <1>14. /\ Len(ledger) \in Nat /\ Len(ledger') = Len(ledger) + 1
         /\ \A i \in 1..Len(ledger) : ledger'[i] = ledger[i]
         /\ ledger'[Len(ledger) + 1].type = "ADJUSTMENT" /\ ledger'[Len(ledger) + 1].doc = doc
         /\ ledger'[Len(ledger) + 1].amount = amount
    BY <1>6, <1>7, <1>10, <1>11, <1>12, RecordEntryFacts DEF Types
  <1>15. \A i \in 1..Len(ledger') : i \in 1..Len(ledger) \/ i = Len(ledger) + 1
    BY <1>14
  <1>16. tx' \in [Workers -> Transactions] /\ LockInv'
    <2>1. \A v \in Workers : v # w /\ tx[v].op = "reverse" => tx[v].payment # m
      BY <1>1, <1>2, <1>6 DEF IInv, LockInv
    <2>2. \A v \in Workers : v # w /\ tx[v].op = "reverse" =>
              tx[v].payment \in 1..Len(payments') /\ ~payments'[tx[v].payment].reversed
      BY <1>13, <2>1 DEF IInv, LockInv
    <2> QED BY <1>12, <2>2, EndKeepsLocks
  <1>17. Types'
    BY <1>6, <1>7, <1>10, <1>11, <1>12, <1>13, <1>16, RecordEntryFacts DEF Types
  <1>18. DocInv'
    <2>1. \A n \in Nat : doc = <<"PAYMENT", n>> => n = m
      BY <1>3
    <2>2. ASSUME NEW i \in 1..Len(ledger)
          PROVE  /\ \A n \in Nat : ledger'[i].doc = <<"PAYMENT", n>> =>
                       n \in 1..Len(payments') /\ ledger'[i].type \in {"PAYMENT", "ADJUSTMENT"}
                 /\ ledger'[i].type = "INVOICE" => ledger'[i].doc[1] = "INVOICE"
      BY <1>13, <1>14 DEF IInv, DocInv
    <2>3. PICK i : i = Len(ledger) + 1
      OBVIOUS
    <2>4. /\ \A n \in Nat : ledger'[i].doc = <<"PAYMENT", n>> =>
                n \in 1..Len(payments') /\ ledger'[i].type \in {"PAYMENT", "ADJUSTMENT"}
          /\ ledger'[i].type = "INVOICE" => ledger'[i].doc[1] = "INVOICE"
      BY <1>8, <1>13, <1>14, <2>1, <2>3
    <2> QED BY <1>15, <2>2, <2>3, <2>4 DEF DocInv
  <1>19. ToldInv' /\ SupplierAnswersHold'
    BY <1>12, <1>13 DEF IInv, ToldInv, SupplierAnswersHold
  <1>20. RecordedOnce'
    <2>1. \A i, j \in Openings' : i = j
      BY <1>14, <1>15 DEF IInv, RecordedOnce, Openings
    <2>2. \A k, n \in 1..Len(payments') :
              k # n => payments'[k].req.key = NoKey \/ payments'[k].req.key # payments'[n].req.key
      BY <1>13 DEF IInv, RecordedOnce
    <2>3. ASSUME NEW n \in 1..Len(payments')
          PROVE  (LET a == payments[n].req.amount
                  IN  /\ WrittenOnce(n, "PAYMENT", -a)
                      /\ payments[n].reversed => WrittenOnce(n, "ADJUSTMENT", a)
                      /\ ~payments[n].reversed => EntriesOf(n, "ADJUSTMENT") = {})'
      <3>1. n \in 1..Len(payments) /\ n \in Nat /\ payments'[n].req = payments[n].req
        BY <1>6, <1>13 DEF Types, Payments
      <3>2. PICK a : a = payments[n].req.amount
        OBVIOUS
      <3>3. PICK b : b = -a
        OBVIOUS
      <3>4. /\ WrittenOnce(n, "PAYMENT", b)
            /\ payments[n].reversed => WrittenOnce(n, "ADJUSTMENT", a)
            /\ ~payments[n].reversed => EntriesOf(n, "ADJUSTMENT") = {}
        BY <3>1, <3>2, <3>3 DEF IInv, RecordedOnce
      <3>5. WrittenOnce(n, "PAYMENT", b)'
        BY <1>6, <1>14, <3>1, <3>4, WrittenKept
      <3>6. CASE n = m
        <4>1. EntriesOf(n, "ADJUSTMENT") = {} /\ a = amount /\ doc = <<"PAYMENT", n>>
          BY <1>3, <1>4, <1>8, <3>2, <3>4, <3>6
        <4>2. WrittenOnce(n, "ADJUSTMENT", a)'
          BY <1>6, <1>14, <3>1, <4>1, WrittenNew
        <4> QED BY <1>13, <3>1, <3>2, <3>3, <3>5, <3>6, <4>2 DEF WrittenOnce
      <3>7. CASE n # m
        <4>1. payments'[n] = payments[n] /\ doc # <<"PAYMENT", n>>
          BY <1>3, <1>13, <3>1, <3>7
        <4>2. payments[n].reversed => WrittenOnce(n, "ADJUSTMENT", a)'
          BY <1>6, <1>14, <3>1, <3>4, <4>1, WrittenKept
        <4>3. ~payments[n].reversed => EntriesOf(n, "ADJUSTMENT")' = {}
          BY <1>6, <1>14, <3>1, <3>4, <4>1, EntriesOfGrow
        <4> QED BY <3>1, <3>2, <3>3, <3>5, <4>1, <4>2, <4>3 DEF WrittenOnce
      <3> QED BY <3>6, <3>7
    <2>4. \A i \in 1..Len(ledger') : ledger'[i].type = "PAYMENT" =>
              \E n \in 1..Len(payments') : ledger'[i].doc = <<"PAYMENT", n>>
      BY <1>13, <1>14, <1>15 DEF IInv, RecordedOnce
    <2> QED BY <2>1, <2>2, <2>3, <2>4 DEF RecordedOnce, WrittenOnce
  <1> QED BY <1>16, <1>17, <1>18, <1>19, <1>20 DEF IInv

----------------------------------------------------------------------------
(* The theorems                                                             *)

LEMMA OpeningCheckKeeps ==
    ASSUME IInv, NEW w \in Workers, NEW amount \in OpeningAmounts, NEW date \in Days,
           OpeningCheck(w, amount, date)
    PROVE  IInv'
  <1>1. PICK t : t = [op |-> "open", amount |-> amount, date |-> date]
    OBVIOUS
  <1>2. amount \in Int
    BY SettlementAssumption DEF OpeningAmounts
  <1>3. t \in Transactions /\ t.op # "reverse"
    BY <1>1, <1>2 DEF Transactions
  <1>4. /\ UNCHANGED <<kind, today, ledger, payments, told>>
        /\ tx' = [tx EXCEPT ![w] = t] \/ tx' = tx
    BY <1>1 DEF OpeningCheck
  <1>5. tx' \in [Workers -> Transactions] /\ LockInv'
    <2>1. CASE tx' = tx
      BY <1>4, <2>1, SameLocks
    <2>2. CASE tx' = [tx EXCEPT ![w] = t]
      BY <1>3, <1>4, <2>2, StartUnlocked
    <2> QED BY <1>4, <2>1, <2>2
  <1>6. today' \in Days
    BY <1>4 DEF IInv, Types
  <1> QED BY <1>4, <1>5, <1>6, QuietKeeps

LEMMA DayOrCrashKeeps ==
    ASSUME IInv, DayPasses \/ \E w \in Workers : Crash(w)
    PROVE  IInv'
  <1>1. CASE DayPasses
    <2>1. tx' \in [Workers -> Transactions] /\ LockInv'
      BY <1>1, SameLocks DEF DayPasses
    <2>2. today' \in Days
      BY <1>1, SettlementAssumption DEF IInv, Types, DayPasses, Days
    <2> QED BY <1>1, <2>1, <2>2, QuietKeeps DEF DayPasses
  <1>2. ASSUME NEW w \in Workers, Crash(w) PROVE IInv'
    <2>1. tx' \in [Workers -> Transactions] /\ LockInv'
      BY <1>2, EndQuietly DEF Crash
    <2>2. today' \in Days
      BY <1>2 DEF IInv, Types, Crash
    <2> QED BY <1>2, <2>1, <2>2, QuietKeeps DEF Crash
  <1> QED BY <1>1, <1>2

LEMMA InitIInv == Init => IInv
  <1> SUFFICES ASSUME Init PROVE IInv
    OBVIOUS
  <1>1. Len(ledger) = 0 /\ Len(payments) = 0 /\ 1..0 = {}
    BY DEF Init
  <1>2. Types
    BY <1>1, SettlementAssumption DEF Init, Types, Days, Payments, Transactions
  <1>3. LockInv
    BY DEF Init, LockInv, Idle
  <1> QED BY <1>1, <1>2, <1>3 DEF Init, IInv, DocInv, ToldInv, RecordedOnce, Openings, SupplierAnswersHold

LEMMA NextKeeps ==
    ASSUME IInv, [Next]_vars
    PROVE  IInv'
  <1>1. CASE UNCHANGED vars
    <2>1. tx' \in [Workers -> Transactions] /\ LockInv' /\ today' \in Days
      BY <1>1, SameLocks DEF vars, IInv, Types
    <2> QED BY <1>1, <2>1, QuietKeeps DEF vars
  <1>2. CASE Next
    BY <1>2, RaiseDocumentKeeps, WriteOffKeeps, IssueCreditNoteKeeps, CancelInvoiceKeeps,
       OpeningCheckKeeps, OpeningInsertKeeps, ReverseLockKeeps, ReverseCommitKeeps,
       PaymentCheckKeeps, PaymentInsertKeeps, DayOrCrashKeeps DEF Next
  <1> QED BY <1>1, <1>2

\* The invariant of record_payment, reverse_payment and the other services, whatever
\* their requests and however they interleave.
THEOREM Invariance == Spec => []IInv
  <1>1. IInv /\ [Next]_vars => IInv'
    BY NextKeeps
  <1> QED BY InitIInv, <1>1, PTL DEF Spec

\* A key pays once, a payment is reversed once and has exactly its own entries, for any
\* number of concurrent requests of record_payment and reverse_payment.
THEOREM RecordedOnceHolds == Spec => []RecordedOnce
  BY Invariance, PTL DEF IInv

\* record_supplier_payment never answers with a payment other than the one requested.
THEOREM SupplierAnswersHoldHolds == Spec => []SupplierAnswersHold
  BY Invariance, PTL DEF IInv

----------------------------------------------------------------------------
(* What is derived from the ledger                                          *)

LEMMA EntriesReadable ==
    ASSUME NEW E, NEW L \in Seq(E), \A e \in E : e.date \in Int /\ e.amount \in Int
    PROVE  Readable(L)
  <1>1. Len(L) \in Nat /\ \A i \in 1..Len(L) : L[i] \in E
    BY ElementOfSeq
  <1> QED BY <1>1 DEF Readable

LEMMA LedgerReadable ==
    ASSUME Types
    PROVE  Readable(ledger)
  <1>1. \A e \in Entries : e.date \in Int /\ e.amount \in Int
    BY DEF Entries, Days
  <1>2. ledger \in Seq(Entries)
    BY DEF Types
  <1> QED BY <1>1, <1>2, EntriesReadable

\* Both policies: an adjustment annuls documents and payments, never an adjustment.
LEMMA PolicySound ==
    ASSUME Types
    PROVE  Sound(Policy) /\ Policy.adjustment = "ADJUSTMENT" /\ "PAYMENT" \in Policy.annullable
  <1>1. CASE kind = "customer"
    BY <1>1 DEF Policy, Policies, Sound
  <1>2. CASE kind = "supplier"
    BY <1>2 DEF Policy, Policies, Sound
  <1> QED BY <1>1, <1>2 DEF Types

LEMMA ViewInLedger ==
    ASSUME NEW L, NEW asOf
    PROVE  View(L, asOf) \in SUBSET (1..Len(L))
  BY DEF View

LEMMA PositionsAgree == IInv => WalkAgreesWithLedger /\ OldestDebtFirst
  <1> SUFFICES ASSUME IInv PROVE WalkAgreesWithLedger /\ OldestDebtFirst
    OBVIOUS
  <1>1. PICK L : L = ledger
    OBVIOUS
  <1>2. PICK policy : policy = Policy
    OBVIOUS
  <1>3. Readable(L) /\ Sound(policy)
    BY <1>1, <1>2, LedgerReadable, PolicySound DEF IInv
  <1>4. PICK o : o = InOrder(L)
    OBVIOUS
  <1>5. ASSUME NEW asOf \in Days
        PROVE  /\ Outstanding(Position(asOf), Len(ledger)) - Position(asOf).pool = Balance(asOf)
               /\ LET due == Due(ledger, InOrder(ledger), Policy,
                                 Live(ledger, InOrder(ledger), View(ledger, asOf), Policy))
                      pos == Settled(InOrder(ledger), due)
                  IN  /\ pos.pool > 0 => OpenItems(pos) = {}
                      /\ \A i, j \in 1..Len(ledger) :
                            Earlier(ledger, i, j) /\ pos.left[j] < due.left[j] => i \notin OpenItems(pos)
    <2>1. PICK V : V = View(L, asOf)
      OBVIOUS
    <2>2. V \in SUBSET (1..Len(L))
      BY <2>1, ViewInLedger
    <2>3. PICK due : due = Due(L, o, policy, Live(L, o, V, policy))
      OBVIOUS
    <2>4. PICK pos : pos = Settled(o, due)
      OBVIOUS
    <2>5. /\ Outstanding(pos, Len(L)) - pos.pool = Total(L, V)
          /\ pos.pool > 0 => OpenItems(pos) = {}
          /\ \A i, j \in 1..Len(L) :
                Earlier(L, i, j) /\ pos.left[j] < due.left[j] => i \notin OpenItems(pos)
      BY <1>3, <1>4, <2>2, <2>3, <2>4, WalkFacts
    <2>6. Position(asOf) = pos /\ Balance(asOf) = Total(L, V)
      BY <1>1, <1>2, <1>4, <2>1, <2>3, <2>4 DEF Position, Walk, Balance, BalanceOf
    <2> QED BY <1>1, <1>2, <1>4, <2>1, <2>3, <2>4, <2>5, <2>6
  <1> QED BY <1>5 DEF WalkAgreesWithLedger, OldestDebtFirst

\* The two entries of a payment that is reversed.
LEMMA PairOf ==
    ASSUME IInv, NEW n \in 1..Len(payments), payments[n].reversed, NEW V, Pair(n) \subseteq V
    PROVE  \E p, a \in V : /\ Pair(n) = {p, a}
                           /\ Reversal(ledger, Policy, V, <<"PAYMENT", n>>, p, a)
  <1>1. PICK amount : amount = payments[n].req.amount
    OBVIOUS
  <1>2. PICK back : back = -amount
    OBVIOUS
  <1>3. WrittenOnce(n, "PAYMENT", back) /\ WrittenOnce(n, "ADJUSTMENT", amount)
    BY <1>1, <1>2 DEF IInv, RecordedOnce
  <1>4. PICK p \in 1..Len(ledger) : EntriesOf(n, "PAYMENT") = {p} /\ ledger[p].amount = back
    BY <1>3 DEF WrittenOnce
  <1>5. PICK a \in 1..Len(ledger) : EntriesOf(n, "ADJUSTMENT") = {a} /\ ledger[a].amount = amount
    BY <1>3 DEF WrittenOnce
  <1>6. /\ ledger[p].doc = <<"PAYMENT", n>> /\ ledger[p].type = "PAYMENT"
        /\ ledger[a].doc = <<"PAYMENT", n>> /\ ledger[a].type = "ADJUSTMENT"
    BY <1>4, <1>5 DEF EntriesOf
  <1>7. n \in Nat /\ Types
    BY DEF IInv, Types, Payments
  <1>8. \A i \in 1..Len(ledger) : ledger[i].doc = <<"PAYMENT", n>> => i = p \/ i = a
    BY <1>4, <1>5, <1>7 DEF IInv, DocInv, EntriesOf
  <1>9. Pair(n) = {p, a} /\ p # a
    BY <1>6, <1>8 DEF Pair
  <1>10. ledger[a].amount + ledger[p].amount = 0
    <2>1. amount \in Int
      BY <1>5, <1>7, LedgerReadable DEF Readable
    <2> QED BY <1>2, <1>4, <1>5, <2>1
  <1>11. <<"PAYMENT", n>> # NoDoc /\ <<"PAYMENT", n>>[1] = "PAYMENT"
    BY DEF NoDoc
  <1>12. Reversal(ledger, Policy, V, <<"PAYMENT", n>>, p, a)
    BY <1>6, <1>7, <1>8, <1>9, <1>10, <1>11, PolicySound DEF Reversal
  <1> QED BY <1>9, <1>12

LEMMA ReversalsRestore == IInv => ReversalRestores
  <1> SUFFICES ASSUME IInv, NEW n \in 1..Len(payments), payments[n].reversed, NEW asOf \in Days,
                      Pair(n) \subseteq View(ledger, asOf)
               PROVE  Position(asOf) = Walk(ledger, InOrder(ledger), View(ledger, asOf) \ Pair(n), Policy)
    BY DEF ReversalRestores
  <1>1. PICK L : L = ledger
    OBVIOUS
  <1>2. PICK policy : policy = Policy
    OBVIOUS
  <1>3. Readable(L) /\ Sound(policy)
    BY <1>1, <1>2, LedgerReadable, PolicySound DEF IInv
  <1>4. PICK o : o = InOrder(L)
    OBVIOUS
  <1>5. PICK V : V = View(L, asOf)
    OBVIOUS
  <1>6. V \in SUBSET (1..Len(L)) /\ Pair(n) \subseteq V
    BY <1>1, <1>5, ViewInLedger
  <1>7. PICK p, a \in V : /\ Pair(n) = {p, a}
                          /\ Reversal(ledger, Policy, V, <<"PAYMENT", n>>, p, a)
    BY <1>6, PairOf
  <1>8. PICK doc : doc = <<"PAYMENT", n>>
    OBVIOUS
  <1>9. Reversal(L, policy, V, doc, p, a)
    BY <1>1, <1>2, <1>7, <1>8
  <1>10. Walk(L, o, V, policy) = Walk(L, o, V \ {p, a}, policy)
    BY <1>3, <1>4, <1>6, <1>9, ReversalVanishes
  <1> QED BY <1>1, <1>2, <1>4, <1>5, <1>7, <1>10 DEF Position

\* The walk of a customer's or a supplier's ledger, on any date, leaves open less on
\* account exactly what the ledger's SUM says (M6 5A.7).
THEOREM WalkAgreesHolds == Spec => []WalkAgreesWithLedger
  BY Invariance, PositionsAgree, PTL

\* The walk pays the oldest debt first, and keeps credit on account only when no debt
\* is open.
THEOREM OldestDebtFirstHolds == Spec => []OldestDebtFirst
  BY Invariance, PositionsAgree, PTL

\* reverse_payment restores every position to what it would be had the payment and the
\* reversal never been entered, whatever else was annulled, credited or backdated.
THEOREM ReversalRestoresHolds == Spec => []ReversalRestores
  BY Invariance, ReversalsRestore, PTL

----------------------------------------------------------------------------
(* The payments and the ledger                                              *)

\* What a ledger took off the balance for payments, and what payment rows come to.
Booked(L) == Total(L, {i \in 1..Len(L) : L[i].doc[1] = "PAYMENT"})
Standing(P) == [n \in 1..Len(P) |-> IF P[n].reversed THEN 0 ELSE P[n].req.amount]

\* One entry more.
LEMMA BookedGrows ==
    ASSUME NEW L, Readable(L), NEW M, Readable(M), Len(M) = Len(L) + 1,
           \A i \in 1..Len(L) : M[i] = L[i]
    PROVE  /\ Booked(L) \in Int
           /\ M[Len(L) + 1].doc[1] = "PAYMENT" => Booked(M) = Booked(L) + M[Len(L) + 1].amount
           /\ M[Len(L) + 1].doc[1] # "PAYMENT" => Booked(M) = Booked(L)
  <1>1. PICK f : f = Amounts(L, {i \in 1..Len(L) : L[i].doc[1] = "PAYMENT"})
    OBVIOUS
  <1>2. PICK g : g = Amounts(M, {i \in 1..Len(M) : M[i].doc[1] = "PAYMENT"})
    OBVIOUS
  <1>3. PICK n : n = Len(L)
    OBVIOUS
  <1>4. n \in Nat /\ Len(M) = n + 1 /\ n + 1 \in 1..Len(M) /\ \A i \in 1..n : i \in 1..Len(M)
    BY <1>3 DEF Readable
  <1>5. \A i \in 1..n : f[i] = g[i]
    BY <1>1, <1>2, <1>3, <1>4 DEF Amounts
  <1>6. SumOf(f, n) = SumOf(g, n)
    BY <1>4, <1>5, SumSame
  <1>7. SumOf(g, n + 1) = SumOf(g, n) + g[n + 1]
    BY <1>4, SumStep
  <1>8. Booked(L) = SumOf(f, n) /\ Booked(M) = SumOf(g, n + 1)
    BY <1>1, <1>2, <1>3, <1>4 DEF Booked, Total
  <1>9. Booked(L) \in Int
    BY AmountsFacts DEF Booked
  <1>10. g[n + 1] = IF M[n + 1].doc[1] = "PAYMENT" THEN M[n + 1].amount ELSE 0
    BY <1>2, <1>4 DEF Amounts
  <1> QED BY <1>3, <1>6, <1>7, <1>8, <1>9, <1>10

LEMMA CollectedIs == Collected = SumOf(Standing(payments), Len(payments))
  BY DEF Collected, Standing

LEMMA RowType ==
    ASSUME NEW P \in Payments
    PROVE  Len(P) \in Nat /\ \A n \in 1..Len(P) : P[n] \in [req : Requests, reversed : BOOLEAN]
  <1>1. PICK R : R = [req : Requests, reversed : BOOLEAN]
    OBVIOUS
  <1>2. P \in Seq(R)
    BY <1>1 DEF Payments
  <1>3. Len(P) \in Nat /\ \A n \in 1..Len(P) : P[n] \in R
    BY <1>2, ElementOfSeq
  <1> QED BY <1>1, <1>3

LEMMA StandingType ==
    ASSUME NEW P \in Payments
    PROVE  Len(P) \in Nat /\ \A n \in 1..Len(P) : Standing(P)[n] \in Int /\ P[n].req.amount \in Int
  <1>1. Len(P) \in Nat /\ \A n \in 1..Len(P) : P[n] \in [req : Requests, reversed : BOOLEAN]
    BY RowType
  <1>2. \A n \in 1..Len(P) : P[n].req \in Requests
    BY <1>1
  <1>3. PayAmounts \subseteq Int
    BY SettlementAssumption
  <1>4. \A n \in 1..Len(P) : P[n].req.amount \in Int
    BY <1>2, <1>3 DEF Requests
  <1> QED BY <1>1, <1>4 DEF Standing

\* What a step can do to the two.
LEMMA StepKinds ==
    ASSUME IInv, [Next]_vars
    PROVE  \/ UNCHANGED <<ledger, payments>>
           \/ /\ UNCHANGED payments
              /\ Len(ledger') = Len(ledger) + 1 /\ \A i \in 1..Len(ledger) : ledger'[i] = ledger[i]
              /\ ledger'[Len(ledger) + 1].doc[1] # "PAYMENT"
           \/ \E req \in Requests : RecordPayment(req)
           \/ \E w \in Workers : ReverseCommit(w)
  <1> DEFINE Foreign ==
                /\ UNCHANGED payments
                /\ Len(ledger') = Len(ledger) + 1 /\ \A i \in 1..Len(ledger) : ledger'[i] = ledger[i]
                /\ ledger'[Len(ledger) + 1].doc[1] # "PAYMENT"
  <1>1. ASSUME NEW type, NEW amount, NEW date, NEW doc, NEW reduces, doc[1] # "PAYMENT",
               RecordEntry(type, amount, date, doc, reduces), UNCHANGED payments
        PROVE  Foreign
    <2>1. PICK e : e = [date |-> date, type |-> type, amount |-> amount, doc |-> doc, reduces |-> reduces]
      OBVIOUS
    <2>2. ledger' = Append(ledger, e) /\ e.doc = doc
      BY <1>1, <2>1 DEF RecordEntry
    <2>3. PICK E : ledger \in Seq(E)
      BY DEF IInv, Types
    <2>4. /\ Len(ledger') = Len(ledger) + 1 /\ \A i \in 1..Len(ledger) : ledger'[i] = ledger[i]
          /\ ledger'[Len(ledger) + 1] = e
      BY <2>2, <2>3
    <2> QED BY <1>1, <2>2, <2>4
  <1>2. NoDoc[1] # "PAYMENT" /\ \A type : NewDoc(type)[1] = type
    BY DEF NoDoc, NewDoc
  <1> DEFINE Kept == UNCHANGED <<ledger, payments>>
             Paid == \E req \in Requests : RecordPayment(req)
  <1> HIDE DEF Foreign
  <1>3. ASSUME NEW amount, NEW date, RaiseDocument(amount, date) PROVE Foreign
    <2>1. PICK type : type = IF kind = "customer" THEN "INVOICE" ELSE "GOODS_RECEIPT"
      OBVIOUS
    <2>2. PICK doc : doc = NewDoc(type)
      OBVIOUS
    <2>3. RecordEntry(type, amount, date, doc, NoDoc) /\ UNCHANGED payments
      BY <1>3, <2>1, <2>2 DEF RaiseDocument
    <2> QED BY <1>1, <1>2, <2>1, <2>2, <2>3
  <1>4. ASSUME NEW amount, NEW date, WriteOff(amount, date) PROVE Foreign
    <2>1. PICK back : back = -amount
      OBVIOUS
    <2>2. RecordEntry("WRITE_OFF", back, date, NoDoc, NoDoc) /\ UNCHANGED payments
      BY <1>4, <2>1 DEF WriteOff
    <2> QED BY <1>1, <1>2, <2>2
  <1>5. ASSUME NEW invoice \in Invoices, NEW amount, NEW date, IssueCreditNote(invoice, amount, date)
        PROVE  Foreign
    <2>1. PICK back : back = -amount
      OBVIOUS
    <2>2. PICK doc : doc = NewDoc("CREDIT_NOTE")
      OBVIOUS
    <2>3. PICK inv : inv = invoice
      OBVIOUS
    <2>4. RecordEntry("CREDIT_NOTE", back, date, doc, inv) /\ UNCHANGED payments
      BY <1>5, <2>1, <2>2, <2>3 DEF IssueCreditNote
    <2> QED BY <1>1, <1>2, <2>2, <2>4
  <1>6. ASSUME NEW invoice \in Invoices, CancelInvoice(invoice) PROVE Foreign
    <2>1. PICK back : back = -EntryFor(invoice).amount
      OBVIOUS
    <2>2. PICK date : date = today
      OBVIOUS
    <2>3. PICK inv : inv = invoice
      OBVIOUS
    <2>4. RecordEntry("ADJUSTMENT", back, date, inv, NoDoc) /\ UNCHANGED payments
      BY <1>6, <2>1, <2>2, <2>3 DEF CancelInvoice
    <2>5. inv[1] = "INVOICE"
      BY <2>3, InvoiceFacts
    <2> QED BY <1>1, <2>4, <2>5
  <1>7. ASSUME NEW w \in Workers, OpeningInsert(w) PROVE Foreign \/ Kept
    <2>1. PICK amount : amount = tx[w].amount
      OBVIOUS
    <2>2. PICK date : date = tx[w].date
      OBVIOUS
    <2>3. \/ RecordEntry("OPENING", amount, date, NoDoc, NoDoc) /\ UNCHANGED payments
          \/ UNCHANGED <<ledger, payments>>
      BY <1>7, <2>1, <2>2 DEF OpeningInsert
    <2> QED BY <1>1, <1>2, <2>3
  <1>8. ASSUME NEW w \in Workers, PaymentInsert(w)
        PROVE  Kept \/ Paid
    <2>1. PICK req : req = tx[w].req
      OBVIOUS
    <2>2. tx[w] \in Transactions /\ tx[w].op = "pay"
      BY <1>8 DEF IInv, Types, PaymentInsert
    <2>3. req \in Requests
      BY <2>1, <2>2 DEF Transactions, Idle
    <2>4. RecordPayment(req) \/ Replay(req)
      BY <1>8, <2>1 DEF PaymentInsert
    <2> QED BY <2>3, <2>4 DEF Replay
  <1>9. CASE UNCHANGED vars
    BY <1>9 DEF vars
  <1>10. ASSUME NEW w, NEW req, PaymentCheck(w, req) PROVE Kept
    BY <1>10 DEF PaymentCheck, Replay
  <1>11. ASSUME NEW w, NEW n, NEW date, ReverseLock(w, n, date) PROVE Kept
    BY <1>11 DEF ReverseLock
  <1>12. ASSUME NEW w, NEW amount, NEW date, OpeningCheck(w, amount, date)
         PROVE  Kept
    BY <1>12 DEF OpeningCheck
  <1>13. ASSUME NEW w, Crash(w) PROVE Kept
    BY <1>13 DEF Crash
  <1>14. ASSUME DayPasses PROVE Kept
    BY <1>14 DEF DayPasses
  <1>15. CASE Next
    <2> HIDE DEF Kept, Paid
    <2>1. \/ Foreign \/ Kept \/ Paid
          \/ \E w \in Workers : ReverseCommit(w)
      BY <1>3, <1>4, <1>5, <1>6, <1>7, <1>8, <1>10, <1>11, <1>12, <1>13, <1>14, <1>15 DEF Next
    <2> QED BY <2>1 DEF Foreign, Kept, Paid
  <1> QED BY <1>9, <1>15

LEMMA CollectedKeeps ==
    ASSUME IInv, IInv', CollectedIsBooked, [Next]_vars
    PROVE  CollectedIsBooked'
  <1>1. PICK L : L = ledger
    OBVIOUS
  <1>2. PICK M : M = ledger'
    OBVIOUS
  <1>3. PICK P : P = payments
    OBVIOUS
  <1>4. PICK Q : Q = payments'
    OBVIOUS
  <1>5. Readable(L) /\ Readable(M)
    <2>1. Readable(L)
      BY <1>1, LedgerReadable DEF IInv
    <2>2. \A e \in Entries' : e.date \in Int /\ e.amount \in Int
      BY DEF Entries, Days
    <2>3. PICK E : E = Entries'
      OBVIOUS
    <2>4. M \in Seq(E)
      BY <1>2, <2>3 DEF IInv, Types
    <2> QED BY <2>1, <2>2, <2>3, <2>4, EntriesReadable
  <1>6. P \in Payments /\ Q \in Payments
    <2>1. Payments' = Payments
      BY DEF Payments, Requests, Days
    <2> QED BY <1>3, <1>4, <2>1 DEF IInv, Types
  <1>7. SumOf(Standing(P), Len(P)) = -Booked(L)
    BY <1>1, <1>3, CollectedIs DEF CollectedIsBooked, Booked
  <1> SUFFICES SumOf(Standing(Q), Len(Q)) = -Booked(M)
    BY <1>2, <1>4 DEF CollectedIsBooked, Booked, Collected, Standing
  <1>8. CASE UNCHANGED <<ledger, payments>>
    BY <1>1, <1>2, <1>3, <1>4, <1>7, <1>8
  <1>9. CASE /\ UNCHANGED payments
             /\ Len(ledger') = Len(ledger) + 1 /\ \A i \in 1..Len(ledger) : ledger'[i] = ledger[i]
             /\ ledger'[Len(ledger) + 1].doc[1] # "PAYMENT"
    <2>1. Len(M) = Len(L) + 1 /\ (\A i \in 1..Len(L) : M[i] = L[i]) /\ M[Len(L) + 1].doc[1] # "PAYMENT"
      BY <1>1, <1>2, <1>9
    <2>2. Booked(M) = Booked(L)
      BY <1>5, <2>1, BookedGrows
    <2> QED BY <1>3, <1>4, <1>7, <1>9, <2>2
  <1>10. ASSUME NEW req \in Requests, RecordPayment(req)
         PROVE  SumOf(Standing(Q), Len(Q)) = -Booked(M)
    <2>1. PICK row : row = [req |-> req, reversed |-> FALSE]
      OBVIOUS
    <2>2. Q = Append(P, row) /\ row.req = req /\ row.reversed = FALSE
      BY <1>3, <1>4, <1>10, <2>1 DEF RecordPayment
    <2>3. Len(P) \in Nat /\ Len(Q) = Len(P) + 1 /\ (\A n \in 1..Len(P) : Q[n] = P[n]) /\ Q[Len(P) + 1] = row
      BY <1>6, <2>2 DEF Payments
    <2>4. req.amount \in Int
      <3>1. req.amount \in PayAmounts
        BY DEF Requests
      <3>2. PayAmounts \subseteq Int
        BY SettlementAssumption
      <3> QED BY <3>1, <3>2
    <2>5. PICK e : e = [date |-> req.date, type |-> "PAYMENT", amount |-> -req.amount,
                        doc |-> <<"PAYMENT", Len(P) + 1>>, reduces |-> NoDoc]
      OBVIOUS
    <2>6. M = Append(L, e) /\ e.doc[1] = "PAYMENT" /\ e.amount = -req.amount
      BY <1>1, <1>2, <1>3, <1>10, <2>5 DEF RecordPayment, RecordEntry
    <2>7. PICK E : L \in Seq(E)
      BY <1>1 DEF IInv, Types
    <2>8. Len(M) = Len(L) + 1 /\ (\A i \in 1..Len(L) : M[i] = L[i]) /\ M[Len(L) + 1] = e
      BY <2>6, <2>7
    <2>9. Booked(L) \in Int /\ Booked(M) = Booked(L) + M[Len(L) + 1].amount
      BY <1>5, <2>6, <2>8, BookedGrows
    <2>10. SumOf(Standing(Q), Len(Q)) = SumOf(Standing(P), Len(P)) + req.amount
      <3>1. PICK f : f = Standing(P)
        OBVIOUS
      <3>2. PICK g : g = Standing(Q)
        OBVIOUS
      <3>3. (\A n \in 1..Len(P) : f[n] = g[n]) /\ g[Len(P) + 1] = req.amount
        BY <2>2, <2>3, <3>1, <3>2 DEF Standing
      <3>4. SumOf(f, Len(P)) = SumOf(g, Len(P)) /\ SumOf(g, Len(P) + 1) = SumOf(g, Len(P)) + g[Len(P) + 1]
        BY <2>3, <3>3, SumSame, SumStep
      <3> QED BY <2>3, <3>1, <3>2, <3>3, <3>4
    <2> QED BY <1>7, <2>4, <2>6, <2>8, <2>9, <2>10
  <1>11. ASSUME NEW w \in Workers, ReverseCommit(w)
         PROVE  SumOf(Standing(Q), Len(Q)) = -Booked(M)
    <2>1. PICK m : m = tx[w].payment
      OBVIOUS
    <2>2. m \in 1..Len(P) /\ ~P[m].reversed
      BY <1>3, <1>11, <2>1 DEF IInv, LockInv, ReverseCommit
    <2>3. PICK amount : amount = P[m].req.amount
      OBVIOUS
    <2>4. Len(P) \in Nat /\ P[m] \in [req : Requests, reversed : BOOLEAN] /\ amount \in Int
      <3>1. Len(P) \in Nat /\ P[m] \in [req : Requests, reversed : BOOLEAN]
        BY <1>6, <2>2, RowType
      <3>2. amount \in Int
        BY <1>6, <2>2, <2>3, StandingType
      <3> QED BY <3>1, <3>2
    <2>5. PICK row : row = [P[m] EXCEPT !.reversed = TRUE]
      OBVIOUS
    <2>6. row.req = P[m].req /\ row.reversed = TRUE
      BY <2>4, <2>5
    <2>7. Q = [P EXCEPT ![m] = row]
      BY <1>3, <1>4, <1>11, <2>1, <2>5 DEF ReverseCommit
    <2>8. Len(Q) = Len(P) /\ Q[m] = row /\ \A n \in 1..Len(P) : n # m => Q[n] = P[n]
      BY <1>6, <2>2, <2>7 DEF Payments
    <2>9. PICK e : e = [date |-> tx[w].date, type |-> "ADJUSTMENT", amount |-> amount,
                        doc |-> <<"PAYMENT", m>>, reduces |-> NoDoc]
      OBVIOUS
    <2>10. M = Append(L, e) /\ e.doc[1] = "PAYMENT" /\ e.amount = amount
      BY <1>1, <1>2, <1>3, <1>11, <2>1, <2>3, <2>9 DEF ReverseCommit, RecordEntry
    <2>11. PICK E : L \in Seq(E)
      BY <1>1 DEF IInv, Types
    <2>12. Len(M) = Len(L) + 1 /\ (\A i \in 1..Len(L) : M[i] = L[i]) /\ M[Len(L) + 1] = e
      BY <2>10, <2>11
    <2>13. Booked(L) \in Int /\ Booked(M) = Booked(L) + M[Len(L) + 1].amount
      BY <1>5, <2>10, <2>12, BookedGrows
    <2>14. SumOf(Standing(Q), Len(Q)) = SumOf(Standing(P), Len(P)) - amount
      <3>1. PICK f : f = Standing(P)
        OBVIOUS
      <3>2. PICK g : g = Standing(Q)
        OBVIOUS
      <3>3. f[m] = amount /\ g[m] = 0 /\ \A n \in 1..Len(P) : n # m => g[n] = f[n]
        BY <2>2, <2>3, <2>6, <2>8, <3>1, <3>2 DEF Standing
      <3>4. \A n \in 1..Len(P) : f[n] \in Int /\ g[n] \in Int
        BY <1>6, <2>8, <3>1, <3>2, StandingType
      <3>5. SumOf(g, Len(P)) = SumOf(f, Len(P)) + g[m] - f[m]
        <4>1. Len(P) \in Nat /\ \A n \in 1..Len(P) : n # m => g[n] = f[n]
          BY <2>4, <3>3
        <4>2. m \in 1..Len(P)
          BY <2>2
        <4> QED BY <3>4, <4>1, <4>2, SumPoint
      <3>6. SumOf(f, Len(P)) \in Int
        BY <2>4, <3>4, SumType
      <3> QED BY <2>4, <2>8, <3>1, <3>2, <3>3, <3>5, <3>6
    <2> QED BY <1>7, <2>4, <2>10, <2>12, <2>13, <2>14
  <1> QED BY <1>8, <1>9, <1>10, <1>11, StepKinds

\* collected_total, a sum over payment rows, is what the ledger took off the balance for
\* payments, after any number of payments, retries and reversals.
THEOREM CollectedIsBookedHolds == Spec => []CollectedIsBooked
  <1>1. Init => CollectedIsBooked
    <2> SUFFICES ASSUME Init PROVE CollectedIsBooked
      OBVIOUS
    <2>1. Len(ledger) = 0 /\ Len(payments) = 0
      BY DEF Init
    <2>2. Collected = 0 /\ \A V : Total(ledger, V) = 0
      BY <2>1, SumZero DEF Collected, Total
    <2> QED BY <2>2 DEF CollectedIsBooked
  <1>2. IInv /\ IInv' /\ CollectedIsBooked /\ [Next]_vars => CollectedIsBooked'
    BY CollectedKeeps
  <1> QED BY Invariance, <1>1, <1>2, PTL DEF Spec

----------------------------------------------------------------------------
(* What a query has seen                                                    *)

\* Every past ledger is the beginning of the present one: nothing that a query has read
\* ever changes.
Recalled ==
    /\ past \in Seq(Seq(Entries))
    /\ Len(past) = Len(ledger) + 1
    /\ \A n \in 1..Len(past) :
          /\ Len(past[n]) = n - 1
          /\ \A i \in 1..(n - 1) : past[n][i] = ledger[i]

\* A step leaves the ledger alone, or appends to it and is remembered.
LEMMA GrowthKinds ==
    ASSUME IInv, [Next]_vars
    PROVE  /\ kind' = kind
           /\ \/ UNCHANGED <<ledger, past>>
              \/ past' = Append(past, ledger') /\ \E e : ledger' = Append(ledger, e)
  <1> DEFINE Kept == kind' = kind /\ UNCHANGED <<ledger, past>>
             Grown == kind' = kind /\ past' = Append(past, ledger') /\ \E e : ledger' = Append(ledger, e)
  <1>1. ASSUME NEW type, NEW amount, NEW date, NEW doc, NEW reduces,
               RecordEntry(type, amount, date, doc, reduces), kind' = kind
        PROVE  Grown
    BY <1>1 DEF RecordEntry
  <1> HIDE DEF Grown
  <1>2. ASSUME NEW amount, NEW date, RaiseDocument(amount, date) PROVE Grown
    BY <1>1, <1>2 DEF RaiseDocument
  <1>3. ASSUME NEW amount, NEW date, WriteOff(amount, date) PROVE Grown
    BY <1>1, <1>3 DEF WriteOff
  <1>4. ASSUME NEW invoice, NEW amount, NEW date, IssueCreditNote(invoice, amount, date) PROVE Grown
    BY <1>1, <1>4 DEF IssueCreditNote
  <1>5. ASSUME NEW invoice, CancelInvoice(invoice) PROVE Grown
    BY <1>1, <1>5 DEF CancelInvoice
  <1>6. ASSUME NEW w, OpeningInsert(w) PROVE Grown \/ Kept
    BY <1>1, <1>6 DEF OpeningInsert
  <1>7. ASSUME NEW w, PaymentInsert(w) PROVE Grown \/ Kept
    <2>1. RecordPayment(tx[w].req) \/ Replay(tx[w].req)
      BY <1>7 DEF PaymentInsert
    <2> QED BY <1>1, <2>1 DEF RecordPayment, Replay
  <1>8. ASSUME NEW w, ReverseCommit(w) PROVE Grown
    BY <1>1, <1>8 DEF ReverseCommit
  <1>9. ASSUME NEW w, NEW req, PaymentCheck(w, req) PROVE Kept
    BY <1>9 DEF PaymentCheck, Replay
  <1>10. ASSUME NEW w, NEW n, NEW date, ReverseLock(w, n, date) PROVE Kept
    BY <1>10 DEF ReverseLock
  <1>11. ASSUME NEW w, NEW amount, NEW date, OpeningCheck(w, amount, date) PROVE Kept
    BY <1>11 DEF OpeningCheck
  <1>12. ASSUME NEW w, Crash(w) PROVE Kept
    BY <1>12 DEF Crash
  <1>13. ASSUME DayPasses PROVE Kept
    BY <1>13 DEF DayPasses
  <1>14. ASSUME UNCHANGED vars PROVE Kept
    BY <1>14 DEF vars
  <1>15. Grown \/ Kept
    <2> HIDE DEF Kept
    <2> QED BY <1>2, <1>3, <1>4, <1>5, <1>6, <1>7, <1>8, <1>9, <1>10, <1>11, <1>12, <1>13, <1>14 DEF Next
  <1> QED BY <1>15 DEF Grown

LEMMA RecalledKeeps ==
    ASSUME IInv, IInv', Recalled, [Next]_vars
    PROVE  Recalled'
  <1>1. PICK L, M, E : L = ledger /\ M = ledger' /\ E = Entries
    OBVIOUS
  <1>2. Entries' = E /\ L \in Seq(E) /\ M \in Seq(E)
    <2>1. Entries' = E
      BY <1>1, GrowthKinds DEF Entries, EntryTypes
    <2> QED BY <1>1, <2>1 DEF IInv, Types
  <1>3. CASE UNCHANGED <<ledger, past>>
    BY <1>1, <1>2, <1>3 DEF Recalled
  <1>4. CASE past' = Append(past, M) /\ \E e : M = Append(L, e)
    <2>1. past \in Seq(Seq(E)) /\ Len(past) = Len(L) + 1 /\ Len(L) \in Nat
      BY <1>1, <1>2 DEF Recalled
    <2>2. Len(M) = Len(L) + 1 /\ \A i \in 1..Len(L) : M[i] = L[i]
      BY <1>2, <1>4
    <2>3. /\ past' \in Seq(Seq(E)) /\ Len(past') = Len(M) + 1
          /\ \A n \in 1..Len(past) : past'[n] = past[n]
          /\ past'[Len(past) + 1] = M
      BY <1>2, <1>4, <2>1, <2>2
    <2>4. ASSUME NEW n \in 1..Len(past')
          PROVE  Len(past'[n]) = n - 1 /\ \A i \in 1..(n - 1) : past'[n][i] = M[i]
      <3>1. CASE n \in 1..Len(past)
        <4>1. Len(past[n]) = n - 1 /\ \A i \in 1..(n - 1) : past[n][i] = L[i]
          BY <1>1, <3>1 DEF Recalled
        <4>2. \A i \in 1..(n - 1) : i \in 1..Len(L)
          BY <2>1, <3>1
        <4> QED BY <2>2, <2>3, <3>1, <4>1, <4>2
      <3>2. CASE n = Len(past) + 1
        BY <2>1, <2>2, <2>3, <3>2
      <3> QED BY <2>1, <2>2, <2>3, <3>1, <3>2
    <2> QED BY <1>1, <1>2, <2>3, <2>4 DEF Recalled
  <1> QED BY <1>1, <1>3, <1>4, GrowthKinds

\* The past is remembered throughout.
LEMMA RecalledHolds == Spec => []Recalled
  <1>1. Init => Recalled
    BY DEF Init, Recalled
  <1>2. IInv /\ IInv' /\ Recalled /\ [Next]_vars => Recalled'
    BY RecalledKeeps
  <1> QED BY Invariance, <1>1, <1>2, PTL DEF Spec

\* Every entry that record_entry appends has the sign its type demands, and its number.
THEOREM TypeCorrect == Spec => []TypeOK
  <1>1. IInv /\ Recalled => TypeOK
    BY DEF IInv, Types, Recalled, TypeOK
  <1> QED BY <1>1, Invariance, RecalledHolds, PTL

\* Terms that are zero at the end add nothing.
LEMMA SumTail ==
    ASSUME NEW n \in Nat, NEW m \in 0..n, NEW f, \A i \in 1..n : f[i] \in Int /\ (i > m => f[i] = 0)
    PROVE  SumOf(f, n) = SumOf(f, m)
  <1> DEFINE S == {k \in 0..n : k >= m => SumOf(f, k) = SumOf(f, m)}
  <1>1. 0 \in S
    OBVIOUS
  <1>2. ASSUME NEW k \in 0..(n - 1), k \in S PROVE k + 1 \in S
    <2>1. CASE k + 1 > m
      <3>1. SumOf(f, k + 1) = SumOf(f, k) + f[k + 1]
        BY SumStep
      <3>2. k + 1 \in 1..n /\ k >= m
        BY <2>1
      <3>3. SumOf(f, k) = SumOf(f, m) /\ f[k + 1] = 0
        BY <1>2, <2>1, <3>2
      <3>4. SumOf(f, m) \in Int
        BY SumType
      <3> QED BY <3>1, <3>2, <3>3, <3>4
    <2>2. CASE ~(k + 1 > m)
      BY <1>2, <2>2
    <2> QED BY <2>1, <2>2
  <1>3. \A k \in 0..n : k \in S
    <2> HIDE DEF S
    <2> QED BY <1>1, <1>2, UpTo
  <1> QED BY <1>3

\* A sum over a beginning of a ledger is one over the ledger.
LEMMA TotalBefore ==
    ASSUME NEW L, Readable(L), NEW P, NEW m \in 0..Len(L), Len(P) = m,
           \A i \in 1..m : P[i] = L[i], NEW V
    PROVE  Total(P, V) = Total(L, V \cap (1..m))
  <1>1. PICK n, f, g : n = Len(L) /\ f = Amounts(P, V) /\ g = Amounts(L, V \cap (1..m))
    OBVIOUS
  <1>2. n \in Nat /\ m \in 0..n /\ \A i \in 1..m : i \in 1..n
    BY <1>1 DEF Readable
  <1>3. \A i \in 1..n : g[i] \in Int /\ g[i] = IF i \in V \cap (1..m) THEN L[i].amount ELSE 0
    BY <1>1, AmountsFacts
  <1>4. \A i \in 1..m : f[i] = g[i]
    BY <1>1, <1>2, <1>3 DEF Amounts
  <1>5. \A i \in 1..n : i > m => g[i] = 0
    BY <1>2, <1>3
  <1>6. SumOf(f, m) = SumOf(g, m)
    BY <1>2, <1>4, SumSame
  <1>7. SumOf(g, n) = SumOf(g, m)
    BY <1>2, <1>3, <1>5, SumTail
  <1> QED BY <1>1, <1>6, <1>7 DEF Total

\* What a query that met past ledger n read, in terms of the present ledger.
LEMMA AsRead ==
    ASSUME IInv, Recalled, NEW n \in 1..Len(past), NEW asOf \in Int, NEW from \in Int
    PROVE  LET seen == {i \in View(ledger, asOf) : i < n}
               listed == {i \in View(past[n], asOf) : past[n][i].date >= from}
           IN  /\ BalanceOf(past[n], asOf) = Total(ledger, seen)
               /\ Total(past[n], listed) = Total(ledger, {i \in seen : ledger[i].date >= from})
  <1>1. PICK L, P, m : L = ledger /\ P = past[n] /\ m = n - 1
    OBVIOUS
  <1>2. Readable(L)
    BY <1>1, LedgerReadable DEF IInv
  <1>3. m \in 0..Len(L) /\ Len(P) = m /\ \A i \in 1..m : P[i] = L[i]
    <2>1. Len(past) = Len(L) + 1 /\ Len(L) \in Nat
      BY <1>1, <1>2 DEF Recalled, Readable
    <2>2. Len(P) = n - 1 /\ \A i \in 1..(n - 1) : P[i] = L[i]
      BY <1>1 DEF Recalled
    <2> QED BY <1>1, <2>1, <2>2
  <1>4. PICK V, W : V = View(P, asOf) /\ W = {i \in View(P, asOf) : P[i].date >= from}
    OBVIOUS
  <1>5. PICK A, B : /\ A = {i \in View(L, asOf) : i < n}
                    /\ B = {i \in A : L[i].date >= from}
    OBVIOUS
  <1>6. V \cap (1..m) = A /\ W \cap (1..m) = B
    BY <1>1, <1>2, <1>3, <1>4, <1>5 DEF View, Readable
  <1>7. Total(P, V) = Total(L, A) /\ Total(P, W) = Total(L, B)
    BY <1>2, <1>3, <1>6, TotalBefore
  <1> QED BY <1>1, <1>4, <1>5, <1>7 DEF BalanceOf

\* A statement finishing now adds up but for what was committed between its queries.
LEMMA StatementsAdd ==
    ASSUME IInv, Recalled, NEW from \in Days, NEW to \in from..LastDay,
           NEW listed \in 1..Len(past), NEW opened \in 1..listed
    PROVE  LET period == Statement(from, to, Met(opened, listed, Len(past)))
           IN  period.opening + Total(past[listed], period.entries)
                   = period.closing - Total(ledger, Missed(from, to, opened, listed))
  <1>1. PICK L, now : L = ledger /\ now = Len(past)
    OBVIOUS
  <1>2. Readable(L) /\ now = Len(L) + 1 /\ now \in 1..now /\ opened \in 1..now
    <2>1. Readable(L) /\ now = Len(L) + 1
      BY <1>1, LedgerReadable DEF IInv, Recalled
    <2> QED BY <1>1, <2>1 DEF Readable
  <1>3. from \in Int /\ to \in Int /\ from <= to /\ from - 1 \in Int
    BY DEF Days
  <1>4. PICK A, B, C, Z : /\ A = {i \in View(L, from - 1) : i < opened}
                          /\ B = {i \in {i \in View(L, to) : i < listed} : L[i].date >= from}
                          /\ C = Missed(from, to, opened, listed)
                          /\ Z = {i \in View(L, to) : i < now}
    OBVIOUS
  <1>5. PICK period : period = Statement(from, to, Met(opened, listed, now))
    OBVIOUS
  <1>6. period.opening = Total(L, A)
    <2>1. period.opening = BalanceOf(past[opened], from - 1)
      BY <1>5 DEF Statement, Met
    <2> QED BY <1>1, <1>2, <1>3, <1>4, <2>1, AsRead
  <1>7. Total(past[listed], period.entries) = Total(L, B)
    <2>1. period.entries = {i \in View(past[listed], to) : past[listed][i].date >= from}
      BY <1>5 DEF Statement, Met
    <2>2. Total(past[listed], {i \in View(past[listed], to) : past[listed][i].date >= from})
             = Total(ledger, {i \in {i \in View(ledger, to) : i < listed} : ledger[i].date >= from})
      BY <1>3, AsRead
    <2> QED BY <1>1, <1>4, <2>1, <2>2
  <1>8. period.closing = Total(L, Z)
    <2>1. period.closing = BalanceOf(past[now], to)
      BY <1>5 DEF Statement, Met
    <2> QED BY <1>1, <1>2, <1>3, <1>4, <2>1, AsRead
  <1>9. /\ Z = (A \cup B) \cup C /\ (A \cup B) \cap C = {} /\ A \cap B = {}
    <2>1. \A i \in 1..Len(L) : /\ L[i].date \in Int /\ i \in Nat /\ i < now
                               /\ L[i].date <= from - 1 <=> L[i].date < from
      BY <1>2, <1>3 DEF Readable
    <2>2. \A i : i \in C <=> /\ i \in 1..Len(L) /\ L[i].date <= to
                             /\ IF L[i].date < from THEN opened <= i ELSE listed <= i
      BY <1>1, <1>4 DEF Missed, View, Since
    <2>3. \A i : i \in A <=> i \in 1..Len(L) /\ L[i].date <= from - 1 /\ i < opened
      BY <1>4 DEF View
    <2>4. \A i : i \in B <=> i \in 1..Len(L) /\ L[i].date <= to /\ i < listed /\ L[i].date >= from
      BY <1>4 DEF View
    <2>5. \A i : i \in Z <=> i \in 1..Len(L) /\ L[i].date <= to /\ i < now
      BY <1>4 DEF View
    <2>6. ASSUME NEW i \in 1..Len(L)
          PROVE  /\ i \in Z <=> i \in A \/ i \in B \/ i \in C
                 /\ ~(i \in C /\ (i \in A \/ i \in B)) /\ ~(i \in A /\ i \in B)
      BY <1>3, <2>1, <2>2, <2>3, <2>4, <2>5
    <2> QED BY <2>2, <2>3, <2>4, <2>5, <2>6
  <1>10. Total(L, Z) = Total(L, A \cup B) + Total(L, C)
    BY <1>2, <1>9, TotalUnion
  <1>11. Total(L, A \cup B) = Total(L, A) + Total(L, B)
    BY <1>2, <1>9, TotalUnion
  <1>12. Total(L, A) \in Int /\ Total(L, B) \in Int /\ Total(L, C) \in Int
    BY <1>2, AmountsFacts
  <1>13. period.opening + Total(past[listed], period.entries) = period.closing - Total(L, C)
    BY <1>6, <1>7, <1>8, <1>10, <1>11, <1>12
  <1> QED BY <1>1, <1>4, <1>5, <1>13

LEMMA PeriodsMeet ==
    ASSUME IInv, Recalled, NEW to \in 1..(LastDay - 1), NEW closed \in 1..Len(past)
    PROVE  LET period == Statement(to, to, Met(closed, closed, closed))
               next == Statement(to + 1, to + 1, Met(Len(past), Len(past), Len(past)))
           IN  period.closing = next.opening - Total(ledger, View(ledger, to) \cap Since(closed))
  <1>1. PICK L, now : L = ledger /\ now = Len(past)
    OBVIOUS
  <1>2. Readable(L) /\ now = Len(L) + 1 /\ now \in 1..now
    <2>1. Readable(L) /\ now = Len(L) + 1
      BY <1>1, LedgerReadable DEF IInv, Recalled
    <2> QED BY <1>1, <2>1 DEF Readable
  <1>3. to \in Int /\ (to + 1) - 1 = to
    BY SettlementAssumption
  <1>4. PICK A, C, Z : /\ A = {i \in View(L, to) : i < closed}
                       /\ C = View(L, to) \cap Since(closed)
                       /\ Z = {i \in View(L, to) : i < now}
    OBVIOUS
  <1>5. PICK period, next : /\ period = Statement(to, to, Met(closed, closed, closed))
                            /\ next = Statement(to + 1, to + 1, Met(now, now, now))
    OBVIOUS
  <1>6. period.closing = Total(L, A)
    <2>1. period.closing = BalanceOf(past[closed], to)
      BY <1>5 DEF Statement, Met
    <2> QED BY <1>1, <1>3, <1>4, <2>1, AsRead
  <1>7. next.opening = Total(L, Z)
    <2>1. next.opening = BalanceOf(past[now], to)
      BY <1>3, <1>5 DEF Statement, Met
    <2> QED BY <1>1, <1>2, <1>3, <1>4, <2>1, AsRead
  <1>8. Z = A \cup C /\ A \cap C = {}
    <2>1. \A i \in 1..Len(L) : i \in Nat /\ i < now
      BY <1>2 DEF Readable
    <2>2. /\ \A i : i \in A <=> i \in 1..Len(L) /\ L[i].date <= to /\ i < closed
          /\ \A i : i \in C <=> i \in 1..Len(L) /\ L[i].date <= to /\ closed <= i
          /\ \A i : i \in Z <=> i \in 1..Len(L) /\ L[i].date <= to /\ i < now
      BY <1>1, <1>4 DEF View, Since
    <2>3. ASSUME NEW i \in 1..Len(L)
          PROVE  (i \in Z <=> i \in A \/ i \in C) /\ ~(i \in A /\ i \in C)
      BY <2>1, <2>2
    <2> QED BY <2>2, <2>3
  <1>9. Total(L, Z) = Total(L, A) + Total(L, C)
    BY <1>2, <1>8, TotalUnion
  <1>10. Total(L, A) \in Int /\ Total(L, C) \in Int
    BY <1>2, AmountsFacts
  <1>11. period.closing = next.opening - Total(L, C)
    BY <1>6, <1>7, <1>9, <1>10
  <1> QED BY <1>1, <1>4, <1>5, <1>11

\* customer_statement is out by exactly what was committed between its queries, for any
\* ledger, any period and any commits in between.
THEOREM StatementsReconcileHolds == Spec => []StatementsReconcile
  <1>1. IInv /\ Recalled => StatementsReconcile
    BY StatementsAdd, PeriodsMeet DEF StatementsReconcile
  <1> QED BY <1>1, Invariance, RecalledHolds, PTL

----------------------------------------------------------------------------
(* The opening balance import                                               *)

\* What an invocation has behind it is carried; it inserts only a row that _read accepted.
Behind(r) ==
    /\ \A i \in Accepted(run[r].file) : i < run[r].at => Carried(run[r].file[i].party)
    /\ run[r].phase = "insert" => run[r].at \in Accepted(run[r].file)
    /\ run[r].phase = "reconcile" => run[r].at > Len(run[r].file)

\* A file the owner has a signed report for.
SignedOff(rows) ==
    /\ Clean(rows) /\ Reconciled(rows)
    /\ \A i \in 1..Len(rows) : Carried(rows[i].party)

LoadInv ==
    /\ LoadTypeOK
    /\ OneOpeningEach
    /\ \A r \in Runs : run[r] # NotRunning => Behind(r)
    /\ \A rows \in signed : SignedOff(rows)

\* Rows have amounts, and accepted ones name parties.
LEMMA RowFacts ==
    ASSUME NEW rows \in Files
    PROVE  /\ Len(rows) \in Nat
           /\ \A i \in 1..Len(rows) : rows[i].amount \in Int
           /\ \A i \in Accepted(rows) : i \in 1..Len(rows) /\ rows[i].party \in Parties
  <1>1. rows \in Seq(Rows) /\ Len(rows) \in Nat
    BY LoadAssumption
  <1>2. \A i \in 1..Len(rows) : rows[i] \in Rows
    BY <1>1
  <1>3. ASSUME NEW i \in 1..Len(rows)
        PROVE  rows[i].amount \in Int /\ rows[i].party \in Parties \cup {Stranger}
    <2>1. rows[i] \in Rows
      BY <1>2
    <2> QED BY <2>1 DEF Rows
  <1> QED BY <1>1, <1>3 DEF Accepted, Refused

\* to_money of a whole number is one.
LEMMA ToMoneyInt == ASSUME NEW a \in Int PROVE ToMoney(a) \in Int
  <1>1. PICK n \in Nat : n = Magnitude(a)
    BY DEF Magnitude
  <1>2. PICK m \in Nat : m = 10 * ((n + 5) \div 10)
    BY SMT
  <1> QED BY <1>1, <1>2 DEF ToMoney

\* While no party is opened or reopened that was carried, signed reports stay true.
LEMMA SignedStays ==
    ASSUME LoadInv, NEW rows \in Files, SignedOff(rows),
           opening' \in [Parties -> Seq(Int)],
           \A p \in Parties : Carried(p) => opening'[p] = opening[p]
    PROVE  SignedOff(rows)'
  <1>1. Clean(rows) /\ Reconciled(rows) /\ \A i \in 1..Len(rows) : Carried(rows[i].party)
    BY DEF SignedOff
  <1>2. \A i \in 1..Len(rows) : rows[i].party \in Parties
    BY <1>1, RowFacts DEF Clean
  <1>3. \A i \in 1..Len(rows) : opening'[rows[i].party] = opening[rows[i].party]
    BY <1>1, <1>2
  <1>4. \A i \in 1..Len(rows) : Carried(rows[i].party)'
    BY <1>1, <1>3 DEF Carried
  <1>5. ASSUME NEW class PROVE LoadedTotal(rows, class)' = LoadedTotal(rows, class)
    <2>1. PICK f : f = [i \in 1..Len(rows) |->
                         IF i \in OfClass(rows, class) THEN OpeningAmount(rows[i].party) ELSE 0]
      OBVIOUS
    <2>2. PICK g : g = [i \in 1..Len(rows) |->
                         IF i \in OfClass(rows, class) THEN OpeningAmount(rows[i].party)' ELSE 0]
      OBVIOUS
    <2>3. \A i \in 1..Len(rows) : f[i] = g[i]
      BY <1>3, <2>1, <2>2 DEF OpeningAmount, Carried
    <2>4. SumOf(f, Len(rows)) = SumOf(g, Len(rows))
      BY <2>3, RowFacts, SumSame
    <2>5. LoadedTotal(rows, class) = SumOf(f, Len(rows))
      BY <2>1 DEF LoadedTotal
    <2>6. LoadedTotal(rows, class)' = SumOf(g, Len(rows))
      BY <2>2 DEF LoadedTotal
    <2> QED BY <2>4, <2>5, <2>6
  <1>6. Reconciled(rows)'
    BY <1>1, <1>5 DEF Reconciled
  <1> QED BY <1>1, <1>4, <1>6 DEF SignedOff

\* A step that leaves the ledger alone keeps what other invocations have behind them.
LEMMA LoadFrame ==
    ASSUME LoadInv, NEW r \in Runs, UNCHANGED opening,
           run' \in [Runs -> Invocations \cup {NotRunning}],
           \A s \in Runs : s # r => run'[s] = run[s],
           run'[r] # NotRunning => Behind(r)'
    PROVE  /\ opening' \in [Parties -> Seq(Int)] /\ OneOpeningEach'
           /\ \A s \in Runs : run'[s] # NotRunning => Behind(s)'
           /\ \A rows \in signed : SignedOff(rows)'
  <1>1. opening' \in [Parties -> Seq(Int)] /\ OneOpeningEach'
    BY DEF LoadInv, LoadTypeOK, OneOpeningEach
  <1>2. ASSUME NEW s \in Runs, run'[s] # NotRunning PROVE Behind(s)'
    <2>1. CASE s = r
      BY <1>2, <2>1
    <2>2. CASE s # r
      BY <1>2, <2>2 DEF LoadInv, Behind, Carried
    <2> QED BY <2>1, <2>2
  <1>3. \A rows \in signed : SignedOff(rows)'
    BY <1>1, SignedStays DEF LoadInv, LoadTypeOK
  <1> QED BY <1>1, <1>2, <1>3

\* Ending an invocation, in any way that writes nothing.
LEMMA AbortKeeps ==
    ASSUME LoadInv, NEW r \in Runs, Abort(r), UNCHANGED opening
    PROVE  /\ run' \in [Runs -> Invocations \cup {NotRunning}]
           /\ opening' \in [Parties -> Seq(Int)] /\ OneOpeningEach'
           /\ \A s \in Runs : run'[s] # NotRunning => Behind(s)'
           /\ \A rows \in signed : SignedOff(rows)'
  <1>1. run \in [Runs -> Invocations \cup {NotRunning}]
    BY DEF LoadInv, LoadTypeOK
  <1>2. run' \in [Runs -> Invocations \cup {NotRunning}] /\ run'[r] = NotRunning
    BY <1>1 DEF Abort
  <1>3. \A s \in Runs : s # r => run'[s] = run[s]
    BY <1>1 DEF Abort
  <1> QED BY <1>2, <1>3, LoadFrame

\* The invocation that is under way.
LEMMA Running ==
    ASSUME LoadInv, NEW r \in Runs, run[r] # NotRunning
    PROVE  /\ run[r] \in Invocations /\ run[r].file \in Files /\ run[r].at \in Nat
           /\ Behind(r)
  <1>1. run[r] \in Invocations
    BY DEF LoadInv, LoadTypeOK
  <1> QED BY <1>1 DEF LoadInv, Invocations

LEMMA StartKeeps == ASSUME LoadInv, NEW r \in Runs, Start(r) PROVE LoadInv'
  <1>1. /\ run' = [run EXCEPT ![r] = [phase |-> "row", file |-> file, at |-> 1]]
        /\ UNCHANGED <<file, edited, opening, signed, crashes>>
    BY DEF Start
  <1>2. run \in [Runs -> Invocations \cup {NotRunning}] /\ file \in Files
    BY DEF LoadInv, LoadTypeOK
  <1>3. [phase |-> "row", file |-> file, at |-> 1] \in Invocations
    BY <1>2 DEF Invocations
  <1>4. /\ run' \in [Runs -> Invocations \cup {NotRunning}]
        /\ \A s \in Runs : s # r => run'[s] = run[s]
        /\ run'[r] = [phase |-> "row", file |-> file, at |-> 1]
    BY <1>1, <1>2, <1>3
  <1>5. Behind(r)'
    <2>1. \A i \in Accepted(file) : i \in 1..Len(file)
      BY DEF Accepted
    <2>2. \A i \in Accepted(file) : ~(i < 1)
      BY <2>1
    <2> QED BY <1>1, <1>4, <2>2 DEF Behind, Accepted
  <1>6. /\ opening' \in [Parties -> Seq(Int)] /\ OneOpeningEach'
        /\ \A s \in Runs : run'[s] # NotRunning => Behind(s)'
        /\ \A rows \in signed : SignedOff(rows)'
    BY <1>1, <1>4, <1>5, LoadFrame
  <1> QED BY <1>1, <1>2, <1>4, <1>6 DEF LoadInv, LoadTypeOK

\* Going on to the next row, when this one is refused or carried.
LEMMA NextRowFacts ==
    ASSUME LoadInv, NEW r \in Runs, run[r] # NotRunning, NextRow(r),
           NEW f \in Files, NEW n \in Nat, f = run[r].file, n = run[r].at,
           opening' \in [Parties -> Seq(Int)],
           \A p \in Parties : Carried(p) => opening'[p] = opening[p],
           n \in Accepted(f) => Carried(f[n].party)'
    PROVE  /\ run' \in [Runs -> Invocations \cup {NotRunning}]
           /\ \A s \in Runs : s # r => run'[s] = run[s]
           /\ Behind(r)'
  <1>1. f = run[r].file /\ n = run[r].at /\ n + 1 \in Nat
    OBVIOUS
  <1>2. run[r] \in Invocations
    BY Running
  <1>3. run \in [Runs -> Invocations \cup {NotRunning}]
    BY DEF LoadInv, LoadTypeOK
  <1>4. run' = [run EXCEPT ![r] = [run[r] EXCEPT !.phase = "row", !.at = n + 1]]
    BY <1>1, <1>3 DEF NextRow
  <1>5. [run[r] EXCEPT !.phase = "row", !.at = n + 1] \in Invocations
    BY <1>1, <1>2 DEF Invocations
  <1>6. /\ run'[r].file = f /\ run'[r].at = n + 1 /\ run'[r].phase = "row"
        /\ \A s \in Runs : s # r => run'[s] = run[s]
        /\ run' \in [Runs -> Invocations \cup {NotRunning}]
    BY <1>1, <1>2, <1>3, <1>4, <1>5 DEF Invocations
  <1>7. ASSUME NEW i \in Accepted(f), i < n + 1 PROVE Carried(f[i].party)'
    <2>1. i \in Nat /\ f[i].party \in Parties
      BY RowFacts
    <2>2. CASE i < n
      <3>1. Carried(f[i].party)
        BY <1>1, <2>2, Running DEF Behind
      <3> QED BY <2>1, <3>1 DEF Carried
    <2>3. CASE i = n
      BY <1>1, <2>3
    <2> QED BY <1>7, <2>1, <2>2, <2>3
  <1> QED BY <1>6, <1>7 DEF Behind, Accepted

LEMMA LoadCheckKeeps == ASSUME LoadInv, NEW r \in Runs, LoadCheck(r) PROVE LoadInv'
  <1>1. run[r].phase = "row" /\ UNCHANGED <<file, edited, opening, signed, crashes>>
    BY DEF LoadCheck
  <1>2. run[r] # NotRunning
    BY <1>1 DEF NotRunning
  <1>3. PICK f \in Files, n \in Nat : f = run[r].file /\ n = run[r].at
    BY <1>2, Running
  <1>4. run[r] \in Invocations /\ Behind(r)
    BY <1>2, Running
  <1>5. run \in [Runs -> Invocations \cup {NotRunning}]
    BY DEF LoadInv, LoadTypeOK
  <1>6. ASSUME NEW ph \in {"insert", "reconcile"}, run' = [run EXCEPT ![r].phase = ph],
               ph = "insert" => n \in Accepted(f), ph = "reconcile" => n > Len(f)
        PROVE  /\ run' \in [Runs -> Invocations \cup {NotRunning}]
               /\ \A s \in Runs : s # r => run'[s] = run[s]
               /\ Behind(r)'
    <2>1. run' = [run EXCEPT ![r] = [run[r] EXCEPT !.phase = ph]]
      BY <1>5, <1>6
    <2>2. [run[r] EXCEPT !.phase = ph] \in Invocations
      BY <1>4 DEF Invocations
    <2>3. /\ run'[r].file = f /\ run'[r].at = n /\ run'[r].phase = ph
          /\ \A s \in Runs : s # r => run'[s] = run[s]
          /\ run' \in [Runs -> Invocations \cup {NotRunning}]
      BY <1>3, <1>4, <1>5, <2>1, <2>2 DEF Invocations
    <2> QED BY <1>1, <1>3, <1>4, <1>6, <2>3 DEF Behind, Carried
  <1>7. \/ run' = [run EXCEPT ![r].phase = "reconcile"] /\ n > Len(f)
        \/ NextRow(r) /\ (n \in Accepted(f) => Carried(f[n].party))
        \/ run' = [run EXCEPT ![r].phase = "insert"] /\ n \in Accepted(f)
    BY <1>3 DEF LoadCheck, Row
  <1>8. /\ run' \in [Runs -> Invocations \cup {NotRunning}]
        /\ \A s \in Runs : s # r => run'[s] = run[s]
        /\ Behind(r)'
    <2>1. CASE NextRow(r) /\ (n \in Accepted(f) => Carried(f[n].party))
      <3>1. n \in Accepted(f) => Carried(f[n].party)'
        BY <1>1, <2>1 DEF Carried
      <3>2. opening' \in [Parties -> Seq(Int)]
        BY <1>1 DEF LoadInv, LoadTypeOK
      <3>3. \A p \in Parties : Carried(p) => opening'[p] = opening[p]
        BY <1>1
      <3> QED BY <1>2, <1>3, <2>1, <3>1, <3>2, <3>3, NextRowFacts
    <2> QED BY <1>6, <1>7, <2>1
  <1>9. /\ opening' \in [Parties -> Seq(Int)] /\ OneOpeningEach'
        /\ \A s \in Runs : run'[s] # NotRunning => Behind(s)'
        /\ \A rows \in signed : SignedOff(rows)'
    BY <1>1, <1>8, LoadFrame
  <1> QED BY <1>1, <1>8, <1>9 DEF LoadInv, LoadTypeOK

\* The row goes in only when nothing is carried for its party.
LEMMA LoadInsertKeeps == ASSUME LoadInv, NEW r \in Runs, LoadInsert(r) PROVE LoadInv'
  <1>1. run[r].phase = "insert" /\ UNCHANGED <<file, edited, signed, crashes>>
    BY DEF LoadInsert
  <1>2. run[r] # NotRunning
    BY <1>1 DEF NotRunning
  <1>3. PICK f \in Files, n \in Nat : f = run[r].file /\ n = run[r].at
    BY <1>2, Running
  <1>4. n \in Accepted(f)
    BY <1>1, <1>2, <1>3, Running DEF Behind
  <1>5. PICK p \in Parties, amount \in Int : p = f[n].party /\ amount = ToMoney(f[n].amount)
    BY <1>4, RowFacts, ToMoneyInt
  <1>6. /\ opening \in [Parties -> Seq(Int)] /\ signed \subseteq Files
        /\ \A q \in Parties : Len(opening[q]) <= 1
    BY DEF LoadInv, LoadTypeOK, OneOpeningEach
  <1>7. CASE ~Carried(p) /\ opening' = [opening EXCEPT ![p] = Append(opening[p], amount)] /\ NextRow(r)
    <2>1. opening[p] = <<>> /\ opening'[p] = <<amount>> /\ \A q \in Parties : q # p => opening'[q] = opening[q]
      BY <1>6, <1>7 DEF Carried
    <2>2. opening' \in [Parties -> Seq(Int)]
      BY <1>6, <1>7
    <2>3. OneOpeningEach'
      <3>1. Len(opening'[p]) <= 1
        <4>1. Len(<<amount>>) <= 1
          OBVIOUS
        <4> QED BY <2>1, <4>1
      <3>2. ASSUME NEW q \in Parties PROVE Len(opening'[q]) <= 1
        <4>1. CASE q = p
          BY <3>1, <4>1
        <4>2. CASE q # p
          BY <1>6, <2>1, <4>2
        <4> QED BY <4>1, <4>2
      <3> QED BY <3>2 DEF OneOpeningEach
    <2>4. \A q \in Parties : Carried(q) => opening'[q] = opening[q]
      BY <1>7, <2>1
    <2>5. Carried(f[n].party)'
      BY <1>5, <2>1 DEF Carried
    <2>6. /\ run' \in [Runs -> Invocations \cup {NotRunning}]
          /\ \A s \in Runs : s # r => run'[s] = run[s]
          /\ Behind(r)'
      BY <1>2, <1>3, <1>7, <2>2, <2>4, <2>5, NextRowFacts
    <2>7. ASSUME NEW s \in Runs, run'[s] # NotRunning PROVE Behind(s)'
      <3>1. CASE s = r
        BY <2>6, <3>1
      <3>2. CASE s # r
        <4>1. run[s] # NotRunning /\ run'[s] = run[s]
          BY <2>6, <2>7, <3>2
        <4>2. PICK g \in Files : g = run[s].file
          BY <4>1, Running
        <4>3. Behind(s)
          BY <4>1, Running
        <4>4. ASSUME NEW i \in Accepted(g), Carried(g[i].party) PROVE Carried(g[i].party)'
          <5>1. g[i].party \in Parties
            BY RowFacts
          <5> QED BY <2>4, <4>4, <5>1 DEF Carried
        <4> QED BY <4>1, <4>2, <4>3, <4>4 DEF Behind, Accepted
      <3> QED BY <3>1, <3>2
    <2>8. \A rows \in signed : SignedOff(rows)'
      BY <1>6, <2>2, <2>4, SignedStays DEF LoadInv
    <2> QED BY <1>1, <2>2, <2>3, <2>6, <2>7, <2>8 DEF LoadInv, LoadTypeOK
  <1>8. CASE UNCHANGED opening /\ NextRow(r) /\ Carried(p)
    <2>1. Carried(f[n].party)'
      BY <1>5, <1>8 DEF Carried
    <2>2. opening' \in [Parties -> Seq(Int)]
      BY <1>6, <1>8
    <2>3. \A q \in Parties : Carried(q) => opening'[q] = opening[q]
      BY <1>8
    <2>4. /\ run' \in [Runs -> Invocations \cup {NotRunning}]
          /\ \A s \in Runs : s # r => run'[s] = run[s]
          /\ Behind(r)'
      BY <1>2, <1>3, <1>8, <2>1, <2>2, <2>3, NextRowFacts
    <2>5. /\ opening' \in [Parties -> Seq(Int)] /\ OneOpeningEach'
          /\ \A s \in Runs : run'[s] # NotRunning => Behind(s)'
          /\ \A rows \in signed : SignedOff(rows)'
      BY <1>8, <2>4, LoadFrame
    <2> QED BY <1>1, <2>4, <2>5 DEF LoadInv, LoadTypeOK
  <1>9. CASE UNCHANGED opening /\ Abort(r)
    <2>1. /\ run' \in [Runs -> Invocations \cup {NotRunning}]
          /\ opening' \in [Parties -> Seq(Int)] /\ OneOpeningEach'
          /\ \A s \in Runs : run'[s] # NotRunning => Behind(s)'
          /\ \A rows \in signed : SignedOff(rows)'
      BY <1>9, AbortKeeps
    <2> QED BY <1>1, <2>1 DEF LoadInv, LoadTypeOK
  <1> QED BY <1>3, <1>5, <1>7, <1>8, <1>9 DEF LoadInsert, Row

\* A report is signed after the last row, when every row is carried.
LEMMA ReconcileKeeps == ASSUME LoadInv, NEW r \in Runs, Reconcile(r) PROVE LoadInv'
  <1>1. /\ run[r].phase = "reconcile" /\ Abort(r) /\ UNCHANGED <<file, edited, opening, crashes>>
    BY DEF Reconcile
  <1>2. run[r] # NotRunning
    BY <1>1 DEF NotRunning
  <1>3. PICK f \in Files, n \in Nat : f = run[r].file /\ n = run[r].at
    BY <1>2, Running
  <1>4. \A i \in Accepted(f) : Carried(f[i].party)
    <2>1. n > Len(f) /\ \A i \in Accepted(f) : i < n => Carried(f[i].party)
      BY <1>1, <1>2, <1>3, Running DEF Behind
    <2>2. \A i \in Accepted(f) : i \in 1..Len(f) /\ Len(f) \in Nat
      BY RowFacts
    <2> QED BY <2>1, <2>2
  <1>5. \/ signed' = signed
        \/ signed' = signed \cup {f} /\ Clean(f) /\ Reconciled(f)
    BY <1>3 DEF Reconcile
  <1>6. /\ run' \in [Runs -> Invocations \cup {NotRunning}]
        /\ opening' \in [Parties -> Seq(Int)] /\ OneOpeningEach'
        /\ \A s \in Runs : run'[s] # NotRunning => Behind(s)'
        /\ \A rows \in signed : SignedOff(rows)'
    BY <1>1, AbortKeeps
  <1>7. Clean(f) /\ Reconciled(f) => SignedOff(f)'
    <2>1. Clean(f) /\ Reconciled(f) => SignedOff(f)
      BY <1>4 DEF SignedOff, Clean
    <2>2. \A p \in Parties : Carried(p) => opening'[p] = opening[p]
      BY <1>1
    <2> QED BY <1>6, <2>1, <2>2, SignedStays
  <1>8. \A rows \in signed' : SignedOff(rows)'
    BY <1>5, <1>6, <1>7
  <1>9. signed' \subseteq Files
    BY <1>5 DEF LoadInv, LoadTypeOK
  <1> QED BY <1>1, <1>6, <1>8, <1>9 DEF LoadInv, LoadTypeOK

LEMMA LoadInvariance == LoadSpec => []LoadInv
  <1>1. LoadInit => LoadInv
    <2> SUFFICES ASSUME LoadInit PROVE LoadInv
      OBVIOUS
    <2>1. opening \in [Parties -> Seq(Int)] /\ \A p \in Parties : Len(opening[p]) = 0
      BY DEF LoadInit
    <2>2. run \in [Runs -> Invocations \cup {NotRunning}] /\ \A r \in Runs : run[r] = NotRunning
      BY DEF LoadInit
    <2>3. /\ file \in Files /\ edited \in BOOLEAN /\ signed = {}
          /\ crashes \in 0..MaxCrashes
      <3>1. file \in Files /\ edited = FALSE /\ signed = {} /\ crashes = 0
        BY DEF LoadInit
      <3>2. 0 \in 0..MaxCrashes
        BY LoadAssumption
      <3> QED BY <3>1, <3>2
    <2> QED BY <2>1, <2>2, <2>3 DEF LoadInv, LoadTypeOK, OneOpeningEach
  <1>2. LoadInv /\ [LoadNext]_loadVars => LoadInv'
    <2> SUFFICES ASSUME LoadInv, [LoadNext]_loadVars PROVE LoadInv'
      OBVIOUS
    <2>1. ASSUME NEW r \in Runs, Die(r) PROVE LoadInv'
      <3>1. Abort(r) /\ UNCHANGED <<file, edited, opening, signed>> /\ crashes' \in 0..MaxCrashes
        BY <2>1, LoadAssumption DEF Die, LoadInv, LoadTypeOK
      <3> QED BY <3>1, AbortKeeps DEF LoadInv, LoadTypeOK
    <2>2. CASE EditFile
      <3>1. file' \in Files /\ edited' \in BOOLEAN /\ UNCHANGED <<opening, run, signed, crashes>>
        BY <2>2 DEF EditFile
      <3> QED BY <3>1 DEF LoadInv, LoadTypeOK, OneOpeningEach, Behind, SignedOff, Carried,
                          Reconciled, LoadedTotal, OpeningAmount
    <2>3. CASE UNCHANGED loadVars
      BY <2>3 DEF loadVars, LoadInv, LoadTypeOK, OneOpeningEach, Behind, SignedOff, Carried,
                  Reconciled, LoadedTotal, OpeningAmount
    <2> QED BY <2>1, <2>2, <2>3, StartKeeps, LoadCheckKeeps, LoadInsertKeeps, ReconcileKeeps
            DEF LoadNext, Step
  <1> QED BY <1>1, <1>2, PTL DEF LoadSpec

\* No party has two opening balances, for any number of invocations, deaths and files.
THEOREM OneOpeningEachHolds == LoadSpec => []OneOpeningEach
  <1>1. LoadInv => OneOpeningEach
    BY DEF LoadInv
  <1> QED BY <1>1, LoadInvariance, PTL

\* What the owner signed stays true, and a class with one party was opened with the
\* amount of the file.
THEOREM SignedIsLoadedHolds == LoadSpec => []SignedIsLoaded
  <1>1. LoadInv => SignedIsLoaded
    <2> SUFFICES ASSUME LoadInv, NEW rows \in signed
                 PROVE  /\ Reconciled(rows)
                        /\ \A i \in 1..Len(rows) :
                              /\ Carried(rows[i].party)
                              /\ \A class \in {Customers, Suppliers} :
                                    OfClass(rows, class) = {i} => opening[rows[i].party] = <<rows[i].amount>>
      BY DEF SignedIsLoaded
    <2>1. rows \in Files /\ Clean(rows) /\ Reconciled(rows)
          /\ \A i \in 1..Len(rows) : Carried(rows[i].party)
      BY DEF LoadInv, LoadTypeOK, SignedOff
    <2>2. ASSUME NEW i \in 1..Len(rows), NEW class \in {Customers, Suppliers},
                 OfClass(rows, class) = {i}
          PROVE  opening[rows[i].party] = <<rows[i].amount>>
      <3>1. PICK n \in Nat, p \in Parties, a \in Int :
                n = Len(rows) /\ p = rows[i].party /\ a = rows[i].amount
        BY <2>1, RowFacts DEF Clean
      <3>2. opening[p] \in Seq(Int) /\ opening[p] # <<>> /\ Len(opening[p]) <= 1
        BY <2>1, <3>1 DEF LoadInv, LoadTypeOK, OneOpeningEach, Carried
      <3>3. PICK h \in Int : h = Head(opening[p]) /\ opening[p] = <<h>>
        BY <3>2
      <3>4. PICK z : z = [j \in 1..n |-> 0]
        OBVIOUS
      <3>5. PICK f : f = [j \in 1..n |-> IF j \in {i} THEN rows[j].amount ELSE 0]
        OBVIOUS
      <3>6. PICK g : g = [j \in 1..n |-> IF j \in {i} THEN OpeningAmount(rows[j].party) ELSE 0]
        OBVIOUS
      <3>7. OpeningAmount(p) = h
        BY <3>2, <3>3 DEF OpeningAmount, Carried
      <3>8. /\ f[i] = a /\ g[i] = h /\ z[i] = 0
            /\ \A j \in 1..n : j # i => f[j] = 0 /\ g[j] = 0
            /\ \A j \in 1..n : z[j] = 0
        BY <3>1, <3>4, <3>5, <3>6, <3>7
      <3>9. SumOf(z, n) = 0
        BY <3>8, SumZeros
      <3>10. SumOf(f, n) = a
        <4>1. \A j \in 1..n : z[j] \in Int /\ f[j] \in Int
          BY <3>8
        <4>2. \A j \in 1..n : j # i => f[j] = z[j]
          BY <3>8
        <4>3. i \in 1..n
          BY <3>1
        <4>4. SumOf(f, n) = SumOf(z, n) + f[i] - z[i]
          BY <4>1, <4>2, <4>3, SumPoint
        <4> QED BY <3>8, <3>9, <4>4
      <3>11. SumOf(g, n) = h
        <4>1. \A j \in 1..n : z[j] \in Int /\ g[j] \in Int
          BY <3>8
        <4>2. \A j \in 1..n : j # i => g[j] = z[j]
          BY <3>8
        <4>3. i \in 1..n
          BY <3>1
        <4>4. SumOf(g, n) = SumOf(z, n) + g[i] - z[i]
          BY <4>1, <4>2, <4>3, SumPoint
        <4> QED BY <3>8, <3>9, <4>4
      <3>12. SourceTotal(rows, class) = SumOf(f, n)
        BY <2>2, <3>1, <3>5 DEF SourceTotal
      <3>13. LoadedTotal(rows, class) = SumOf(g, n)
        BY <2>2, <3>1, <3>6 DEF LoadedTotal
      <3>14. a = h
        BY <2>1, <3>10, <3>11, <3>12, <3>13 DEF Reconciled
      <3> QED BY <3>1, <3>3, <3>14
    <2> QED BY <2>1, <2>2
  <1> QED BY <1>1, LoadInvariance, PTL
=============================================================================
