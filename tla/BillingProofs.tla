----------------------------- MODULE BillingProofs -----------------------------
(****************************************************************************)
(* Proofs about Billing, and about the credit gate that measures while it   *)
(* runs, for any orders, workers, years, keys and amounts.                  *)
(****************************************************************************)
EXTENDS CreditExposure, SequenceTheorems, TLAPS

HoldsOrder(w) == Running(w) /\ tx[w].kind = "INVOICE"
HoldsInvoice(w) == tx[w].kind = "CREDIT_NOTE" /\ tx[w].phase \in {"locked", "numbered"}
HoldsSeries(w) == tx[w].phase = "numbered"

\* Each row lock has at most one holder.
LocksExclusive ==
    \A v, w \in Workers : v # w =>
        /\ HoldsOrder(v) /\ HoldsOrder(w) => Mine(v) # Mine(w)
        /\ HoldsInvoice(v) /\ HoldsInvoice(w) => Mine(v) # Mine(w)
        /\ HoldsSeries(v) /\ HoldsSeries(w) => SeriesOf(v) # SeriesOf(w)

\* What a transaction checked under its lock is still true while it holds it.
StillTrue(w) ==
    /\ tx[w].phase = "checked" => tx[w].kind = "CREDIT_NOTE"
    /\ HoldsOrder(w) => invoice[Mine(w)] = NoInvoice
    /\ HoldsInvoice(w) => /\ invoice[Mine(w)].status = "ISSUED"
                          /\ WithinCap(Mine(w), tx[w].units)
    /\ HoldsSeries(w) => tx[w].number = current[SeriesOf(w)] + 1

ChecksStillTrue == \A w \in Workers : StillTrue(w)

\* The inductive invariant.
IInv ==
    /\ TypeOK
    /\ LocksExclusive
    /\ ChecksStillTrue
    /\ Gapless
    /\ CreditedWithinInvoice
    /\ BooksAgree

----------------------------------------------------------------------------
(* Money                                                                    *)

\* Rounding a non-negative quotient gives a whole number of paise (to_money).
LEMMA ToMoneyNat ==
    ASSUME NEW n \in Nat, NEW d \in Nat \ {0}
    PROVE  ToMoney(n, d) \in Nat
  <1>1. 2 * n + d \in Nat /\ 2 * d \in Nat \ {0}
    OBVIOUS
  <1>2. ASSUME NEW a \in Nat, NEW b \in Nat \ {0} PROVE a \div b \in Nat
    OBVIOUS
  <1>3. QED
    BY <1>1, <1>2 DEF ToMoney

\* The rounded payable is a non-negative amount (_round_off).
LEMMA RoundOffNat ==
    ASSUME NEW t \in Nat
    PROVE  RoundOff(t) \in Nat
  <1>1. ToMoney(t, 100) \in Nat
    BY ToMoneyNat
  <1>2. QED
    BY <1>1 DEF RoundOff

\* Every invoice total and every credit note payable is a non-negative amount.
LEMMA AmountsNat ==
    ASSUME NEW o \in Orders
    PROVE  /\ InvoiceTotal(o) \in Nat
           /\ \A q \in Nat : NotePayable(o, q) \in Nat
  <1>1. Taxable[o] \in Nat /\ Tax[o] \in Nat /\ Units[o] \in Nat \ {0}
    BY ChargeAssumption
  <1>2. InvoiceTotal(o) \in Nat
    BY <1>1, RoundOffNat DEF InvoiceTotal
  <1>3. ASSUME NEW q \in Nat PROVE NotePayable(o, q) \in Nat
    <2>1. Taxable[o] * q \in Nat /\ Tax[o] * q \in Nat
      BY <1>1
    <2>2. /\ ToMoney(Taxable[o] * q, Units[o]) \in Nat
          /\ ToMoney(Tax[o] * q, Units[o]) \in Nat
      BY <1>1, <2>1, ToMoneyNat
    <2>3. ToMoney(Taxable[o] * q, Units[o]) + ToMoney(Tax[o] * q, Units[o]) \in Nat
      BY <2>2
    <2>4. QED
      BY <2>3, RoundOffNat DEF NotePayable
  <1>4. QED
    BY <1>2, <1>3

\* The numbers 1, 2, ..., n followed by n + 1 are the numbers 1, 2, ..., n + 1.
LEMMA NextNumber ==
    ASSUME NEW n \in Nat, NEW s \in Seq(Nat), s = [i \in 1..n |-> i]
    PROVE  Append(s, n + 1) = [i \in 1..(n + 1) |-> i]
  <1>1. Len(s) = n
    BY LenProperties
  <1>2. Append(s, n + 1) \in Seq(Nat) /\ Len(Append(s, n + 1)) = n + 1
    BY <1>1, AppendProperties
  <1>3. \A i \in 1..(n + 1) : Append(s, n + 1)[i] = i
    BY <1>1, AppendProperties
  <1>4. DOMAIN Append(s, n + 1) = 1..(n + 1)
    BY <1>2, LenProperties
  <1>5. QED
    BY <1>2, <1>3, <1>4

----------------------------------------------------------------------------
(* Type correctness and the shape of a transaction                          *)

\* A transaction that has begun names a real order, year, quantity and key.
LEMMA RunningTyped ==
    ASSUME TypeOK, NEW w \in Workers, Running(w)
    PROVE  /\ tx[w] \in [phase : {"checked", "locked", "numbered"}, kind : Kinds,
                         order : Orders, year : Years, units : Nat,
                         key : Keys \cup {NoKey}, number : Nat]
           /\ Mine(w) \in Orders
           /\ SeriesOf(w) \in Series
           /\ InvoiceTotal(Mine(w)) \in Nat
           /\ NotePayable(Mine(w), tx[w].units) \in Nat
  <1>1. tx[w] \in Transactions /\ tx[w] # IdleTx
    BY DEF TypeOK, Running, IdleTx
  <1>2. tx[w] \in [phase : {"checked", "locked", "numbered"}, kind : Kinds,
                   order : Orders, year : Years, units : Nat,
                   key : Keys \cup {NoKey}, number : Nat]
    BY <1>1 DEF Transactions
  <1>3. Mine(w) \in Orders /\ SeriesOf(w) \in Series /\ tx[w].units \in Nat
    BY <1>2 DEF Mine, SeriesOf, Series
  <1>4. QED
    BY <1>2, <1>3, AmountsNat

\* The initial tables are empty and no transaction runs.
LEMMA InitInv == Init => IInv
  <1> SUFFICES ASSUME Init PROVE IInv
    OBVIOUS
  <1> USE DEF Init
  <1>1. TypeOK
    BY DEF TypeOK, OrderClass, Invoices, NoInvoice, Transactions
  <1>2. ASSUME NEW w \in Workers PROVE ~Running(w) /\ ~HoldsInvoice(w) /\ ~HoldsSeries(w)
    BY DEF Running, HoldsInvoice, HoldsSeries, IdleTx
  <1>3. LocksExclusive
    BY <1>2 DEF LocksExclusive, HoldsOrder
  <1>4. ChecksStillTrue
    BY <1>2 DEF ChecksStillTrue, StillTrue, HoldsOrder, IdleTx
  <1>5. Gapless
    <2>1. ASSUME NEW s \in Series PROVE numbers[s] = [i \in 1..current[s] |-> i]
      <3>1. numbers[s] = << >> /\ current[s] = 0
        OBVIOUS
      <3>2. << >> = [i \in 1..0 |-> i]
        OBVIOUS
      <3>3. QED
        BY <3>1, <3>2
    <2>2. QED
      BY <2>1 DEF Gapless
  <1>6. CreditedWithinInvoice
    <2>1. ASSUME NEW o \in Orders PROVE credited[o] <= invoice[o].total
      <3>1. credited[o] = 0 /\ invoice[o] = NoInvoice
        OBVIOUS
      <3>2. NoInvoice.total = 0
        BY DEF NoInvoice
      <3>3. 0 <= 0
        OBVIOUS
      <3>4. QED
        BY <3>1, <3>2, <3>3
    <2>2. QED
      BY <2>1 DEF CreditedWithinInvoice
  <1>7. BooksAgree
    BY DEF BooksAgree, Owed, NoInvoice
  <1>8. QED
    BY <1>1, <1>3, <1>4, <1>5, <1>6, <1>7 DEF IInv

\* Typing of the documents a commit writes.
LEMMA NumberTyped ==
    ASSUME TypeOK, NEW w \in Workers, Running(w), Number(w)
    PROVE  current' \in [Series -> Nat] /\ numbers' \in [Series -> Seq(Nat)]
  <1>1. SeriesOf(w) \in Series /\ tx[w].number \in Nat
    BY RunningTyped
  <1>2. Append(numbers[SeriesOf(w)], tx[w].number) \in Seq(Nat)
    BY <1>1, AppendProperties DEF TypeOK
  <1>3. QED
    BY <1>1, <1>2 DEF Number, TypeOK

\* Every step of a worker preserves typing.
LEMMA WorkerTypeStep ==
    ASSUME TypeOK, NEW w \in Workers, Start(w) \/ Advance(w) \/ Crash(w)
    PROVE  TypeOK'
  <1>0. IdleTx \in Transactions
    BY DEF Transactions
  <1>1. ASSUME NEW o \in Orders, NEW y \in Years, InvoiceLock(w, o, y) PROVE TypeOK'
    <2>1. [IdleTx EXCEPT !.phase = "locked", !.kind = "INVOICE", !.order = o, !.year = y]
             \in Transactions
      BY DEF IdleTx, Transactions, Kinds
    <2>2. QED
      BY <1>1, <2>1 DEF InvoiceLock, TypeOK, docs
  <1>2. ASSUME NEW o \in Orders, NEW y \in Years, NEW q \in 1..(Units[o] + 1),
               NEW k \in Keys \cup {NoKey}, NoteCheck(w, o, q, k, y)
        PROVE  TypeOK'
    <2>1. q \in Nat
      BY ChargeAssumption
    <2>2. [phase |-> "checked", kind |-> "CREDIT_NOTE", order |-> o,
           year |-> y, units |-> q, key |-> k, number |-> 0] \in Transactions
      BY <2>1 DEF Transactions, Kinds
    <2>3. QED
      BY <1>2, <2>2 DEF NoteCheck, TypeOK, docs
  <1>3. CASE AllocateNumber(w)
    <2>1. Running(w)
      BY <1>3 DEF AllocateNumber, Running
    <2>2. current[SeriesOf(w)] + 1 \in Nat
      BY <2>1, RunningTyped DEF TypeOK
    <2>3. [tx[w] EXCEPT !.phase = "numbered", !.number = current[SeriesOf(w)] + 1]
             \in Transactions
      BY <2>1, <2>2, RunningTyped DEF Transactions
    <2>4. tx' = [tx EXCEPT ![w] = [tx[w] EXCEPT !.phase = "numbered",
                                                !.number = current[SeriesOf(w)] + 1]]
      BY <1>3 DEF AllocateNumber, TypeOK
    <2>5. QED
      BY <1>3, <2>3, <2>4 DEF AllocateNumber, TypeOK, docs
  <1>4. CASE InvoiceCommit(w)
    <2>1. Running(w)
      BY <1>4 DEF InvoiceCommit, Running
    <2>2. Mine(w) \in Orders /\ InvoiceTotal(Mine(w)) \in Nat
      BY <2>1, RunningTyped
    <2>3. current' \in [Series -> Nat] /\ numbers' \in [Series -> Seq(Nat)]
      BY <1>4, <2>1, NumberTyped DEF InvoiceCommit
    <2>4. invoice' \in [Orders -> Invoices]
      BY <1>4, <2>2 DEF InvoiceCommit, TypeOK, Invoices
    <2>5. balance' \in [Orders -> Int]
      BY <1>4, <2>2 DEF InvoiceCommit, TypeOK
    <2>6. QED
      BY <1>0, <1>4, <2>2, <2>3, <2>4, <2>5 DEF InvoiceCommit, TypeOK
  <1>5. CASE NoteLock(w)
    <2>1. Running(w)
      BY <1>5 DEF NoteLock, Running
    <2>2. [tx[w] EXCEPT !.phase = "locked"] \in Transactions
      BY <2>1, RunningTyped DEF Transactions
    <2>3. QED
      BY <1>5, <2>2 DEF NoteLock, TypeOK, docs
  <1>6. CASE NoteCommit(w)
    <2>1. Running(w)
      BY <1>6 DEF NoteCommit, Running
    <2>2. /\ Mine(w) \in Orders /\ NotePayable(Mine(w), tx[w].units) \in Nat
          /\ tx[w].key \in Keys \cup {NoKey}
      BY <2>1, RunningTyped
    <2>3. current' \in [Series -> Nat] /\ numbers' \in [Series -> Seq(Nat)]
      BY <1>6, <2>1, NumberTyped DEF NoteCommit
    <2>4. credited' \in [Orders -> Nat] /\ balance' \in [Orders -> Int]
      BY <1>6, <2>2 DEF NoteCommit, TypeOK
    <2>5. usedKeys' \subseteq Keys
      BY <1>6, <2>2 DEF NoteCommit, TypeOK
    <2>6. QED
      BY <1>0, <1>6, <2>3, <2>4, <2>5 DEF NoteCommit, TypeOK
  <1>7. CASE Refuse(w) \/ Crash(w)
    BY <1>0, <1>7 DEF Refuse, Crash, TypeOK, docs
  <1>8. QED
    BY <1>1, <1>2, <1>3, <1>4, <1>5, <1>6, <1>7 DEF Start, Advance

\* Every step preserves typing.
LEMMA TypeStep == TypeOK /\ [Next]_vars => TypeOK'
  <1> SUFFICES ASSUME TypeOK, [Next]_vars PROVE TypeOK'
    OBVIOUS
  <1>1. ASSUME NEW w \in Workers, Start(w) \/ Advance(w) \/ Crash(w) PROVE TypeOK'
    BY <1>1, WorkerTypeStep
  <1>2. ASSUME NEW o \in Orders, OrderMoves(o) PROVE TypeOK'
    BY <1>2 DEF OrderMoves, TypeOK, docs
  <1>3. ASSUME NEW o \in Orders, CancelInvoice(o) PROVE TypeOK'
    BY <1>3 DEF CancelInvoice, TypeOK, Invoices
  <1>4. CASE UNCHANGED vars
    BY <1>4 DEF vars, TypeOK
  <1>5. QED
    BY <1>1, <1>2, <1>3, <1>4 DEF Next

\* TypeOK holds of every reachable state of the billing services.
THEOREM TypeCorrect == Spec => []TypeOK
  <1>1. Init => TypeOK
    BY InitInv DEF IInv
  <1>2. QED
    BY <1>1, TypeStep, PTL DEF Spec

----------------------------------------------------------------------------
(* Transactions whose documents are left alone: a lock is taken, a number   *)
(* reserved, a transaction ends without a trace.                            *)

\* A worker's step leaves the transactions of the other workers alone.
LEMMA OthersTx ==
    ASSUME TypeOK, NEW w \in Workers, Start(w) \/ Advance(w) \/ Crash(w),
           NEW v \in Workers, v # w
    PROVE  tx'[v] = tx[v]
  BY DEF TypeOK, Start, Advance, InvoiceLock, NoteCheck, AllocateNumber, InvoiceCommit,
         NoteLock, NoteCommit, Refuse, Crash

\* A lock is granted only when nobody holds it, and kept until the transaction ends.
LEMMA LocksStep == IInv /\ [Next]_vars => LocksExclusive'
  <1> SUFFICES ASSUME IInv, [Next]_vars PROVE LocksExclusive'
    OBVIOUS
  <1>0. TypeOK /\ LocksExclusive /\ ChecksStillTrue
    BY DEF IInv
  <1>1. ASSUME NEW w \in Workers, Start(w) \/ Advance(w) \/ Crash(w)
        PROVE  LocksExclusive'
    <2>1. ASSUME NEW v \in Workers, v # w
          PROVE  /\ tx'[v] = tx[v] 
                 /\ HoldsOrder(v)' = HoldsOrder(v)
                 /\ HoldsInvoice(v)' = HoldsInvoice(v)
                 /\ HoldsSeries(v)' = HoldsSeries(v)
                 /\ Mine(v)' = Mine(v)
                 /\ SeriesOf(v)' = SeriesOf(v)
      <3>1. tx'[v] = tx[v]
        BY <1>0, <1>1, <2>1, OthersTx
      <3>2. QED
        BY <3>1 DEF HoldsOrder, HoldsInvoice, HoldsSeries, Running, Mine, SeriesOf
    <2>2. \* What w holds afterwards it held before, or nobody else did.
          /\ HoldsOrder(w)' => \/ HoldsOrder(w) /\ Mine(w)' = Mine(w)
                               \/ OrderFree(Mine(w)')
          /\ HoldsInvoice(w)' => \/ HoldsInvoice(w) /\ Mine(w)' = Mine(w)
                                 \/ InvoiceFree(Mine(w)')
          /\ HoldsSeries(w)' => SeriesFree(SeriesOf(w)')
      <3> USE DEF HoldsOrder, HoldsInvoice, HoldsSeries, Running, Mine, SeriesOf
      <3>1. ASSUME NEW o \in Orders, NEW y \in Years, InvoiceLock(w, o, y) PROVE <2>2!:
        BY <1>0, <3>1 DEF InvoiceLock, TypeOK, IdleTx
      <3>2. ASSUME NEW o \in Orders, NEW y \in Years, NEW q \in 1..(Units[o] + 1),
                   NEW k \in Keys \cup {NoKey}, NoteCheck(w, o, q, k, y)
            PROVE  <2>2!:
        BY <1>0, <3>2 DEF NoteCheck, TypeOK
      <3>3. CASE AllocateNumber(w)
        <4>1. Running(w)
          BY <3>3 DEF AllocateNumber
        <4>2. tx'[w] = [tx[w] EXCEPT !.phase = "numbered", !.number = current[SeriesOf(w)] + 1]
          BY <1>0, <3>3 DEF AllocateNumber, TypeOK
        <4>3. /\ tx'[w].order = tx[w].order
              /\ tx'[w].kind = tx[w].kind
              /\ tx'[w].year = tx[w].year
              /\ tx'[w].phase = "numbered"
          BY <1>0, <4>1, <4>2, RunningTyped
        <4>4. tx[w].phase = "locked" /\ SeriesFree(SeriesOf(w))
          BY <3>3 DEF AllocateNumber
        <4>5. QED
          BY <4>3, <4>4
      <3>4. CASE NoteLock(w)
        <4>1. Running(w) /\ tx[w].kind = "CREDIT_NOTE"
          BY <1>0, <3>4 DEF NoteLock, ChecksStillTrue, StillTrue
        <4>2. tx'[w] = [tx[w] EXCEPT !.phase = "locked"]
          BY <1>0, <3>4 DEF NoteLock, TypeOK
        <4>3. QED
          BY <1>0, <3>4, <4>1, <4>2, RunningTyped DEF NoteLock
      <3>5. CASE InvoiceCommit(w) \/ NoteCommit(w) \/ Refuse(w) \/ Crash(w)
        <4>1. tx'[w] = IdleTx
          BY <1>0, <3>5 DEF InvoiceCommit, NoteCommit, Refuse, Crash, TypeOK
        <4>2. QED
          BY <4>1 DEF IdleTx
      <3>6. QED
        BY <1>1, <3>1, <3>2, <3>3, <3>4, <3>5 DEF Start, Advance
    <2>3. ASSUME NEW v \in Workers, v # w
          PROVE  /\ HoldsOrder(v)' /\ HoldsOrder(w)' => Mine(v)' # Mine(w)'
                 /\ HoldsInvoice(v)' /\ HoldsInvoice(w)' => Mine(v)' # Mine(w)'
                 /\ HoldsSeries(v)' /\ HoldsSeries(w)' => SeriesOf(v)' # SeriesOf(w)'
      <3>1. /\ HoldsOrder(v) /\ HoldsOrder(w) => Mine(v) # Mine(w)
            /\ HoldsInvoice(v) /\ HoldsInvoice(w) => Mine(v) # Mine(w)
        BY <1>0, <2>3 DEF LocksExclusive
      <3>2. /\ \A o : OrderFree(o) /\ HoldsOrder(v) => Mine(v) # o
            /\ \A o : InvoiceFree(o) /\ HoldsInvoice(v) => Mine(v) # o
            /\ \A s : SeriesFree(s) /\ HoldsSeries(v) => SeriesOf(v) # s
        BY DEF OrderFree, InvoiceFree, SeriesFree, HoldsOrder, HoldsInvoice, HoldsSeries
      <3>3. QED
        BY <2>1, <2>2, <2>3, <3>1, <3>2
    <2>4. ASSUME NEW u \in Workers, NEW v \in Workers, u # v, u # w, v # w
          PROVE  /\ HoldsOrder(v)' /\ HoldsOrder(u)' => Mine(v)' # Mine(u)'
                 /\ HoldsInvoice(v)' /\ HoldsInvoice(u)' => Mine(v)' # Mine(u)'
                 /\ HoldsSeries(v)' /\ HoldsSeries(u)' => SeriesOf(v)' # SeriesOf(u)'
      BY <1>0, <2>1, <2>4 DEF LocksExclusive
    <2>5. QED
      BY <2>3, <2>4 DEF LocksExclusive
  <1>2. CASE UNCHANGED tx
    BY <1>0, <1>2 DEF LocksExclusive, HoldsOrder, HoldsInvoice, HoldsSeries, Running, Mine,
                      SeriesOf
  <1>3. QED
    BY <1>1, <1>2 DEF Next, OrderMoves, CancelInvoice, vars

----------------------------------------------------------------------------
(* What was checked under a lock stays true                                 *)

\* A transaction is disturbed only through the rows it depends on.
LEMMA Undisturbed ==
    ASSUME TypeOK, NEW v \in Workers, StillTrue(v), tx'[v] = tx[v],
           HoldsOrder(v) => invoice'[Mine(v)] = invoice[Mine(v)],
           HoldsInvoice(v) => /\ invoice'[Mine(v)] = invoice[Mine(v)]
                              /\ credited'[Mine(v)] = credited[Mine(v)],
           HoldsSeries(v) => current'[SeriesOf(v)] = current[SeriesOf(v)]
    PROVE  StillTrue(v)'
  <1>1. /\ HoldsOrder(v)' = HoldsOrder(v)
        /\ HoldsInvoice(v)' = HoldsInvoice(v)
        /\ HoldsSeries(v)' = HoldsSeries(v)
        /\ Mine(v)' = Mine(v)
        /\ SeriesOf(v)' = SeriesOf(v)
    BY DEF HoldsOrder, HoldsInvoice, HoldsSeries, Running, Mine, SeriesOf
  <1>2. (tx[v].phase = "checked" => tx[v].kind = "CREDIT_NOTE")'
    BY DEF StillTrue
  <1>3. (HoldsOrder(v) => invoice[Mine(v)] = NoInvoice)'
    BY <1>1 DEF StillTrue
  <1>4. (HoldsInvoice(v) => /\ invoice[Mine(v)].status = "ISSUED"
                            /\ WithinCap(Mine(v), tx[v].units))'
    BY <1>1 DEF StillTrue, WithinCap
  <1>5. (HoldsSeries(v) => tx[v].number = current[SeriesOf(v)] + 1)'
    BY <1>1 DEF StillTrue
  <1>6. QED
    BY <1>2, <1>3, <1>4, <1>5 DEF StillTrue

\* A transaction that has ended has nothing to keep true.
LEMMA IdleTrue ==
    ASSUME NEW w \in Workers, tx'[w] = IdleTx
    PROVE  StillTrue(w)'
  BY DEF StillTrue, HoldsOrder, HoldsInvoice, HoldsSeries, Running, IdleTx

\* A commit changes the series row it holds, and no other.
LEMMA NumberElsewhere ==
    ASSUME IInv, NEW w \in Workers, HoldsSeries(w), Number(w),
           NEW v \in Workers, v # w, HoldsSeries(v)
    PROVE  current'[SeriesOf(v)] = current[SeriesOf(v)]
  <1>1. Running(v) /\ Running(w)
    BY DEF HoldsSeries, Running
  <1>2. SeriesOf(v) \in Series /\ SeriesOf(w) \in Series
    BY <1>1, RunningTyped DEF IInv
  <1>3. SeriesOf(v) # SeriesOf(w)
    BY DEF IInv, LocksExclusive
  <1>4. QED
    BY <1>2, <1>3 DEF Number, IInv, TypeOK

\* Every step of a worker keeps what the transactions have checked true.
LEMMA WorkerChecksStep ==
    ASSUME IInv, NEW w \in Workers, Start(w) \/ Advance(w) \/ Crash(w)
    PROVE  ChecksStillTrue'
  <1>0. TypeOK /\ LocksExclusive /\ \A v \in Workers : StillTrue(v)
    BY DEF IInv, ChecksStillTrue
  <1>1. ASSUME NEW v \in Workers, v # w PROVE tx'[v] = tx[v]
    BY <1>0, <1>1, OthersTx
  <1>2. ASSUME UNCHANGED docs, NEW v \in Workers, v # w PROVE StillTrue(v)'
    BY <1>0, <1>1, <1>2, Undisturbed DEF docs
  <1>3. ASSUME NEW o \in Orders, NEW y \in Years, InvoiceLock(w, o, y)
        PROVE  ChecksStillTrue'
    <2>1. UNCHANGED docs
      BY <1>3 DEF InvoiceLock
    <2>2. StillTrue(w)'
      BY <1>0, <1>3 DEF StillTrue, InvoiceLock, docs, HoldsOrder, HoldsInvoice,
                        HoldsSeries, Running, Mine, IdleTx, TypeOK
    <2>3. QED
      BY <1>2, <2>1, <2>2 DEF ChecksStillTrue
  <1>4. ASSUME NEW o \in Orders, NEW y \in Years, NEW q \in 1..(Units[o] + 1),
               NEW k \in Keys \cup {NoKey}, NoteCheck(w, o, q, k, y)
        PROVE  ChecksStillTrue'
    <2>1. UNCHANGED docs
      BY <1>4 DEF NoteCheck
    <2>2. StillTrue(w)'
      BY <1>0, <1>4 DEF StillTrue, NoteCheck, HoldsOrder, HoldsInvoice, HoldsSeries,
                        Running, TypeOK
    <2>3. QED
      BY <1>2, <2>1, <2>2 DEF ChecksStillTrue
  <1>5. CASE AllocateNumber(w)
    <2>1. UNCHANGED docs /\ Running(w)
      BY <1>5 DEF AllocateNumber, Running
    <2>2. tx'[w] = [tx[w] EXCEPT !.phase = "numbered", !.number = current[SeriesOf(w)] + 1]
      BY <1>0, <1>5 DEF AllocateNumber, TypeOK
    <2>3. /\ tx'[w].order = tx[w].order
          /\ tx'[w].kind = tx[w].kind
          /\ tx'[w].year = tx[w].year
          /\ tx'[w].units = tx[w].units
          /\ tx'[w].phase = "numbered"
          /\ tx'[w].number = current[SeriesOf(w)] + 1
      BY <1>0, <2>1, <2>2, RunningTyped
    <2>4. tx[w].phase = "locked" /\ StillTrue(w)
      BY <1>0, <1>5 DEF AllocateNumber
    <2>5. StillTrue(w)'
      BY <2>1, <2>3, <2>4 DEF StillTrue, HoldsOrder, HoldsInvoice, HoldsSeries, Running,
                              Mine, SeriesOf, WithinCap, docs
    <2>6. QED
      BY <1>2, <2>1, <2>5 DEF ChecksStillTrue
  <1>6. CASE NoteLock(w)
    <2>1. UNCHANGED docs /\ Running(w) /\ tx[w].kind = "CREDIT_NOTE"
      BY <1>0, <1>6 DEF NoteLock, Running, StillTrue
    <2>2. tx'[w] = [tx[w] EXCEPT !.phase = "locked"]
      BY <1>0, <1>6 DEF NoteLock, TypeOK
    <2>3. /\ tx'[w].order = tx[w].order
          /\ tx'[w].kind = tx[w].kind
          /\ tx'[w].units = tx[w].units
          /\ tx'[w].phase = "locked"
      BY <1>0, <2>1, <2>2, RunningTyped
    <2>4. Creditable(Mine(w), tx[w].units)
      BY <1>6 DEF NoteLock
    <2>5. StillTrue(w)'
      BY <2>1, <2>3, <2>4 DEF StillTrue, HoldsOrder, HoldsInvoice, HoldsSeries, Running,
                              Mine, WithinCap, Creditable, docs
    <2>6. QED
      BY <1>2, <2>1, <2>5 DEF ChecksStillTrue
  <1>7. CASE InvoiceCommit(w)
    <2>1. HoldsSeries(w) /\ HoldsOrder(w) /\ Running(w)
      BY <1>7 DEF InvoiceCommit, HoldsSeries, HoldsOrder, Running
    <2>2. invoice[Mine(w)] = NoInvoice /\ Mine(w) \in Orders
      BY <1>0, <2>1, RunningTyped DEF StillTrue
    <2>3. ASSUME NEW v \in Workers, v # w PROVE StillTrue(v)'
      <3>1. HoldsOrder(v) => Mine(v) # Mine(w)
        BY <1>0, <2>1, <2>3 DEF LocksExclusive
      <3>2. HoldsInvoice(v) => Mine(v) # Mine(w)
        BY <1>0, <2>2, <2>3 DEF StillTrue, NoInvoice
      <3>3. HoldsOrder(v) \/ HoldsInvoice(v) => Mine(v) \in Orders
        BY <1>0, RunningTyped DEF HoldsOrder, HoldsInvoice, Running
      <3>4. HoldsOrder(v) \/ HoldsInvoice(v) => invoice'[Mine(v)] = invoice[Mine(v)]
        BY <1>0, <1>7, <3>1, <3>2, <3>3 DEF InvoiceCommit, TypeOK
      <3>5. HoldsSeries(v) => current'[SeriesOf(v)] = current[SeriesOf(v)]
        BY <1>7, <2>1, <2>3, NumberElsewhere DEF InvoiceCommit
      <3>6. credited' = credited
        BY <1>7 DEF InvoiceCommit
      <3>7. QED
        BY <1>0, <1>1, <2>3, <3>4, <3>5, <3>6, Undisturbed
    <2>4. StillTrue(w)'
      BY <1>0, <1>7, IdleTrue DEF InvoiceCommit, TypeOK
    <2>5. QED
      BY <2>3, <2>4 DEF ChecksStillTrue
  <1>8. CASE NoteCommit(w)
    <2>1. HoldsSeries(w) /\ HoldsInvoice(w) /\ Running(w)
      BY <1>8 DEF NoteCommit, HoldsSeries, HoldsInvoice, Running
    <2>2. Mine(w) \in Orders
      BY <1>0, <2>1, RunningTyped
    <2>3. ASSUME NEW v \in Workers, v # w PROVE StillTrue(v)'
      <3>1. HoldsInvoice(v) => Mine(v) # Mine(w) /\ Mine(v) \in Orders
        BY <1>0, <2>1, <2>3, RunningTyped DEF LocksExclusive, HoldsInvoice, Running
      <3>2. HoldsInvoice(v) => credited'[Mine(v)] = credited[Mine(v)]
        BY <1>0, <1>8, <3>1 DEF NoteCommit, TypeOK
      <3>3. HoldsSeries(v) => current'[SeriesOf(v)] = current[SeriesOf(v)]
        BY <1>8, <2>1, <2>3, NumberElsewhere DEF NoteCommit
      <3>4. invoice' = invoice
        BY <1>8 DEF NoteCommit
      <3>5. QED
        BY <1>0, <1>1, <2>3, <3>2, <3>3, <3>4, Undisturbed
    <2>4. StillTrue(w)'
      BY <1>0, <1>8, IdleTrue DEF NoteCommit, TypeOK
    <2>5. QED
      BY <2>3, <2>4 DEF ChecksStillTrue
  <1>9. CASE Refuse(w) \/ Crash(w)
    <2>1. UNCHANGED docs /\ tx'[w] = IdleTx
      BY <1>0, <1>9 DEF Refuse, Crash, TypeOK
    <2>2. QED
      BY <1>2, <2>1, IdleTrue DEF ChecksStillTrue
  <1>10. QED
    BY <1>3, <1>4, <1>5, <1>6, <1>7, <1>8, <1>9 DEF Start, Advance

\* Cancelling an invoice waits for its lock, so it disturbs no transaction either.
LEMMA ChecksStep == IInv /\ [Next]_vars => ChecksStillTrue'
  <1> SUFFICES ASSUME IInv, [Next]_vars PROVE ChecksStillTrue'
    OBVIOUS
  <1>0. TypeOK /\ \A v \in Workers : StillTrue(v)
    BY DEF IInv, ChecksStillTrue
  <1>1. ASSUME NEW w \in Workers, Start(w) \/ Advance(w) \/ Crash(w) PROVE ChecksStillTrue'
    BY <1>1, WorkerChecksStep
  <1>2. ASSUME NEW o \in Orders, CancelInvoice(o) PROVE ChecksStillTrue'
    <2>1. ASSUME NEW v \in Workers PROVE StillTrue(v)'
      <3>1. HoldsInvoice(v) => Mine(v) # o
        BY <1>2 DEF CancelInvoice, InvoiceFree, HoldsInvoice
      <3>2. HoldsOrder(v) => Mine(v) # o
        BY <1>0, <1>2 DEF CancelInvoice, StillTrue, NoInvoice
      <3>3. HoldsOrder(v) \/ HoldsInvoice(v) => Mine(v) \in Orders
        BY <1>0, RunningTyped DEF HoldsOrder, HoldsInvoice, Running
      <3>4. HoldsOrder(v) \/ HoldsInvoice(v) => invoice'[Mine(v)] = invoice[Mine(v)]
        BY <1>0, <1>2, <3>1, <3>2, <3>3 DEF CancelInvoice, TypeOK
      <3>5. credited' = credited /\ current' = current /\ tx' = tx
        BY <1>2 DEF CancelInvoice
      <3>6. QED
        BY <1>0, <3>4, <3>5, Undisturbed
    <2>2. QED
      BY <2>1 DEF ChecksStillTrue
  <1>3. CASE UNCHANGED <<docs, tx>>
    <2>1. ASSUME NEW v \in Workers PROVE StillTrue(v)'
      BY <1>0, <1>3, Undisturbed DEF docs
    <2>2. QED
      BY <2>1 DEF ChecksStillTrue
  <1>4. QED
    BY <1>1, <1>2, <1>3 DEF Next, OrderMoves, vars, docs

----------------------------------------------------------------------------
(* The documents and the books                                              *)

\* A commit appends the number after the last one to its series.
LEMMA GaplessCommit ==
    ASSUME IInv, NEW w \in Workers, HoldsSeries(w), Number(w)
    PROVE  Gapless'
  <1>0. TypeOK /\ Gapless
    BY DEF IInv
  <1>1. Running(w)
    BY DEF HoldsSeries, Running
  <1>2. SeriesOf(w) \in Series /\ tx[w].number = current[SeriesOf(w)] + 1
    BY <1>1, RunningTyped DEF IInv, ChecksStillTrue, StillTrue
  <1>3. ASSUME NEW s \in Series PROVE numbers'[s] = [i \in 1..current'[s] |-> i]
    <2>1. CASE s = SeriesOf(w)
      <3>1. current'[s] = current[s] + 1 /\ numbers'[s] = Append(numbers[s], current[s] + 1)
        BY <1>0, <1>2, <2>1 DEF Number, TypeOK
      <3>2. Append(numbers[s], current[s] + 1) = [i \in 1..(current[s] + 1) |-> i]
        BY <1>0, <1>3, NextNumber DEF TypeOK, Gapless
      <3>3. QED
        BY <3>1, <3>2
    <2>2. CASE s # SeriesOf(w)
      <3>1. current'[s] = current[s] /\ numbers'[s] = numbers[s]
        BY <1>0, <1>2, <2>2 DEF Number, TypeOK
      <3>2. QED
        BY <1>0, <3>1 DEF Gapless
    <2>3. QED
      BY <2>1, <2>2
  <1>4. QED
    BY <1>3 DEF Gapless

\* What the documents and the ledger say of one order.
OrderBooks(o) ==
    /\ credited[o] <= invoice[o].total
    /\ balance[o] = Owed(o)
    /\ o \in entered <=> invoice[o] # NoInvoice
    /\ invoice[o].status # "ISSUED" => credited[o] = 0

\* The safety properties, order by order.
LEMMA BooksByOrder ==
    CreditedWithinInvoice /\ BooksAgree <=> \A o \in Orders : OrderBooks(o)
  BY DEF CreditedWithinInvoice, BooksAgree, OrderBooks

\* An order whose rows a step leaves alone keeps its books.
LEMMA BooksElsewhere ==
    ASSUME NEW o \in Orders, OrderBooks(o), invoice'[o] = invoice[o],
           credited'[o] = credited[o], balance'[o] = balance[o],
           o \in entered' <=> o \in entered
    PROVE  OrderBooks(o)'
  BY DEF OrderBooks, Owed

\* An invoice and its ledger entry commit together.
LEMMA InvoiceCommitBooks ==
    ASSUME IInv, NEW w \in Workers, InvoiceCommit(w)
    PROVE  \A o \in Orders : OrderBooks(o)'
  <1>0. TypeOK /\ \A o \in Orders : OrderBooks(o)
    BY BooksByOrder DEF IInv
  <1>1. Running(w) /\ HoldsOrder(w)
    BY DEF InvoiceCommit, Running, HoldsOrder
  <1>2. invoice[Mine(w)] = NoInvoice /\ Mine(w) \in Orders /\ InvoiceTotal(Mine(w)) \in Nat
    BY <1>0, <1>1, RunningTyped DEF IInv, ChecksStillTrue, StillTrue
  <1>3. credited[Mine(w)] = 0 /\ balance[Mine(w)] = 0
    BY <1>0, <1>2 DEF OrderBooks, Owed, NoInvoice
  <1>4. /\ invoice'[Mine(w)] = [status |-> "ISSUED", total |-> InvoiceTotal(Mine(w))]
        /\ balance'[Mine(w)] = InvoiceTotal(Mine(w))
        /\ credited'[Mine(w)] = 0
        /\ Mine(w) \in entered'
    BY <1>0, <1>2, <1>3 DEF InvoiceCommit, TypeOK
  <1>5. ASSUME NEW o \in Orders, o = Mine(w) PROVE OrderBooks(o)'
    <2>1. Owed(o)' = InvoiceTotal(Mine(w))
      BY <1>2, <1>4, <1>5 DEF Owed
    <2>2. invoice'[o] # NoInvoice
      BY <1>4, <1>5 DEF NoInvoice
    <2>3. QED
      BY <1>2, <1>4, <1>5, <2>1, <2>2 DEF OrderBooks
  <1>6. ASSUME NEW o \in Orders, o # Mine(w) PROVE OrderBooks(o)'
    BY <1>0, <1>2, <1>6, BooksElsewhere DEF InvoiceCommit, TypeOK
  <1>7. QED
    BY <1>5, <1>6

\* A credit note was checked against the cap under the lock it still holds.
LEMMA NoteCommitBooks ==
    ASSUME IInv, NEW w \in Workers, NoteCommit(w)
    PROVE  \A o \in Orders : OrderBooks(o)'
  <1>0. TypeOK /\ \A o \in Orders : OrderBooks(o)
    BY BooksByOrder DEF IInv
  <1>1. Running(w) /\ HoldsInvoice(w)
    BY DEF NoteCommit, Running, HoldsInvoice
  <1>2. /\ invoice[Mine(w)].status = "ISSUED" /\ WithinCap(Mine(w), tx[w].units)
        /\ Mine(w) \in Orders /\ NotePayable(Mine(w), tx[w].units) \in Nat
    BY <1>0, <1>1, RunningTyped DEF IInv, ChecksStillTrue, StillTrue
  <1>3. /\ invoice'[Mine(w)] = invoice[Mine(w)]
        /\ credited'[Mine(w)] = credited[Mine(w)] + NotePayable(Mine(w), tx[w].units)
        /\ balance'[Mine(w)] = balance[Mine(w)] - NotePayable(Mine(w), tx[w].units)
        /\ entered' = entered
    BY <1>0, <1>2 DEF NoteCommit, TypeOK
  <1>4. ASSUME NEW o \in Orders, o = Mine(w) PROVE OrderBooks(o)'
    <2>1. credited[o] \in Nat /\ balance[o] \in Int /\ invoice[o].total \in Nat
      BY <1>0 DEF TypeOK, Invoices
    <2>2. Owed(o) = invoice[o].total - credited[o] /\ Owed(o)' = invoice'[o].total - credited'[o]
      BY <1>2, <1>3, <1>4 DEF Owed
    <2>3. QED
      BY <1>0, <1>2, <1>3, <1>4, <2>1, <2>2 DEF OrderBooks, WithinCap
  <1>5. ASSUME NEW o \in Orders, o # Mine(w) PROVE OrderBooks(o)'
    BY <1>0, <1>2, <1>5, BooksElsewhere DEF NoteCommit, TypeOK
  <1>6. QED
    BY <1>4, <1>5

\* A cancelled invoice had no credit note, so its reversal leaves nothing owed.
LEMMA CancelBooks ==
    ASSUME IInv, NEW c \in Orders, CancelInvoice(c)
    PROVE  \A o \in Orders : OrderBooks(o)'
  <1>0. TypeOK /\ \A o \in Orders : OrderBooks(o)
    BY BooksByOrder DEF IInv
  <1>1. /\ invoice[c] \in Invoices /\ invoice[c].status = "ISSUED" /\ credited[c] = 0
        /\ invoice[c].total \in Nat
    BY <1>0 DEF CancelInvoice, TypeOK, Invoices
  <1>2. /\ invoice'[c] = [invoice[c] EXCEPT !.status = "CANCELLED"]
        /\ credited'[c] = 0
        /\ balance'[c] = balance[c] - invoice[c].total
        /\ entered' = entered
    BY <1>0, <1>1 DEF CancelInvoice, TypeOK
  <1>3. invoice'[c].status = "CANCELLED" /\ invoice'[c].total = invoice[c].total
    BY <1>1, <1>2 DEF Invoices
  <1>4. balance[c] = invoice[c].total /\ c \in entered
    BY <1>0, <1>1 DEF OrderBooks, Owed, NoInvoice
  <1>5. ASSUME NEW o \in Orders, o = c PROVE OrderBooks(o)'
    <2>1. Owed(o)' = 0
      BY <1>3, <1>5 DEF Owed
    <2>2. invoice'[o] # NoInvoice
      BY <1>3, <1>5 DEF NoInvoice
    <2>3. balance'[o] = 0 /\ credited'[o] = 0
      BY <1>1, <1>2, <1>4, <1>5
    <2>4. 0 <= invoice'[o].total
      BY <1>1, <1>3, <1>5
    <2>5. o \in entered'
      BY <1>2, <1>4, <1>5
    <2>6. QED
      BY <2>1, <2>2, <2>3, <2>4, <2>5 DEF OrderBooks
  <1>6. ASSUME NEW o \in Orders, o # c PROVE OrderBooks(o)'
    BY <1>0, <1>6, BooksElsewhere DEF CancelInvoice, TypeOK
  <1>7. QED
    BY <1>5, <1>6

\* The steps that write no document.
Quiet == UNCHANGED docs

\* Every step is quiet, or one of the three that write documents.
LEMMA StepKinds ==
    ASSUME [Next]_vars
    PROVE  \/ Quiet
           \/ \E w \in Workers : InvoiceCommit(w) \/ NoteCommit(w)
           \/ \E o \in Orders : CancelInvoice(o)
  <1>1. ASSUME NEW w \in Workers, Start(w) PROVE Quiet
    BY <1>1 DEF Start, InvoiceLock, NoteCheck, Quiet, docs
  <1>2. ASSUME NEW w \in Workers, Advance(w) PROVE Quiet \/ InvoiceCommit(w) \/ NoteCommit(w)
    <2>1. ASSUME AllocateNumber(w) PROVE Quiet
      BY <2>1 DEF AllocateNumber, Quiet, docs
    <2>2. ASSUME NoteLock(w) PROVE Quiet
      BY <2>2 DEF NoteLock, Quiet, docs
    <2>3. ASSUME Refuse(w) PROVE Quiet
      BY <2>3 DEF Refuse, Quiet, docs
    <2> QED BY <1>2, <2>1, <2>2, <2>3 DEF Advance
  <1>3. ASSUME NEW w \in Workers, Crash(w) PROVE Quiet
    BY <1>3 DEF Crash, Quiet, docs
  <1>4. ASSUME NEW o \in Orders, OrderMoves(o) PROVE Quiet
    BY <1>4 DEF OrderMoves, Quiet, docs
  <1>5. ASSUME UNCHANGED vars PROVE Quiet
    BY <1>5 DEF vars, docs, Quiet
  <1> QED BY <1>1, <1>2, <1>3, <1>4, <1>5 DEF Next

\* The inductive invariant is preserved by every step.
LEMMA NextInv == IInv /\ [Next]_vars => IInv'
  <1> SUFFICES ASSUME IInv, [Next]_vars PROVE IInv'
    OBVIOUS
  <1>1. TypeOK' /\ LocksExclusive' /\ ChecksStillTrue'
    BY TypeStep, LocksStep, ChecksStep DEF IInv
  <1>2. Gapless' /\ \A o \in Orders : OrderBooks(o)'
    <2>1. CASE Quiet
      <3>1. Gapless'
        BY <2>1 DEF IInv, Quiet, docs, Gapless
      <3>2. ASSUME NEW o \in Orders PROVE OrderBooks(o)'
        BY <2>1, BooksByOrder, BooksElsewhere DEF IInv, Quiet, docs
      <3>3. QED
        BY <3>1, <3>2
    <2>2. ASSUME NEW w \in Workers, InvoiceCommit(w) PROVE <1>2!:
      BY <2>2, GaplessCommit, InvoiceCommitBooks DEF InvoiceCommit, HoldsSeries
    <2>3. ASSUME NEW w \in Workers, NoteCommit(w) PROVE <1>2!:
      BY <2>3, GaplessCommit, NoteCommitBooks DEF NoteCommit, HoldsSeries
    <2>4. ASSUME NEW o \in Orders, CancelInvoice(o) PROVE <1>2!:
      <3>1. Gapless'
        BY <2>4 DEF IInv, CancelInvoice, Gapless
      <3>2. QED
        BY <2>4, <3>1, CancelBooks
    <2>5. QED
      BY <2>1, <2>2, <2>3, <2>4, StepKinds
  <1>3. (CreditedWithinInvoice /\ BooksAgree)'
    BY <1>2 DEF OrderBooks, CreditedWithinInvoice, BooksAgree
  <1>4. QED
    BY <1>1, <1>2, <1>3 DEF IInv

\* The inductive invariant holds in every reachable state.
THEOREM Invariance == Spec => []IInv
  BY InitInv, NextInv, PTL DEF Spec

\* Every series numbers its documents 1, 2, 3, ... whatever races, is refused or
\* crashes (allocate_number under the series row's lock, M5-4).
THEOREM GaplessHolds == Spec => []Gapless
  <1>1. IInv => Gapless
    BY DEF IInv
  <1>2. QED
    BY <1>1, Invariance, PTL

\* Concurrent credit notes never exceed their invoice (B-7 of issue_credit_note).
THEOREM CreditedWithinInvoiceHolds == Spec => []CreditedWithinInvoice
  <1>1. IInv => CreditedWithinInvoice
    BY DEF IInv
  <1>2. QED
    BY <1>1, Invariance, PTL

\* The ledger agrees with the documents at every moment (issue_invoice,
\* issue_credit_note and cancel_invoice each write both in one transaction).
THEOREM BooksAgreeHolds == Spec => []BooksAgree
  <1>1. IInv => BooksAgree
    BY DEF IInv
  <1>2. QED
    BY <1>1, Invariance, PTL

\* What a step may do to the documents of one order.
OrderFinal(o) ==
    /\ invoice[o] # NoInvoice =>
          /\ invoice'[o].total = invoice[o].total
          /\ invoice'[o].status \in {invoice[o].status, "CANCELLED"}
    /\ credited'[o] >= credited[o]

\* An issued invoice is never replaced or revived and a credit never taken back.
LEMMA FinalStep ==
    ASSUME IInv, [Next]_vars, NEW o \in Orders
    PROVE  OrderFinal(o)
  <1>0. TypeOK /\ credited[o] \in Nat /\ invoice[o] \in Invoices
    BY DEF IInv, TypeOK
  <1>1. CASE Quiet
    BY <1>0, <1>1 DEF OrderFinal, Quiet, docs
  <1>2. ASSUME NEW w \in Workers, InvoiceCommit(w) PROVE OrderFinal(o)
    <2>1. Running(w) /\ HoldsOrder(w)
      BY <1>2 DEF InvoiceCommit, Running, HoldsOrder
    <2>2. invoice[Mine(w)] = NoInvoice
      BY <2>1 DEF IInv, ChecksStillTrue, StillTrue
    <2>3. credited' = credited /\ (o # Mine(w) => invoice'[o] = invoice[o])
      BY <1>0, <1>2 DEF InvoiceCommit, TypeOK
    <2>4. QED
      BY <1>0, <2>2, <2>3 DEF OrderFinal
  <1>3. ASSUME NEW w \in Workers, NoteCommit(w) PROVE OrderFinal(o)
    <2>1. Running(w)
      BY <1>3 DEF NoteCommit, Running
    <2>2. NotePayable(Mine(w), tx[w].units) \in Nat
      BY <1>0, <2>1, RunningTyped
    <2>3. /\ invoice' = invoice
          /\ credited'[o] \in {credited[o], credited[o] + NotePayable(Mine(w), tx[w].units)}
      BY <1>0, <1>3 DEF NoteCommit, TypeOK
    <2>4. QED
      BY <1>0, <2>2, <2>3 DEF OrderFinal
  <1>4. ASSUME NEW c \in Orders, CancelInvoice(c) PROVE OrderFinal(o)
    <2>1. credited' = credited /\ (o # c => invoice'[o] = invoice[o])
      BY <1>0, <1>4 DEF CancelInvoice, TypeOK
    <2>2. o = c => invoice'[o].status = "CANCELLED" /\ invoice'[o].total = invoice[o].total
      BY <1>0, <1>4 DEF CancelInvoice, TypeOK, Invoices
    <2>3. QED
      BY <1>0, <2>1, <2>2 DEF OrderFinal
  <1>5. QED
    BY <1>1, <1>2, <1>3, <1>4, StepKinds

\* No step of any request changes an issued document other than by cancelling it.
THEOREM DocumentsFinalHolds == Spec => DocumentsFinal
  <1>1. IInv /\ [Next]_vars => \A o \in Orders : OrderFinal(o)
    BY FinalStep
  <1>2. IInv /\ [Next]_vars
           => [\A o \in Orders :
                  /\ invoice[o] # NoInvoice =>
                        /\ invoice'[o].total = invoice[o].total
                        /\ invoice'[o].status \in {invoice[o].status, "CANCELLED"}
                  /\ credited'[o] >= credited[o]]_vars
    BY <1>1 DEF OrderFinal
  <1>3. QED
    BY <1>2, Invariance, PTL DEF Spec, DocumentsFinal
----------------------------------------------------------------------------
(* Refinement: each document is checked in one transaction step and written *)
(* in another, and the locks make it as if that were one moment.            *)

\* A credit note past its lock is for a quantity that was invoiced.
UnitsInv ==
    \A w \in Workers : HoldsInvoice(w) => tx[w].units \in 1..Units[Mine(w)]

\* The quantity is checked under the lock and then stays.
LEMMA UnitsStep == TypeOK /\ UnitsInv /\ [Next]_vars => UnitsInv'
  <1> SUFFICES ASSUME TypeOK, UnitsInv, [Next]_vars, NEW v \in Workers, HoldsInvoice(v)'
               PROVE  tx'[v].units \in 1..Units[tx'[v].order]
    BY DEF UnitsInv, Mine
  <1> USE DEF TypeOK
  <1>a. ASSUME tx'[v] = tx[v] PROVE tx'[v].units \in 1..Units[tx'[v].order]
    BY <1>a DEF UnitsInv, HoldsInvoice, Mine
  <1>b. ASSUME tx'[v] = IdleTx PROVE FALSE
    BY <1>b DEF HoldsInvoice, IdleTx
  <1>1. ASSUME NEW w \in Workers, Start(w) PROVE tx'[v].units \in 1..Units[tx'[v].order]
    <2>1. CASE v # w
      BY <1>1, <1>a, <2>1 DEF Start, InvoiceLock, NoteCheck
    <2>2. ASSUME NEW o \in Orders, NEW y \in Years, InvoiceLock(w, o, y), v = w PROVE FALSE
      <3>1. tx'[w].kind = "INVOICE"
        BY <2>2 DEF InvoiceLock, IdleTx
      <3>2. QED
        BY <2>2, <3>1 DEF HoldsInvoice
    <2>3. ASSUME NEW o \in Orders, NEW y \in Years, NEW q \in 1..(Units[o] + 1),
                 NEW k \in Keys \cup {NoKey}, NoteCheck(w, o, q, k, y), v = w
          PROVE  FALSE
      <3>1. tx'[w].phase = "checked"
        BY <2>3 DEF NoteCheck
      <3>2. QED
        BY <2>3, <3>1 DEF HoldsInvoice
    <2>4. QED
      BY <1>1, <2>1, <2>2, <2>3 DEF Start
  <1>2. ASSUME NEW w \in Workers, AllocateNumber(w)
        PROVE  tx'[v].units \in 1..Units[tx'[v].order]
    <2>1. CASE v # w
      BY <1>2, <1>a, <2>1 DEF AllocateNumber
    <2>2. CASE v = w
      <3>1. Running(w) /\ tx[w].phase = "locked"
        BY <1>2 DEF AllocateNumber, Running
      <3>2. /\ tx'[w].units = tx[w].units /\ tx'[w].order = tx[w].order
            /\ tx'[w].kind = tx[w].kind
        BY <1>2, <3>1, RunningTyped DEF AllocateNumber
      <3>3. QED
        BY <2>2, <3>1, <3>2 DEF UnitsInv, HoldsInvoice, Mine
    <2>3. QED
      BY <2>1, <2>2
  <1>3. ASSUME NEW w \in Workers, NoteLock(w)
        PROVE  tx'[v].units \in 1..Units[tx'[v].order]
    <2>1. CASE v # w
      BY <1>3, <1>a, <2>1 DEF NoteLock
    <2>2. CASE v = w
      <3>1. Running(w)
        BY <1>3 DEF NoteLock, Running
      <3>2. tx'[w].units = tx[w].units /\ tx'[w].order = tx[w].order
        BY <1>3, <3>1, RunningTyped DEF NoteLock
      <3>3. QED
        BY <1>3, <2>2, <3>2 DEF NoteLock, Creditable, Mine
    <2>3. QED
      BY <2>1, <2>2
  <1>4. ASSUME NEW w \in Workers, InvoiceCommit(w) \/ NoteCommit(w) \/ Refuse(w) \/ Crash(w)
        PROVE  tx'[v].units \in 1..Units[tx'[v].order]
    <2>1. tx' = [tx EXCEPT ![w] = IdleTx]
      BY <1>4 DEF InvoiceCommit, NoteCommit, Refuse, Crash
    <2>2. tx'[v] = tx[v] \/ tx'[v] = IdleTx
      BY <2>1
    <2>3. QED
      BY <1>a, <1>b, <2>2
  <1>5. CASE UNCHANGED vars \/ \E o \in Orders : OrderMoves(o) \/ CancelInvoice(o)
    BY <1>5, <1>a DEF vars, OrderMoves, CancelInvoice
  <1>6. QED
    BY <1>1, <1>2, <1>3, <1>4, <1>5 DEF Next, Advance

BookStep == [Book!BookNext]_(<<invoice, credited, balance, numbers, usedKeys>>)

\* A transaction that holds the series row's lock writes the series' next number.
LEMMA CommitTakesNumber ==
    ASSUME IInv, NEW w \in Workers, HoldsSeries(w), Number(w)
    PROVE  Book!TakeNumber(tx[w].kind)
  <1> DEFINE s == SeriesOf(w)
  <1>1. Running(w)
    BY DEF HoldsSeries, Running
  <1>2. s \in Series /\ tx[w].year \in Years /\ s = <<tx[w].kind, tx[w].year>>
    BY <1>1, RunningTyped DEF IInv, SeriesOf
  <1>3. tx[w].number = current[s] + 1
    BY DEF IInv, ChecksStillTrue, StillTrue
  <1>4. current[s] \in Nat /\ numbers[s] = [i \in 1..current[s] |-> i] /\ numbers[s] \in Seq(Nat)
    BY <1>2 DEF IInv, TypeOK, Gapless
  <1>5. Len(numbers[s]) = current[s]
    BY <1>4, LenProperties
  <1>6. numbers' = [numbers EXCEPT ![s] = Append(numbers[s], Len(numbers[s]) + 1)]
    BY <1>3, <1>5 DEF Number
  <1>7. QED
    BY <1>2, <1>6 DEF Book!TakeNumber

\* The order's lock keeps "no invoice yet" true until the invoice is written.
LEMMA InvoiceCommitIssues ==
    ASSUME IInv, NEW w \in Workers, InvoiceCommit(w)
    PROVE  BookStep
  <1> DEFINE o == Mine(w)
  <1>1. Running(w) /\ HoldsOrder(w) /\ HoldsSeries(w)
    BY DEF InvoiceCommit, Running, HoldsOrder, HoldsSeries
  <1>2. o \in Orders
    BY <1>1, RunningTyped DEF IInv
  <1>3. invoice[o] = NoInvoice
    BY <1>1 DEF IInv, ChecksStillTrue, StillTrue
  <1>4. invoice[o].status = "NONE"
    BY <1>3 DEF NoInvoice
  <1>5. Book!TakeNumber("INVOICE")
    BY <1>1, CommitTakesNumber DEF InvoiceCommit
  <1>6. Book!Issue(o)
    BY <1>2, <1>4, <1>5 DEF Book!Issue, InvoiceCommit
  <1>7. QED
    BY <1>2, <1>6 DEF BookStep, Book!BookNext

\* The invoice's lock keeps the cap and the status a credit note was checked against.
LEMMA NoteCommitCredits ==
    ASSUME IInv, UnitsInv, NEW w \in Workers, NoteCommit(w)
    PROVE  BookStep
  <1> DEFINE o == Mine(w)
             amount == NotePayable(Mine(w), tx[w].units)
             key == tx[w].key
             parts == [p \in Orders |-> {NotePayable(p, q) : q \in 1..Units[p]}]
  <1>1. Running(w) /\ HoldsInvoice(w) /\ HoldsSeries(w)
    BY DEF NoteCommit, Running, HoldsInvoice, HoldsSeries
  <1>2. o \in Orders /\ key \in Keys \cup {NoKey}
    BY <1>1, RunningTyped DEF IInv
  <1>3. /\ invoice[o].status = "ISSUED"
        /\ credited[o] + amount <= invoice[o].total
    BY <1>1 DEF IInv, ChecksStillTrue, StillTrue, WithinCap
  <1>4. amount > 0 /\ key \notin usedKeys
    BY DEF NoteCommit, Insertable
  <1>5. amount \in parts[o]
    <2>1. tx[w].units \in 1..Units[o]
      BY <1>1 DEF UnitsInv
    <2>2. QED
      BY <1>2, <2>1
  <1>6. Book!TakeNumber("CREDIT_NOTE")
    BY <1>1, CommitTakesNumber DEF NoteCommit
  <1>7. Book!Credit(o, amount, key)
    BY <1>3, <1>4, <1>6 DEF Book!Credit, NoteCommit
  <1>8. QED
    BY <1>2, <1>5, <1>7 DEF BookStep, Book!BookNext

\* Every step either leaves the books alone or writes one whole document.
LEMMA EveryStepBooks ==
    ASSUME IInv, UnitsInv, [Next]_vars
    PROVE  BookStep
  <1>1. CASE Quiet
    BY <1>1 DEF Quiet, docs, BookStep
  <1>2. ASSUME NEW o \in Orders, CancelInvoice(o) PROVE BookStep
    <2>1. Book!Cancel(o)
      BY <1>2 DEF CancelInvoice, Book!Cancel
    <2>2. QED
      BY <2>1 DEF BookStep, Book!BookNext
  <1>3. QED
    BY <1>1, <1>2, InvoiceCommitIssues, NoteCommitCredits, StepKinds

\* Billing is serialisable: for any number of workers, orders, years and amounts, whatever
\* races, is refused or crashes, the documents and the ledger change as in BillBook.
THEOREM BillBookImplemented == Spec => ImplementsBillBook
  <1>1. Init => Book!BookInit
    BY DEF Init, Book!BookInit, NoInvoice, Series, Kinds
  <1>2. Init => UnitsInv
    BY DEF Init, UnitsInv, HoldsInvoice, IdleTx
  <1>3. IInv /\ UnitsInv /\ [Next]_vars => UnitsInv'
    BY UnitsStep DEF IInv
  <1>4. IInv /\ UnitsInv /\ [Next]_vars => [Book!BookNext]_Book!book
    BY EveryStepBooks DEF BookStep, Book!book
  <1>5. QED
    BY <1>1, <1>2, <1>3, <1>4, Invariance, PTL DEF Spec, ImplementsBillBook, Book!BookSpec

----------------------------------------------------------------------------
(* Waiting. What TransactionsEnd says under fairness rests on this: for any *)
(* number of workers, whoever waits, waits in the end for one that can go on*)

\* The guard of each alternative of Advance: what the next statement of the transaction
\* finds is either done or refused, once the lock it needs is free.
CanAdvance(w) ==
    \/ tx[w].phase = "locked" /\ SeriesFree(SeriesOf(w))
    \/ tx[w].phase = "numbered" /\ tx[w].kind = "INVOICE" /\ InvoiceTotal(Mine(w)) > 0
    \/ /\ tx[w].phase = "checked" /\ InvoiceFree(Mine(w))
       /\ Creditable(Mine(w), tx[w].units)
    \/ tx[w].phase = "numbered" /\ tx[w].kind = "CREDIT_NOTE" /\ Insertable(w)
    \/ Refused(w)

\* v holds the row lock that w's next statement asks for.
Waits(w, v) ==
    /\ v # w
    /\ \/ tx[w].phase = "checked" /\ HoldsInvoice(v) /\ Mine(v) = Mine(w)
       \/ tx[w].phase = "locked" /\ HoldsSeries(v) /\ SeriesOf(v) = SeriesOf(w)

\* A running transaction can go on, or waits for one that can, or for one that waits for
\* one that can: no circle of locks, and no state in which a statement has no outcome.
NobodyStuck ==
    \A w \in Workers :
        Running(w) => \/ CanAdvance(w)
                      \/ \E v \in Workers :
                            /\ Waits(w, v)
                            /\ CanAdvance(v) \/ \E u \in Workers : Waits(v, u) /\ CanAdvance(u)

\* With its number a transaction needs no further lock: it commits or is refused.
LEMMA NumberedAdvances ==
    ASSUME TypeOK, NEW w \in Workers, tx[w].phase = "numbered"
    PROVE  CanAdvance(w)
  <1>1. Running(w)
    BY DEF Running
  <1>2. InvoiceTotal(Mine(w)) \in Nat
    BY <1>1, RunningTyped
  <1>3. tx[w].kind \in {"INVOICE", "CREDIT_NOTE"}
    BY <1>1, RunningTyped DEF Kinds
  <1>4. CASE tx[w].kind = "INVOICE"
    <2>1. InvoiceTotal(Mine(w)) > 0 \/ InvoiceTotal(Mine(w)) = 0
      BY <1>2
    <2>2. QED
      BY <1>4, <2>1 DEF CanAdvance, Refused
  <1>5. CASE tx[w].kind = "CREDIT_NOTE"
    BY <1>5 DEF CanAdvance, Refused
  <1>6. QED
    BY <1>3, <1>4, <1>5

\* A transaction with its document locked waits for a number only.
LEMMA LockedAdvances ==
    ASSUME TypeOK, NEW w \in Workers, tx[w].phase = "locked"
    PROVE  CanAdvance(w) \/ \E v \in Workers : Waits(w, v) /\ CanAdvance(v)
  <1>1. CASE SeriesFree(SeriesOf(w))
    BY <1>1 DEF CanAdvance
  <1>2. CASE ~SeriesFree(SeriesOf(w))
    <2>1. PICK v \in Workers : tx[v].phase = "numbered" /\ SeriesOf(v) = SeriesOf(w)
      BY <1>2 DEF SeriesFree
    <2>2. v # w
      BY <2>1
    <2>3. Waits(w, v)
      BY <2>1, <2>2 DEF Waits, HoldsSeries
    <2>4. QED
      BY <2>1, <2>3, NumberedAdvances
  <1>3. QED
    BY <1>1, <1>2

\* issue_invoice and issue_credit_note take their locks in one order, for any number of
\* workers: the document's row, then the number series, then nothing.
THEOREM NobodyStuckHolds == Spec => []NobodyStuck
  <1>1. ASSUME TypeOK PROVE NobodyStuck
    <2> SUFFICES ASSUME NEW w \in Workers, Running(w)
                 PROVE  \/ CanAdvance(w)
                        \/ \E v \in Workers :
                              /\ Waits(w, v)
                              /\ CanAdvance(v) \/ \E u \in Workers : Waits(v, u) /\ CanAdvance(u)
      BY DEF NobodyStuck
    <2>1. tx[w].phase \in {"checked", "locked", "numbered"}
      BY <1>1, RunningTyped
    <2>2. CASE tx[w].phase = "numbered"
      BY <1>1, <2>2, NumberedAdvances
    <2>3. CASE tx[w].phase = "locked"
      BY <1>1, <2>3, LockedAdvances
    <2>4. CASE tx[w].phase = "checked" /\ InvoiceFree(Mine(w))
      BY <2>4 DEF CanAdvance, Refused
    <2>5. CASE tx[w].phase = "checked" /\ ~InvoiceFree(Mine(w))
      <3>1. PICK v \in Workers : /\ tx[v].kind = "CREDIT_NOTE"
                                 /\ tx[v].phase \in {"locked", "numbered"}
                                 /\ Mine(v) = Mine(w)
        BY <2>5 DEF InvoiceFree
      <3>2. v # w
        BY <2>5, <3>1
      <3>3. Waits(w, v)
        BY <2>5, <3>1, <3>2 DEF Waits, HoldsInvoice
      <3>4. CanAdvance(v) \/ \E u \in Workers : Waits(v, u) /\ CanAdvance(u)
        BY <1>1, <3>1, NumberedAdvances, LockedAdvances
      <3>5. QED
        BY <3>3, <3>4
    <2>6. QED
      BY <2>1, <2>2, <2>3, <2>4, <2>5
  <1>2. QED
    BY <1>1, TypeCorrect, PTL

----------------------------------------------------------------------------
(* CreditExposure                                                           *)

\* What the first read found in the ledger is still there: entries are only added.
SettledStays == probe.settled \subseteq entered

\* The inductive invariant of the measurement.
ExposureInv == TypeOK /\ probe \in Probes /\ SettledStays

\* No step of any billing service removes an INVOICE entry (the ledger is
\* append-only).
LEMMA LedgerGrows ==
    ASSUME Next
    PROVE  entered \subseteq entered'
  <1>1. ASSUME NEW w \in Workers, InvoiceCommit(w) PROVE entered \subseteq entered'
    BY <1>1 DEF InvoiceCommit
  <1>2. ASSUME NEW w \in Workers, NoteCommit(w) PROVE entered' = entered
    BY <1>2 DEF NoteCommit
  <1>3. ASSUME NEW w \in Workers,
               AllocateNumber(w) \/ NoteLock(w) \/ Refuse(w) \/ Crash(w) \/ Start(w)
        PROVE  entered' = entered
    BY <1>3 DEF AllocateNumber, NoteLock, Refuse, Crash, Start, InvoiceLock, NoteCheck, docs
  <1>4. ASSUME NEW o \in Orders, OrderMoves(o) \/ CancelInvoice(o) PROVE entered' = entered
    BY <1>4 DEF OrderMoves, CancelInvoice, docs
  <1>5. QED
    BY <1>1, <1>2, <1>3, <1>4 DEF Next, Advance

\* Both reads and every step of the billing services keep the invariant: between
\* the reads an order can only move from the open term to the settled one.
LEMMA ExposureStep == ExposureInv /\ [ExposureNext]_<<vars, probe>> => ExposureInv'
  <1> SUFFICES ASSUME ExposureInv, [ExposureNext]_<<vars, probe>> PROVE ExposureInv'
    OBVIOUS
  <1> USE DEF ExposureInv
  <1>1. CASE ReadFirst
    <2>1. TypeOK' /\ entered' = entered
      BY <1>1, TypeStep DEF ReadFirst, vars
    <2>2. probe'.settled = entered
      BY <1>1 DEF ReadFirst, SettledTerm
    <2>3. probe' \in Probes
      BY <1>1 DEF ReadFirst, Probes, SettledTerm, TypeOK
    <2>4. QED
      BY <2>1, <2>2, <2>3 DEF SettledStays
  <1>2. CASE ReadSecond
    <2>1. TypeOK' /\ entered' = entered
      BY <1>2, TypeStep DEF ReadSecond, vars
    <2>2. probe' \in Probes /\ probe'.settled = {}
      BY <1>2 DEF ReadSecond, NoProbe, Probes
    <2>3. QED
      BY <2>1, <2>2 DEF SettledStays
  <1>3. CASE Others
    <2>1. TypeOK' /\ entered \subseteq entered' /\ probe' = probe
      BY <1>3, TypeStep, LedgerGrows DEF Others
    <2>2. QED
      BY <2>1 DEF SettledStays
  <1>4. CASE UNCHANGED <<vars, probe>>
    <2>1. TypeOK' /\ entered' = entered /\ probe' = probe
      BY <1>4, TypeStep DEF vars
    <2>2. QED
      BY <2>1 DEF SettledStays
  <1>5. QED
    BY <1>1, <1>2, <1>3, <1>4 DEF ExposureNext

\* Whenever credit_exposure's second read comes, no order is in both terms (D-9).
THEOREM NeverDoubleCountsHolds == ExposureSpec => []NeverDoubleCounts
  <1>1. ExposureInit => ExposureInv
    <2> SUFFICES ASSUME ExposureInit PROVE ExposureInv
      OBVIOUS
    <2>1. TypeOK
      BY InitInv DEF ExposureInit, IInv
    <2>2. probe \in Probes /\ probe.settled = {}
      BY DEF ExposureInit, NoProbe, Probes
    <2>3. QED
      BY <2>1, <2>2 DEF ExposureInv, SettledStays
  <1>2. ExposureInv => NeverDoubleCounts
    BY DEF ExposureInv, SettledStays, NeverDoubleCounts, OpenTerm
  <1>3. QED
    BY <1>1, <1>2, ExposureStep, PTL DEF ExposureSpec
=============================================================================
