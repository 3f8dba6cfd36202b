--------------------------- MODULE PurchasingProofs ---------------------------
(****************************************************************************)
(* Proofs about Purchasing, for any orders, products, concurrent receipts,  *)
(* quantities, tolerance, costs and rates. IInv is about the orders and     *)
(* their receipts, Books about what the receipts put into the ledgers.      *)
(****************************************************************************)
EXTENDS Purchasing, TLAPS

\* The types of the orders and of the receipts under way.
Types ==
    /\ status \in [Orders -> OrderStatus \cup {"NONE"}]
    /\ held \in [Orders -> SUBSET OrderStatus]
    /\ lines \in [Orders -> Baskets \cup {Nothing}]
    /\ received \in [Orders -> Quantities]
    /\ receipt \in [Workers -> Receipts \cup {NoReceipt}]
    /\ raced \subseteq Orders

\* An order that does not exist has nothing; one that does has lines.
Existence ==
    \A o \in Orders :
        /\ status[o] = "NONE" =>
              held[o] = {} /\ received[o] = Nothing /\ \A w \in Workers : ~Open(w, o)
        /\ status[o] # "NONE" => lines[o] # Nothing

\* A receipt about to move its order to RECEIVED completes it, unless an amendment has
\* taken its lines away, and then it cannot commit.
Completes(w) ==
    LET r == receipt[w] IN
        r.phase = "posted" /\ r.to = "RECEIVED" /\ ~r.orphan
            => Complete(r.order, Plus(received[r.order], r.basket))
PostedIsComplete == \A w \in Workers : receipt[w] # NoReceipt => Completes(w)

\* On an order whose requests never overlapped, what an open receipt has read is still so.
StillTrue(w, o) ==
    /\ receipt[w].seen = status[o] /\ ~receipt[w].orphan
    /\ OfThisOrder(o, receipt[w].basket)
    /\ WithinLimit(o, received[o], receipt[w].basket)
    /\ receipt[w].phase = "posted" =>
          receipt[w].to = SettledStatus(o, Plus(received[o], receipt[w].basket))
    /\ \A v \in Workers : Open(v, o) => v = w

\* The status is what has arrived, order by order.
Exact(o) ==
    /\ \A p \in Products : received[o][p] <= AcceptanceLimit(lines[o][p])
    /\ status[o] \in {"NONE", "DRAFT", "ISSUED", "CANCELLED"} <=> received[o] = Nothing
    /\ status[o] = "PARTIALLY_RECEIVED" => \E p \in Products : received[o][p] < lines[o][p]

Unraced ==
    \A o \in Orders \ raced :
        /\ Exact(o)
        /\ \A w \in Workers : Open(w, o) => StillTrue(w, o)

\* The inductive invariant.
IInv == Types /\ Existence /\ ReceivedIsComplete /\ PostedIsComplete /\ Unraced

----------------------------------------------------------------------------
(* Baskets                                                                  *)

\* A limit is never negative.
LEMMA LimitNat ==
    ASSUME NEW q \in Nat
    PROVE  AcceptanceLimit(q) \in Nat
  <1>1. PICK n \in Nat : n = q * (10000 + Tolerance)
    BY PurchaseAssumption, SMT
  <1>2. (2 * n + 10000) \div 20000 \in Nat
    BY SMT
  <1> QED BY <1>1, <1>2 DEF AcceptanceLimit, Quantize

\* What a basket holds.
LEMMA BasketFacts ==
    /\ Nothing \in Quantities
    /\ Nothing \notin Baskets
    /\ \A b \in Baskets \cup {Nothing} : b \in Quantities
    /\ \A b \in Baskets : \E p \in Products : b[p] > 0
    /\ \A f, g \in Quantities : Plus(f, g) \in Quantities /\ \A p \in Products : Plus(f, g)[p] = f[p] + g[p]
    /\ \A f \in Quantities, b \in Baskets : Plus(f, b) # Nothing
  <1>0. {0} \cup LineQuantities \subseteq Nat
    BY PurchaseAssumption
  <1> USE DEF Nothing, Baskets, Quantities
  <1>1. Nothing \in Quantities /\ Nothing \notin Baskets
    OBVIOUS
  <1>2. \A b \in Baskets \cup {Nothing} : b \in Quantities
    BY <1>0
  <1>3. \A b \in Baskets : \E p \in Products : b[p] > 0
    <2> SUFFICES ASSUME NEW b \in Baskets, \A p \in Products : ~(b[p] > 0) PROVE FALSE
      OBVIOUS
    <2>1. b \in [Products -> {0} \cup LineQuantities] /\ b # [p \in Products |-> 0]
      OBVIOUS
    <2>2. \A p \in Products : b[p] \in Nat
      BY <1>0, <2>1
    <2>3. \A p \in Products : b[p] = 0
      BY <2>2
    <2> QED BY <2>1, <2>3
  <1>4. \A f, g \in Quantities : Plus(f, g) \in Quantities /\ \A p \in Products : Plus(f, g)[p] = f[p] + g[p]
    BY DEF Plus
  <1>5. \A f \in Quantities, b \in Baskets : Plus(f, b) # Nothing
    <2> SUFFICES ASSUME NEW f \in Quantities, NEW b \in Baskets PROVE Plus(f, b) # Nothing
      OBVIOUS
    <2>1. PICK p \in Products : b[p] > 0
      BY <1>3
    <2>2. f[p] \in Nat /\ b[p] \in Nat
      BY <1>2
    <2>3. Plus(f, b)[p] = f[p] + b[p]
      BY DEF Plus
    <2>4. Plus(f, b)[p] # 0
      BY <2>1, <2>2, <2>3
    <2> QED BY <2>4
  <1> QED BY <1>1, <1>2, <1>3, <1>4, <1>5

\* What a receipt under way is.
LEMMA ReceiptFacts ==
    ASSUME Types, NEW w \in Workers, receipt[w] # NoReceipt
    PROVE  /\ receipt[w] \in Receipts
           /\ receipt[w].order \in Orders /\ receipt[w].basket \in Baskets
           /\ receipt[w].seen \in Receivable
           /\ receipt[w].to \in {"PARTIALLY_RECEIVED", "RECEIVED"}
           /\ receipt[w].orphan \in BOOLEAN
           /\ Open(w, receipt[w].order)
  BY DEF Types, Receipts, Open

----------------------------------------------------------------------------
(* Every action keeps the inductive invariant                               *)

\* An order none of whose state changes stays exact, and its receipts true.
LEMMA FrameUnraced ==
    ASSUME IInv, NEW q \in Orders, q \notin raced,
           status'[q] = status[q], lines'[q] = lines[q], received'[q] = received[q],
           \A w \in Workers : Open(w, q)' => Open(w, q) /\ receipt'[w] = receipt[w]
    PROVE  Exact(q)' /\ \A w \in Workers : Open(w, q)' => StillTrue(w, q)'
  <1>1. Exact(q)'
    BY DEF IInv, Unraced, Exact
  <1>2. ASSUME NEW w \in Workers, Open(w, q)' PROVE StillTrue(w, q)'
    <2>1. StillTrue(w, q) /\ receipt'[w] = receipt[w]
      BY <1>2 DEF IInv, Unraced
    <2> QED BY <2>1 DEF StillTrue, OfThisOrder, WithinLimit, SettledStatus, Complete, Plus
  <1> QED BY <1>1, <1>2

\* Issuing, cancelling or closing: an overlapping request marks the order as raced, and
\* otherwise the status moved from was the row's.
LEMMA MoveKeeps ==
    ASSUME IInv, NEW o \in Orders, NEW seen \in Instances(o),
           NEW to \in {"ISSUED", "CANCELLED", "CLOSED"},
           Transition(o, seen, to), Noted(o, seen, Workers), UNCHANGED <<lines, goods, receipt>>
    PROVE  IInv'
  <1>0. /\ status[o] # "NONE" /\ status' = [status EXCEPT ![o] = to]
        /\ held' = [held EXCEPT ![o] = @ \cup {to}]
        /\ UNCHANGED <<lines, received, receipt>>
        /\ raced \subseteq raced' /\ raced' \subseteq Orders
    BY DEF Transition, Instances, IInv, Existence, goods, Noted, Types
  <1>1. Types'
    BY <1>0 DEF IInv, Types, OrderStatus
  <1>2. Existence'
    BY <1>0 DEF IInv, Types, Existence, Open
  <1>3. ReceivedIsComplete'
    BY <1>0 DEF IInv, Types, ReceivedIsComplete, Complete
  <1>4. PostedIsComplete'
    BY <1>0 DEF IInv, PostedIsComplete, Completes, Complete, Plus
  <1>5. Unraced'
    <2> SUFFICES ASSUME NEW q \in Orders, q \notin raced'
                 PROVE  Exact(q)' /\ \A w \in Workers : Open(w, q)' => StillTrue(w, q)'
      BY DEF Unraced
    <2>1. CASE q # o
      BY <1>0, <2>1, FrameUnraced DEF IInv, Types, Open
    <2>2. CASE q = o
      <3>1. seen = status[o] /\ \A w \in Workers : ~Open(w, o)
        BY <1>0, <2>2 DEF Noted, Overlaps
      <3>2. to \in AllowedTransitions[status[o]] /\ status[o] \in OrderStatus
        BY <1>0, <3>1 DEF Transition, IInv, Types
      <3>3. \/ to \in {"ISSUED", "CANCELLED"} /\ status[o] \in {"DRAFT", "ISSUED"}
            \/ to = "CLOSED" /\ status[o] \in {"PARTIALLY_RECEIVED", "RECEIVED"}
        BY <3>2 DEF AllowedTransitions, OrderStatus
      <3>4. Exact(o) /\ Exact(o)'
        BY <1>0, <2>2, <3>3 DEF IInv, Unraced, Exact, Types
      <3> QED BY <1>0, <2>2, <3>1, <3>4 DEF Open
    <2> QED BY <2>1, <2>2
  <1> QED BY <1>1, <1>2, <1>3, <1>4, <1>5 DEF IInv

\* A new order: nothing has to do with it yet.
LEMMA CreateKeeps ==
    ASSUME IInv, NEW o \in Orders, NEW basket \in Baskets, CreatePurchaseOrder(o, basket)
    PROVE  IInv'
  <1>0. /\ status[o] = "NONE" /\ status' = [status EXCEPT ![o] = "DRAFT"]
        /\ held' = [held EXCEPT ![o] = {"DRAFT"}] /\ lines' = [lines EXCEPT ![o] = basket]
        /\ received[o] = Nothing /\ \A w \in Workers : ~Open(w, o)
        /\ UNCHANGED <<received, receipt, raced>>
    BY DEF CreatePurchaseOrder, goods, IInv, Existence
  <1>1. Types'
    BY <1>0 DEF IInv, Types, OrderStatus
  <1>2. Existence'
    BY <1>0, BasketFacts DEF IInv, Types, Existence, Open
  <1>3. ReceivedIsComplete'
    BY <1>0 DEF IInv, Types, ReceivedIsComplete, Complete
  <1>4. PostedIsComplete'
    BY <1>0, ReceiptFacts DEF IInv, Types, PostedIsComplete, Completes, Complete, Plus, Open
  <1>5. Unraced'
    <2> SUFFICES ASSUME NEW q \in Orders, q \notin raced'
                 PROVE  Exact(q)' /\ \A w \in Workers : Open(w, q)' => StillTrue(w, q)'
      BY DEF Unraced
    <2>1. CASE q # o
      BY <1>0, <2>1, FrameUnraced DEF IInv, Types, Open
    <2>2. CASE q = o
      <3>1. \A p \in Products : received'[o][p] = 0 /\ lines'[o][p] \in Nat
        BY <1>0, BasketFacts DEF Nothing, IInv, Types, Quantities
      <3>2. \A p \in Products : received'[o][p] <= AcceptanceLimit(lines'[o][p])
        BY <3>1, LimitNat
      <3>3. status'[o] = "DRAFT" /\ received'[o] = Nothing
        BY <1>0 DEF IInv, Types
      <3> QED BY <1>0, <2>2, <3>2, <3>3 DEF Exact, Open
    <2> QED BY <2>1, <2>2
  <1> QED BY <1>1, <1>2, <1>3, <1>4, <1>5 DEF IInv

\* An amendment: nothing has been received, and the open receipts lose their lines.
LEMMA AmendKeeps ==
    ASSUME IInv, NEW o \in Orders, NEW basket \in Baskets, AmendPurchaseOrder(o, basket)
    PROVE  IInv'
  <1>0. PICK seen \in Instances(o) \cap Editable : 
            /\ LinesDeletable(o) /\ lines' = [lines EXCEPT ![o] = basket]
            /\ receipt' = [w \in Workers |->
                    IF Open(w, o) THEN [receipt[w] EXCEPT !.orphan = TRUE] ELSE receipt[w]]
            /\ Noted(o, seen, Workers)
            /\ UNCHANGED <<status, held, received>>
    BY DEF AmendPurchaseOrder, goods
  <1>a. /\ status[o] # "NONE" /\ received[o] = Nothing
        /\ raced \subseteq raced' /\ raced' \subseteq Orders
    BY <1>0 DEF Instances, IInv, Existence, LinesDeletable, Noted, Types
  <1>b. \A w \in Workers :
            /\ ~Open(w, o) => receipt'[w] = receipt[w]
            /\ Open(w, o) => receipt'[w] \in Receipts /\ receipt'[w].orphan /\ receipt'[w].order = o
            /\ \A q \in Orders : Open(w, q)' <=> Open(w, q)
    BY <1>0, ReceiptFacts DEF IInv, Types, Receipts, NoReceipt, Open
  <1>1. Types'
    BY <1>0, <1>a, <1>b DEF IInv, Types
  <1>2. Existence'
    <2> SUFFICES ASSUME NEW q \in Orders
                 PROVE  /\ status[q] = "NONE" => /\ held[q] = {} /\ received[q] = Nothing
                                                 /\ \A w \in Workers : ~Open(w, q)'
                        /\ status[q] # "NONE" => lines'[q] # Nothing
      BY <1>0 DEF Existence
    <2>1. /\ status[q] = "NONE" => /\ held[q] = {} /\ received[q] = Nothing
                                   /\ \A w \in Workers : ~Open(w, q)
          /\ status[q] # "NONE" => lines[q] # Nothing
      BY DEF IInv, Existence
    <2>2. \A w \in Workers : Open(w, q)' <=> Open(w, q)
      BY <1>b
    <2>3. lines'[q] = IF q = o THEN basket ELSE lines[q]
      BY <1>0 DEF IInv, Types
    <2>4. basket # Nothing
      BY BasketFacts
    <2> QED BY <2>1, <2>2, <2>3, <2>4
  <1>3. ReceivedIsComplete'
    <2>1. status[o] # "RECEIVED"
      <3>1. PICK p \in Products : lines[o][p] > 0
        BY <1>a, BasketFacts DEF IInv, Types, Existence
      <3>2. ~Complete(o, received[o])
        BY <1>a, <3>1, BasketFacts DEF Complete, Nothing, IInv, Types, Quantities
      <3> QED BY <3>2 DEF IInv, ReceivedIsComplete
    <2> QED BY <1>0, <2>1 DEF IInv, Types, ReceivedIsComplete, Complete
  <1>4. PostedIsComplete'
    <2> SUFFICES ASSUME NEW w \in Workers, receipt'[w] # NoReceipt PROVE Completes(w)'
      BY DEF PostedIsComplete
    <2>1. CASE Open(w, o)
      BY <1>b, <2>1 DEF Completes
    <2>2. CASE ~Open(w, o)
      <3>1. receipt'[w] = receipt[w] /\ Completes(w) /\ receipt[w].order # o
        BY <1>b, <2>2 DEF IInv, PostedIsComplete, Open
      <3> QED BY <1>0, <3>1, ReceiptFacts DEF IInv, Types, Completes, Complete, Plus
    <2> QED BY <2>1, <2>2
  <1>5. Unraced'
    <2> SUFFICES ASSUME NEW q \in Orders, q \notin raced'
                 PROVE  Exact(q)' /\ \A w \in Workers : Open(w, q)' => StillTrue(w, q)'
      BY DEF Unraced
    <2>1. CASE q # o
      BY <1>0, <1>a, <1>b, <2>1, FrameUnraced DEF IInv, Types, Open
    <2>2. CASE q = o
      <3>1. status[o] = "DRAFT" /\ \A w \in Workers : ~Open(w, o)
        BY <1>0, <2>2 DEF Noted, Overlaps, Editable
      <3>2. \A p \in Products : received'[o][p] = 0 /\ lines'[o][p] \in Nat
        BY <1>0, <1>a, BasketFacts DEF Nothing, IInv, Types, Quantities
      <3>3. \A p \in Products : received'[o][p] <= AcceptanceLimit(lines'[o][p])
        BY <3>2, LimitNat
      <3> QED BY <1>0, <1>a, <1>b, <2>2, <3>1, <3>3 DEF Exact
    <2> QED BY <2>1, <2>2
  <1> QED BY <1>1, <1>2, <1>3, <1>4, <1>5 DEF IInv

\* A receipt that has passed its check: on an unraced order it is the only one open.
LEMMA ReceiptCheckKeeps ==
    ASSUME IInv, NEW w \in Workers, NEW o \in Orders, NEW basket \in Baskets,
           ReceiptCheck(w, o, basket)
    PROVE  IInv'
  <1>0. PICK seen \in Instances(o) \cap Receivable :
            /\ OfThisOrder(o, basket) /\ WithinLimit(o, received[o], basket)
            /\ receipt' = [receipt EXCEPT ![w] =
                   [phase |-> "checked", order |-> o, seen |-> seen, basket |-> basket,
                    to |-> "PARTIALLY_RECEIVED", orphan |-> FALSE]]
            /\ Noted(o, seen, Workers)
    BY DEF ReceiptCheck
  <1>a. /\ receipt[w] = NoReceipt /\ UNCHANGED <<status, held, lines, received>>
        /\ status[o] # "NONE" /\ raced \subseteq raced' /\ raced' \subseteq Orders
    BY <1>0 DEF ReceiptCheck, goods, Instances, IInv, Existence, Noted, Types
  <1>b. /\ receipt'[w] \in Receipts /\ Open(w, o)' /\ receipt'[w].order = o
        /\ receipt'[w].phase = "checked" /\ receipt'[w].seen = seen /\ ~receipt'[w].orphan
        /\ receipt'[w].basket = basket
        /\ \A v \in Workers : v # w => receipt'[v] = receipt[v]
    BY <1>0 DEF IInv, Types, Receipts, Open, NoReceipt
  <1>1. Types'
    BY <1>0, <1>a, <1>b DEF IInv, Types
  <1>2. Existence'
    BY <1>a, <1>b DEF IInv, Existence, Open
  <1>3. ReceivedIsComplete'
    BY <1>a DEF IInv, ReceivedIsComplete, Complete
  <1>4. PostedIsComplete'
    BY <1>a, <1>b DEF IInv, PostedIsComplete, Completes, Complete, Plus
  <1>5. Unraced'
    <2> SUFFICES ASSUME NEW q \in Orders, q \notin raced'
                 PROVE  Exact(q)' /\ \A v \in Workers : Open(v, q)' => StillTrue(v, q)'
      BY DEF Unraced
    <2>1. CASE q # o
      BY <1>a, <1>b, <2>1, FrameUnraced DEF Open
    <2>2. CASE q = o
      <3>1. seen = status[o] /\ \A v \in Workers : ~Open(v, o)
        BY <1>0, <1>a, <2>2 DEF Noted, Overlaps
      <3>2. \A v \in Workers : Open(v, o)' => v = w
        BY <1>b, <3>1 DEF Open
      <3>3. StillTrue(w, o)'
        BY <1>0, <1>a, <1>b, <3>1, <3>2 DEF StillTrue, OfThisOrder, WithinLimit
      <3> QED BY <1>a, <2>2, <3>2, <3>3 DEF Exact, IInv, Unraced
    <2> QED BY <2>1, <2>2
  <1> QED BY <1>1, <1>2, <1>3, <1>4, <1>5 DEF IInv

\* The second read, of what has been received when the lines are in.
LEMMA ReceiptPostKeeps ==
    ASSUME IInv, NEW w \in Workers, ReceiptPost(w)
    PROVE  IInv'
  <1> DEFINE o == receipt[w].order
             to == SettledStatus(o, Plus(received[o], receipt[w].basket))
  <1>0. /\ receipt[w] # NoReceipt /\ receipt[w].phase = "checked"
        /\ receipt' = [receipt EXCEPT ![w] = [receipt[w] EXCEPT !.phase = "posted", !.to = to]]
        /\ UNCHANGED <<status, held, lines, received, raced>>
    BY DEF ReceiptPost, goods, IInv, Types
  <1>a. to \in {"PARTIALLY_RECEIVED", "RECEIVED"}
    BY DEF SettledStatus
  <1>b. /\ receipt'[w] \in Receipts /\ receipt'[w].order = o /\ receipt'[w].phase = "posted"
        /\ receipt'[w].seen = receipt[w].seen /\ receipt'[w].orphan = receipt[w].orphan
        /\ receipt'[w].basket = receipt[w].basket /\ receipt'[w].to = to
        /\ \A v \in Workers : v # w => receipt'[v] = receipt[v]
    BY <1>0, <1>a, ReceiptFacts DEF IInv, Types, Receipts
  <1> HIDE DEF to
  <1>c. \A v \in Workers : \A q \in Orders : Open(v, q)' <=> Open(v, q)
    <2>1. receipt'[w] # NoReceipt
      BY <1>b DEF NoReceipt
    <2> QED BY <1>0, <1>b, <2>1 DEF Open
  <1>1. Types'
    BY <1>0, <1>b DEF IInv, Types
  <1>2. Existence'
    BY <1>0, <1>c DEF IInv, Existence
  <1>3. ReceivedIsComplete'
    BY <1>0 DEF IInv, ReceivedIsComplete, Complete
  <1>4. PostedIsComplete'
    <2>1. to = "RECEIVED" => Complete(o, Plus(received[o], receipt[w].basket))
      BY DEF to, SettledStatus
    <2> QED BY <1>0, <1>b, <2>1 DEF IInv, PostedIsComplete, Completes, Complete, Plus
  <1>5. Unraced'
    <2> SUFFICES ASSUME NEW q \in Orders, q \notin raced'
                 PROVE  Exact(q)' /\ \A v \in Workers : Open(v, q)' => StillTrue(v, q)'
      BY DEF Unraced
    <2>1. CASE q # o
      BY <1>0, <1>b, <1>c, <2>1, FrameUnraced DEF Open
    <2>2. CASE q = o
      <3>1. StillTrue(w, o) /\ \A v \in Workers : Open(v, o)' => v = w
        BY <1>0, <1>c, <2>2 DEF IInv, Unraced, StillTrue, Open
      <3>2. to = SettledStatus(o, Plus(received[o], receipt[w].basket))'
        BY <1>0, <1>b DEF to, SettledStatus, Complete, Plus
      <3>3. StillTrue(w, o)'
        BY <1>0, <1>b, <1>c, <3>1, <3>2 DEF StillTrue, OfThisOrder, WithinLimit
      <3> QED BY <1>0, <2>2, <3>1, <3>3 DEF Exact, IInv, Unraced
    <2> QED BY <2>1, <2>2
  <1> QED BY <1>1, <1>2, <1>3, <1>4, <1>5 DEF IInv

\* A receipt commits. Its own lines count, whatever others have committed meanwhile; on an
\* unraced order what it checked and settled is still true.
LEMMA ReceiptCommitKeeps ==
    ASSUME IInv, NEW w \in Workers, ReceiptCommit(w)
    PROVE  IInv'
  <1>9. PICK o \in Orders, basket \in Baskets, to \in {"PARTIALLY_RECEIVED", "RECEIVED"} :
            o = receipt[w].order /\ basket = receipt[w].basket /\ to = receipt[w].to
    BY ReceiptFacts DEF ReceiptCommit, IInv
  <1>0. /\ receipt[w] # NoReceipt /\ receipt[w].phase = "posted" /\ ~receipt[w].orphan
        /\ Transition(o, receipt[w].seen, to)
        /\ received' = [received EXCEPT ![o] = Plus(received[o], basket)]
        /\ Noted(o, receipt[w].seen, Workers \ {w})
        /\ receipt' = [receipt EXCEPT ![w] = NoReceipt]
        /\ UNCHANGED lines
    BY <1>9 DEF ReceiptCommit, IInv, Types
  <1>a. Open(w, o) /\ status[o] # "NONE"
    BY <1>0, <1>9 DEF IInv, Existence, Open
  <1>b. /\ status' = [status EXCEPT ![o] = to] /\ held' = [held EXCEPT ![o] = held[o] \cup {to}]
        /\ raced \subseteq raced' /\ raced' \subseteq Orders
    BY <1>0, <1>a DEF Transition, Noted, IInv, Types
  <1>c. /\ basket \in Quantities /\ received[o] \in Quantities
        /\ received'[o] = Plus(received[o], basket) /\ received'[o] \in Quantities
        /\ \A p \in Products : received'[o][p] = received[o][p] + basket[p]
        /\ \A q \in Orders : q # o => received'[q] = received[q]
    BY <1>0, <1>a, BasketFacts DEF IInv, Types
  <1>d. /\ receipt'[w] = NoReceipt /\ \A v \in Workers : v # w => receipt'[v] = receipt[v]
        /\ \A v \in Workers : \A q \in Orders : Open(v, q)' <=> v # w /\ Open(v, q)
    BY <1>0 DEF IInv, Types, Open
  <1>1. Types'
    BY <1>0, <1>a, <1>b, <1>c DEF IInv, Types, OrderStatus
  <1>2. Existence'
    BY <1>0, <1>a, <1>b, <1>c, <1>d DEF IInv, Types, Existence
  <1>3. ReceivedIsComplete'
    <2>1. to = "RECEIVED" => Complete(o, received'[o])
      BY <1>0, <1>9, <1>c DEF IInv, PostedIsComplete, Completes
    <2> QED BY <1>0, <1>a, <1>b, <1>c, <2>1 DEF IInv, Types, ReceivedIsComplete, Complete
  <1>4. PostedIsComplete'
    <2> SUFFICES ASSUME NEW v \in Workers, receipt'[v] # NoReceipt PROVE Completes(v)'
      BY DEF PostedIsComplete
    <2>1. receipt'[v] = receipt[v] /\ Completes(v) /\ receipt[v] # NoReceipt
      BY <1>d DEF IInv, PostedIsComplete
    <2>2. CASE receipt[v].order # o
      BY <1>0, <1>c, <2>1, <2>2, ReceiptFacts DEF IInv, Completes, Complete, Plus
    <2>3. CASE receipt[v].order = o
      <3>1. PICK b \in Quantities : b = receipt[v].basket
        BY <2>1, ReceiptFacts, BasketFacts DEF IInv
      <3>2. \A p \in Products : /\ Plus(received[o], b)[p] = received[o][p] + b[p]
                                /\ Plus(received'[o], b)[p] = received[o][p] + basket[p] + b[p]
        BY <1>c, BasketFacts DEF Quantities
      <3>3. \A p \in Products : /\ lines[o][p] \in Nat /\ received[o][p] \in Nat
                                /\ basket[p] \in Nat /\ b[p] \in Nat
        BY <1>c, BasketFacts DEF IInv, Types, Quantities
      <3>4. ASSUME Complete(o, Plus(received[o], b)), NEW p \in Products
            PROVE  Plus(received'[o], b)[p] >= lines[o][p]
        BY <3>2, <3>3, <3>4 DEF Complete
      <3> QED BY <1>0, <2>1, <2>3, <3>1, <3>4 DEF Completes, Complete, Plus
    <2> QED BY <2>2, <2>3
  <1>5. Unraced'
    <2> SUFFICES ASSUME NEW q \in Orders, q \notin raced'
                 PROVE  Exact(q)' /\ \A v \in Workers : Open(v, q)' => StillTrue(v, q)'
      BY DEF Unraced
    <2>1. CASE q # o
      BY <1>0, <1>a, <1>b, <1>c, <1>d, <2>1, FrameUnraced DEF IInv, Types, Open
    <2>2. CASE q = o
      <3>1. StillTrue(w, o) /\ Exact(o)
        BY <1>a, <1>b, <2>2 DEF IInv, Unraced
      <3>2. \A v \in Workers : ~Open(v, o)'
        BY <1>a, <1>d, <3>1 DEF StillTrue
      <3>3. WithinLimit(o, received[o], basket) /\ to = SettledStatus(o, received'[o])
        BY <1>0, <1>9, <1>c, <3>1 DEF StillTrue
      <3>4. \A p \in Products : basket[p] \in Nat /\ received[o][p] \in Nat /\ lines[o][p] \in Nat
        BY <1>a, <1>c, BasketFacts DEF IInv, Types, Quantities
      <3>5. ASSUME NEW p \in Products
            PROVE  received'[o][p] <= AcceptanceLimit(lines'[o][p])
        <4>1. CASE basket[p] > 0
          BY <1>0, <1>c, <3>3, <4>1 DEF WithinLimit
        <4>2. CASE basket[p] = 0
          BY <1>0, <1>c, <3>1, <3>4, <4>2 DEF Exact
        <4> QED BY <3>4, <4>1, <4>2
      <3>6. received'[o] # Nothing
        BY <1>a, <1>c, BasketFacts
      <3>7. to = "PARTIALLY_RECEIVED" => \E p \in Products : received'[o][p] < lines'[o][p]
        BY <1>0, <1>c, <3>3, <3>4 DEF SettledStatus, Complete
      <3>8. status'[o] = to
        BY <1>a, <1>b DEF IInv, Types
      <3>9. Exact(o)'
        BY <1>a, <3>5, <3>6, <3>7, <3>8 DEF Exact
      <3> QED BY <2>2, <3>2, <3>9
    <2> QED BY <2>1, <2>2
  <1> QED BY <1>1, <1>2, <1>3, <1>4, <1>5 DEF IInv

\* A receipt that rolls back leaves nothing.
LEMMA ReceiptRollbackKeeps ==
    ASSUME IInv, NEW w \in Workers, ReceiptRollback(w)
    PROVE  IInv'
  <1>0. /\ receipt' = [receipt EXCEPT ![w] = NoReceipt]
        /\ UNCHANGED <<status, held, lines, received, raced>>
    BY DEF ReceiptRollback, goods
  <1>a. /\ receipt'[w] = NoReceipt /\ \A v \in Workers : v # w => receipt'[v] = receipt[v]
        /\ \A v \in Workers : \A q \in Orders : Open(v, q)' => v # w /\ Open(v, q)
    BY <1>0 DEF IInv, Types, Open
  <1>1. Types'
    BY <1>0 DEF IInv, Types
  <1>2. Existence'
    BY <1>0, <1>a DEF IInv, Existence
  <1>3. ReceivedIsComplete'
    BY <1>0 DEF IInv, ReceivedIsComplete, Complete
  <1>4. PostedIsComplete'
    BY <1>0, <1>a DEF IInv, PostedIsComplete, Completes, Complete, Plus
  <1>5. Unraced'
    BY <1>0, <1>a, FrameUnraced DEF Unraced
  <1> QED BY <1>1, <1>2, <1>3, <1>4, <1>5 DEF IInv

----------------------------------------------------------------------------
(* The invariant, and the theorems                                          *)

\* Before any purchase order the invariant holds.
LEMMA InitIInv == Init => IInv
  <1> SUFFICES ASSUME Init PROVE IInv
    OBVIOUS
  <1>1. Types
    BY BasketFacts DEF Init, Types
  <1>2. Existence /\ ReceivedIsComplete /\ PostedIsComplete
    BY DEF Init, Existence, ReceivedIsComplete, PostedIsComplete, Open
  <1>3. Unraced
    <2> SUFFICES ASSUME NEW o \in Orders
                 PROVE  Exact(o) /\ \A w \in Workers : Open(w, o) => StillTrue(w, o)
      BY DEF Unraced
    <2>1. /\ received[o] = Nothing /\ status[o] = "NONE"
          /\ \A w \in Workers : ~Open(w, o)
      BY DEF Init, Open
    <2>2. \A p \in Products : received[o][p] = 0 /\ lines[o][p] \in Nat
      BY DEF Init, Nothing
    <2>3. \A p \in Products : received[o][p] <= AcceptanceLimit(lines[o][p])
      BY <2>2, LimitNat
    <2> QED BY <2>1, <2>3 DEF Exact
  <1> QED BY <1>1, <1>2, <1>3 DEF IInv

\* Every step keeps it.
LEMMA NextKeeps == IInv /\ [Next]_vars => IInv'
  <1> SUFFICES ASSUME IInv, [Next]_vars PROVE IInv'
    OBVIOUS
  <1>1. ASSUME NEW o \in Orders, NEW basket \in Baskets,
               \/ CreatePurchaseOrder(o, basket) \/ AmendPurchaseOrder(o, basket)
               \/ \E w \in Workers : ReceiptCheck(w, o, basket)
        PROVE  IInv'
    BY <1>1, CreateKeeps, AmendKeeps, ReceiptCheckKeeps
  <1>2. ASSUME NEW o \in Orders, IssuePurchaseOrder(o) \/ CancelPurchaseOrder(o) \/ ClosePurchaseOrder(o)
        PROVE  IInv'
    BY <1>2, MoveKeeps DEF IssuePurchaseOrder, CancelPurchaseOrder, ClosePurchaseOrder
  <1>3. ASSUME NEW w \in Workers, ReceiptPost(w) \/ ReceiptCommit(w) \/ ReceiptRollback(w)
        PROVE  IInv'
    BY <1>3, ReceiptPostKeeps, ReceiptCommitKeeps, ReceiptRollbackKeeps
  <1>4. CASE UNCHANGED vars
    <2>1. UNCHANGED <<status, held, lines, received, receipt, raced>>
      BY <1>4 DEF vars
    <2>2. Types' /\ Existence' /\ ReceivedIsComplete' /\ PostedIsComplete'
      BY <2>1 DEF IInv, Types, Existence, ReceivedIsComplete, PostedIsComplete, Completes, Complete,
                  Plus, Open
    <2>3. Unraced'
      BY <2>1, FrameUnraced DEF Unraced, Open
    <2> QED BY <2>2, <2>3 DEF IInv
  <1> QED BY <1>1, <1>2, <1>3, <1>4 DEF Next

\* The inductive invariant holds throughout.
THEOREM Invariance == Spec => []IInv
  BY InitIInv, NextKeeps, PTL DEF Spec

\* RECEIVED never overstates what has arrived, whatever requests overlapped.
THEOREM ReceivedIsCompleteHolds == Spec => []ReceivedIsComplete
  <1>1. IInv => ReceivedIsComplete
    BY DEF IInv
  <1> QED BY <1>1, Invariance, PTL

\* On an order whose requests never overlapped the status is exact and no line exceeds
\* its acceptance limit, for any tolerance.
THEOREM UnracedStatusIsExactHolds == Spec => []UnracedStatusIsExact
  <1>1. IInv => UnracedStatusIsExact
    <2> SUFFICES ASSUME IInv, NEW o \in Orders \ raced
                 PROVE  /\ \A p \in Products : received[o][p] <= AcceptanceLimit(lines[o][p])
                        /\ status[o] \in {"NONE", "DRAFT", "ISSUED", "CANCELLED"} <=> received[o] = Nothing
                        /\ status[o] = "PARTIALLY_RECEIVED" =>
                              \E p \in Products : OutstandingLines(o)[p] > 0
      BY DEF UnracedStatusIsExact
    <2>1. Exact(o)
      BY DEF IInv, Unraced
    <2>2. \A p \in Products : received[o][p] \in Nat /\ lines[o][p] \in Nat
      BY BasketFacts DEF IInv, Types, Quantities
    <2> QED BY <2>1, <2>2 DEF Exact, OutstandingLines
  <1> QED BY <1>1, Invariance, PTL

\* The lines goods were priced from stand, even against an amendment loaded while the
\* order was a draft.
THEOREM ReceivedLinesStandHolds == Spec => ReceivedLinesStand
  <1>1. ASSUME IInv, [Next]_vars, NEW q \in Orders, received[q] # Nothing
        PROVE  lines'[q] = lines[q]
    <2>1. ASSUME NEW o \in Orders, NEW basket \in Baskets, CreatePurchaseOrder(o, basket)
          PROVE  lines'[q] = lines[q]
      BY <1>1, <2>1 DEF CreatePurchaseOrder, IInv, Existence, Types
    <2>2. ASSUME NEW o \in Orders, NEW basket \in Baskets, AmendPurchaseOrder(o, basket)
          PROVE  lines'[q] = lines[q]
      BY <1>1, <2>2 DEF AmendPurchaseOrder, LinesDeletable, IInv, Types
    <2>3. ASSUME NEW o \in Orders,
                 \/ IssuePurchaseOrder(o) \/ CancelPurchaseOrder(o) \/ ClosePurchaseOrder(o)
                 \/ \E w \in Workers, basket \in Baskets : ReceiptCheck(w, o, basket)
          PROVE  lines'[q] = lines[q]
      BY <2>3 DEF IssuePurchaseOrder, CancelPurchaseOrder, ClosePurchaseOrder, ReceiptCheck
    <2>4. ASSUME NEW w \in Workers, ReceiptPost(w) \/ ReceiptCommit(w) \/ ReceiptRollback(w)
          PROVE  lines'[q] = lines[q]
      BY <2>4 DEF ReceiptPost, ReceiptCommit, ReceiptRollback
    <2>5. CASE UNCHANGED vars
      BY <2>5 DEF vars
    <2> QED BY <1>1, <2>1, <2>2, <2>3, <2>4, <2>5 DEF Next
  <1>2. IInv /\ [Next]_vars
           => [\A o \in Orders : received[o] # Nothing => lines'[o] = lines[o]]_vars
    BY <1>1
  <1> QED BY <1>2, Invariance, PTL DEF Spec, ReceivedLinesStand

----------------------------------------------------------------------------
(* The ledgers                                                              *)

\* What the receipts have put into the ledgers.
Books ==
    /\ booked \in [Orders -> Quantities]
    /\ payable \in [Orders -> Quantities]
    /\ stock \in Quantities
    /\ PayableFollowsGoods

\* to_money is at most half a paisa from what it rounds, on either side.
LEMMA ToMoneyNear ==
    ASSUME NEW n \in Nat
    PROVE  /\ ToMoney(n, 1000) \in Nat
           /\ 1000 * ToMoney(n, 1000) - n <= 500 /\ n - 1000 * ToMoney(n, 1000) <= 500
           /\ ToMoney(n, 10000) \in Nat
           /\ 10000 * ToMoney(n, 10000) - n <= 5000 /\ n - 10000 * ToMoney(n, 10000) <= 5000
           /\ n = 0 => ToMoney(n, 1000) = 0 /\ ToMoney(n, 10000) = 0
  <1>1. PICK m \in Nat : m = (2 * n + 1000) \div 2000
    BY SMT
  <1>2. PICK k \in Nat : k = (2 * n + 10000) \div 20000
    BY SMT
  <1>3. 2000 * m <= 2 * n + 1000 /\ 2 * n + 1000 < 2000 * m + 2000
    BY <1>1, SMT
  <1>4. 20000 * k <= 2 * n + 10000 /\ 2 * n + 10000 < 20000 * k + 20000
    BY <1>2, SMT
  <1>5. ToMoney(n, 1000) = m /\ ToMoney(n, 10000) = k
    BY <1>1, <1>2 DEF ToMoney, Quantize
  <1> QED BY <1>3, <1>4, <1>5

\* An error of at most h, taken a times.
LEMMA Scaled ==
    ASSUME NEW a \in Nat, NEW e \in Int, NEW h \in Nat, e <= h, -e <= h
    PROVE  a * e \in Int /\ a * e <= a * h /\ -(a * e) <= a * h
  <1>1. PICK f \in Nat, g \in Nat : f = h - e /\ g = h + e
    OBVIOUS
  <1>2. a * f \in Nat /\ a * g \in Nat
    BY SMT
  <1>3. a * f = a * h - a * e /\ a * g = a * h + a * e
    BY <1>1, SMT
  <1> QED BY <1>2, <1>3, SMT

\* What one line may be off by, in the units of PayableFollowsGoods.
LineDrift(p) == 10000000 + 500 * TaxRate[p]

\* What a receipt line costs: nothing for no goods, otherwise within its drift. The error
\* of the taxable amount is taxed, that of the tax is not.
LEMMA LineTotalNear ==
    ASSUME NEW p \in Products, NEW q \in Nat
    PROVE  /\ LineTotal(p, q) \in Nat
           /\ Cost[p] * q * (10000 + TaxRate[p]) \in Nat
           /\ q = 0 => LineTotal(p, q) = 0
           /\ 10000000 * LineTotal(p, q) - Cost[p] * q * (10000 + TaxRate[p]) <= LineDrift(p)
           /\ Cost[p] * q * (10000 + TaxRate[p]) - 10000000 * LineTotal(p, q) <= LineDrift(p)
  <1>1. PICK c \in Nat, r \in Nat : c = Cost[p] /\ r = TaxRate[p]
    BY PurchaseAssumption
  <1>2. PICK b \in Nat : b = c * q
    BY SMT
  <1>3. PICK t \in Nat : t = ToMoney(b, 1000)
    BY ToMoneyNear
  <1>4. PICK n \in Nat : n = t * r
    BY SMT
  <1>5. PICK x \in Nat : x = ToMoney(n, 10000)
    BY ToMoneyNear
  <1>6. LineTotal(p, q) = t + x
    BY <1>1, <1>2, <1>3, <1>4, <1>5 DEF LineTotal, Taxable
  <1> DEFINE e == 1000 * t - b
             f == 10000 * x - n
  <1>7. e \in Int /\ f \in Int /\ e = 1000 * t - b /\ f = 10000 * x - n
    BY SMT
  <1>8. e <= 500 /\ -e <= 500 /\ f <= 5000 /\ -f <= 5000
    <2>1. 1000 * t - b <= 500 /\ b - 1000 * t <= 500
      BY <1>3, ToMoneyNear
    <2>2. 10000 * x - n <= 5000 /\ n - 10000 * x <= 5000
      BY <1>5, ToMoneyNear
    <2> QED BY <1>7, <2>1, <2>2
  <1> HIDE DEF e, f
  <1>9. PICK d \in Int : d = (10000 + r) * e /\ d <= (10000 + r) * 500 /\ -d <= (10000 + r) * 500
    BY <1>7, <1>8, Scaled
  <1>10. (10000 + r) * b \in Nat /\ c * q * (10000 + r) = (10000 + r) * b
    BY <1>2, SMT
  <1>11. d = 10000000 * t + 1000 * n - (10000 + r) * b
    <2>1. (10000 + r) * (1000 * t - b) = 10000000 * t + 1000 * (t * r) - (10000 + r) * b
      BY SMT
    <2> QED BY <1>4, <1>7, <1>9, <2>1
  <1>12. 10000000 * (t + x) - (10000 + r) * b = d + 1000 * f
    BY <1>7, <1>10, <1>11
  <1>13. q = 0 => b = 0
    BY <1>2, SMT
  <1>14. t = 0 => n = 0
    BY <1>4, SMT
  <1>15. q = 0 => t = 0 /\ x = 0
    BY <1>3, <1>5, <1>13, <1>14, ToMoneyNear
  <1>16. PICK l \in Nat, y \in Nat : l = t + x /\ y = (10000 + r) * b
    BY <1>10
  <1>17. 10000000 * l - y = d + 1000 * f
    BY <1>12, <1>16
  <1>18. /\ d <= 5000000 + 500 * r /\ -d <= 5000000 + 500 * r
         /\ 1000 * f <= 5000000 /\ -(1000 * f) <= 5000000
    BY <1>7, <1>8, <1>9
  <1>19. /\ 10000000 * l - y <= 10000000 + 500 * r
         /\ y - 10000000 * l <= 10000000 + 500 * r
    BY <1>7, <1>17, <1>18
  <1> QED BY <1>1, <1>6, <1>10, <1>15, <1>16, <1>19 DEF LineDrift

\* The payable m for quantity r of a product is right to the drift of each of k lines.
Near(p, r, k, m) ==
    LET exact == Cost[p] * r * (10000 + TaxRate[p])
        drift == 1000 * (10000 * k) + 500 * (TaxRate[p] * k)
    IN  10000000 * m - exact <= drift /\ exact - 10000000 * m <= drift

\* A line of a receipt that commits: the quantity and the payable grow together.
LEMMA LineKeeps ==
    ASSUME NEW p \in Products, NEW r \in Nat, NEW k \in Nat, NEW m \in Nat, NEW q \in Nat,
           Near(p, r, k, m)
    PROVE  Near(p, r + q, k + (IF q > 0 THEN 1 ELSE 0), m + LineTotal(p, q))
  <1>0. PICK one \in Nat : one = IF q > 0 THEN 1 ELSE 0
    OBVIOUS
  <1>1. PICK c \in Nat, t \in Nat : c = Cost[p] /\ t = TaxRate[p]
    BY PurchaseAssumption
  <1>2. PICK x \in Nat, y \in Nat : x = c * r * (10000 + t) /\ y = c * q * (10000 + t)
    BY SMT
  <1>3. c * (r + q) * (10000 + t) = x + y
    BY <1>2, SMT
  <1>4. PICK l \in Nat : l = LineTotal(p, q)
    BY LineTotalNear
  <1>5. 10000000 * l - y <= 10000000 + 500 * t /\ y - 10000000 * l <= 10000000 + 500 * t
    BY <1>1, <1>2, <1>4, LineTotalNear DEF LineDrift
  <1>6. q = 0 => l = 0 /\ y = 0
    <2>1. q = 0 => l = 0
      BY <1>4, LineTotalNear
    <2>2. q = 0 => y = 0
      BY <1>2, SMT
    <2> QED BY <2>1, <2>2
  <1>7. PICK u \in Nat : u = t * k
    BY SMT
  <1>8. t * (k + one) = u + (IF q > 0 THEN t ELSE 0)
    BY <1>0, <1>7, SMT
  <1>9. /\ 10000000 * m - x <= 1000 * (10000 * k) + 500 * u
        /\ x - 10000000 * m <= 1000 * (10000 * k) + 500 * u
    BY <1>1, <1>2, <1>7 DEF Near
  <1>10. PICK v \in Nat : v = t * (k + one)
    BY <1>0, SMT
  <1>11. /\ 10000000 * (m + l) - (x + y) <= 1000 * (10000 * (k + one)) + 500 * v
         /\ (x + y) - 10000000 * (m + l) <= 1000 * (10000 * (k + one)) + 500 * v
    BY <1>0, <1>5, <1>6, <1>8, <1>9, <1>10
  <1> QED BY <1>0, <1>1, <1>3, <1>4, <1>10, <1>11 DEF Near

\* Only a receipt that commits touches the ledgers.
LEMMA CommitKeepsBooks ==
    ASSUME IInv, Books, NEW w \in Workers, ReceiptCommit(w)
    PROVE  Books'
  <1>1. PICK o \in Orders, basket \in Baskets :
            o = receipt[w].order /\ basket = receipt[w].basket
    BY ReceiptFacts DEF ReceiptCommit, IInv
  <1>2. /\ received' = [received EXCEPT ![o] = Plus(received[o], basket)]
        /\ booked' = [booked EXCEPT ![o] = Plus(booked[o], ReceiptLines(basket))]
        /\ payable' = [payable EXCEPT ![o] = Plus(payable[o], ReceiptTotals(basket))]
        /\ stock' = Plus(stock, basket)
    BY <1>1 DEF ReceiptCommit, ReceiveStock, IInv, Types, Books
  <1>3. received \in [Orders -> Quantities] /\ basket \in Quantities
    BY BasketFacts DEF IInv, Types
  <1>4. ReceiptLines(basket) \in Quantities
    BY DEF ReceiptLines, Quantities
  <1>5. ReceiptTotals(basket) \in Quantities
    BY <1>3, LineTotalNear DEF ReceiptTotals, Quantities
  <1>6. booked' \in [Orders -> Quantities]
    BY <1>2, <1>4, BasketFacts DEF Books
  <1>7. payable' \in [Orders -> Quantities]
    BY <1>2, <1>5, BasketFacts DEF Books
  <1>8. stock' \in Quantities
    BY <1>2, <1>3, BasketFacts DEF Books
  <1>9. PayableFollowsGoods'
    <2> SUFFICES ASSUME NEW q \in Orders, NEW p \in Products
                 PROVE  Near(p, received'[q][p], booked'[q][p], payable'[q][p])
      BY DEF PayableFollowsGoods, Near
    <2>1. Near(p, received[q][p], booked[q][p], payable[q][p])
      BY DEF Books, PayableFollowsGoods, Near
    <2>2. CASE q # o
      <3>1. received'[q] = received[q] /\ booked'[q] = booked[q] /\ payable'[q] = payable[q]
        BY <1>2, <1>3, <2>2 DEF Books
      <3> QED BY <2>1, <3>1
    <2>3. CASE q = o
      <3>1. PICK r \in Nat, k \in Nat, m \in Nat, n \in Nat :
                r = received[o][p] /\ k = booked[o][p] /\ m = payable[o][p] /\ n = basket[p]
        BY <1>3 DEF Books, Quantities
      <3>2. /\ received'[o][p] = r + n
            /\ booked'[o][p] = k + (IF n > 0 THEN 1 ELSE 0)
            /\ payable'[o][p] = m + LineTotal(p, n)
        <4>1. received'[o] = Plus(received[o], basket)
          BY <1>2, <1>3
        <4>2. booked'[o] = Plus(booked[o], ReceiptLines(basket))
          BY <1>2 DEF Books
        <4>3. payable'[o] = Plus(payable[o], ReceiptTotals(basket))
          BY <1>2 DEF Books
        <4> QED BY <3>1, <4>1, <4>2, <4>3 DEF Plus, ReceiptLines, ReceiptTotals
      <3>3. Near(p, r, k, m)
        BY <2>1, <2>3, <3>1
      <3>4. Near(p, r + n, k + (IF n > 0 THEN 1 ELSE 0), m + LineTotal(p, n))
        BY <3>3, LineKeeps
      <3> QED BY <2>3, <3>2, <3>4
    <2> QED BY <2>2, <2>3
  <1> QED BY <1>6, <1>7, <1>8, <1>9 DEF Books

\* Every step keeps the books.
LEMMA NextKeepsBooks == IInv /\ Books /\ [Next]_vars => Books'
  <1> SUFFICES ASSUME IInv, Books, [Next]_vars PROVE Books'
    OBVIOUS
  <1>1. CASE UNCHANGED goods
    BY <1>1 DEF goods, Books, PayableFollowsGoods
  <1>2. ASSUME NEW w \in Workers, ReceiptCommit(w) PROVE Books'
    BY <1>2, CommitKeepsBooks
  <1>3. UNCHANGED goods \/ \E w \in Workers : ReceiptCommit(w)
    <2>1. ASSUME NEW o \in Orders, NEW basket \in Baskets,
                 CreatePurchaseOrder(o, basket) \/ AmendPurchaseOrder(o, basket)
          PROVE  UNCHANGED goods
      BY <2>1 DEF CreatePurchaseOrder, AmendPurchaseOrder
    <2>2. ASSUME NEW o \in Orders, NEW basket \in Baskets, NEW w \in Workers,
                 ReceiptCheck(w, o, basket)
          PROVE  UNCHANGED goods
      BY <2>2 DEF ReceiptCheck
    <2>3. ASSUME NEW o \in Orders, IssuePurchaseOrder(o) \/ CancelPurchaseOrder(o) \/ ClosePurchaseOrder(o)
          PROVE  UNCHANGED goods
      BY <2>3 DEF IssuePurchaseOrder, CancelPurchaseOrder, ClosePurchaseOrder
    <2>4. ASSUME NEW w \in Workers, ReceiptPost(w) \/ ReceiptRollback(w)
          PROVE  UNCHANGED goods
      BY <2>4 DEF ReceiptPost, ReceiptRollback
    <2>5. ASSUME UNCHANGED vars PROVE UNCHANGED goods
      BY <2>5 DEF vars, goods
    <2> QED BY <2>1, <2>2, <2>3, <2>4, <2>5 DEF Next
  <1> QED BY <1>1, <1>2, <1>3

\* The books are in order throughout.
LEMMA BooksHold == Spec => []Books
  <1>1. Init => Books
    <2> SUFFICES ASSUME Init PROVE Books
      OBVIOUS
    <2>1. booked \in [Orders -> Quantities] /\ payable \in [Orders -> Quantities] /\ stock \in Quantities
      BY BasketFacts DEF Init
    <2>2. ASSUME NEW o \in Orders, NEW p \in Products
          PROVE  Near(p, received[o][p], booked[o][p], payable[o][p])
      <3>1. PICK c \in Nat, t \in Nat : c = Cost[p] /\ t = TaxRate[p]
        BY PurchaseAssumption
      <3>2. c * 0 * (10000 + t) = 0 /\ t * 0 = 0
        BY SMT
      <3>3. received[o][p] = 0 /\ booked[o][p] = 0 /\ payable[o][p] = 0
        BY DEF Init, Nothing
      <3> QED BY <3>1, <3>2, <3>3 DEF Near
    <2> QED BY <2>1, <2>2 DEF Books, PayableFollowsGoods, Near
  <1> QED BY <1>1, NextKeepsBooks, Invariance, PTL DEF Spec

\* Every variable keeps its type.
THEOREM TypeCorrect == Spec => []TypeOK
  <1>1. IInv /\ Books => TypeOK
    BY DEF IInv, Types, Books, TypeOK
  <1> QED BY <1>1, Invariance, BooksHold, PTL

\* What the supplier is owed follows the goods, to a paisa and half the tax on one for every
\* receipt line, for any costs, rates, quantities and number of receipts.
THEOREM PayableFollowsGoodsHolds == Spec => []PayableFollowsGoods
  <1>1. Books => PayableFollowsGoods
    BY DEF Books
  <1> QED BY <1>1, BooksHold, PTL
=============================================================================
