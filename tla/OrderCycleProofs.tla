--------------------------- MODULE OrderCycleProofs ---------------------------
(****************************************************************************)
(* Proofs about OrderCycle, for any set of orders, products, quantities and *)
(* outcome keys, and about OrderPricing, for any number of orders, lines    *)
(* and requests and any prices, rates, discounts and credit limit.          *)
(****************************************************************************)
EXTENDS OrderCycle, OrderPricing, LedgerWalkProofs

\* An order with a row has lines; what refers to an order finds one.
Placed(o) ==
    /\ status[o] # "NONE" => lines[o] \in Baskets
    /\ status[o] = "NONE" => held[o] = {}
    /\ delivery[o].status # "NONE" => status[o] # "NONE"

\* While a dispatch holds the delivery row, the delivery is still waiting for it.
DispatchPending(o) ==
    dispatching[o].phase # "none" =>
        /\ delivery[o].status = "PENDING"
        /\ ~delivery[o].dispatched
        /\ dispatching[o].phase = "read" => dispatching[o].basket \in Baskets

OutcomeAfterDispatch(o) ==
    /\ delivery[o].status \in {"DELIVERED", "FAILED"} => delivery[o].dispatched
    /\ status[o] = "DELIVERED" => delivery[o].status = "DELIVERED"
    /\ delivery[o].status = "NONE" => ~delivery[o].dispatched

OrderInv(o) ==
    /\ Placed(o)
    /\ DispatchPending(o)
    /\ OutcomeAfterDispatch(o)
    /\ LedgerTellsDelivery(o)

\* The inductive invariant.
IInv == TypeOK /\ \A o \in Orders : OrderInv(o)

----------------------------------------------------------------------------
\* No lines at all is not a basket, and a request that holds an instance holds
\* one of an order that was placed (the row exists before anything refers to it).
LEMMA HeldMeansPlaced ==
    ASSUME TypeOK, NEW o \in Orders, Placed(o), Snapshots(o) # {}
    PROVE  status[o] # "NONE"
  <1>1. CASE serial
    BY <1>1 DEF Snapshots, OrderStatus
  <1>2. CASE ~serial
    BY <1>2 DEF Snapshots, Placed
  <1>3. QED
    BY <1>1, <1>2

\* Appending to a sequence of one element: a delivery's ISSUE, then its RETURN.
LEMMA AppendToOne ==
    ASSUME NEW S, NEW s \in Seq(S), Len(s) = 1, NEW x \in S
    PROVE  /\ Len(Append(s, x)) = 2
           /\ Append(s, x)[1] = s[1]
           /\ Append(s, x)[2] = x
  <1>1. Len(Append(s, x)) = Len(s) + 1
    BY AppendProperties
  <1>2. \A i \in 1..Len(s) : Append(s, x)[i] = s[i]
    BY AppendProperties
  <1>3. Append(s, x)[Len(s) + 1] = x
    BY AppendProperties
  <1>4. 1 \in 1..Len(s)
    OBVIOUS
  <1>5. QED
    BY <1>1, <1>2, <1>3, <1>4

\* Every step is a step of one order.
StepOf(o) == OrderService(o) \/ AssignDelivery(o) \/ Dispatch(o) \/ Outcome(o)

\* A step of an order leaves the rows of every other order alone.
LEMMA OthersUnchanged ==
    ASSUME TypeOK, NEW o \in Orders, StepOf(o), NEW q \in Orders, q # o
    PROVE  /\ status'[q] = status[q]
           /\ held'[q] = held[q]
           /\ lines'[q] = lines[q]
           /\ delivery'[q] = delivery[q]
           /\ dispatching'[q] = dispatching[q]
           /\ moves'[q] = moves[q]
  <1> USE DEF TypeOK
  <1>1. CASE OrderService(o)
    BY <1>1 DEF OrderService, PlaceOrder, AmendOrder, ConfirmOrder, CancelOrder, Transition
  <1>2. CASE AssignDelivery(o)
    BY <1>2 DEF AssignDelivery
  <1>3. CASE Dispatch(o)
    BY <1>3 DEF Dispatch, DispatchBegin, DispatchReadLines, DispatchCommit, DispatchRollback
  <1>4. CASE Outcome(o)
    BY <1>4 DEF Outcome, CompleteDelivery, FailDelivery
  <1>5. QED
    BY <1>1, <1>2, <1>3, <1>4 DEF StepOf

----------------------------------------------------------------------------
(* Type correctness. The lines a dispatch reads and a failed delivery       *)
(* returns are a real basket only because a delivery refers to a placed     *)
(* order, so typing is proved together with OrderInv.                       *)

\* Before the first order every delivery is unassigned and the ledger is empty.
LEMMA InitInv == Init => IInv
  <1> SUFFICES ASSUME Init PROVE IInv
    OBVIOUS
  <1> USE DEF Init
  <1>1. TypeOK
    BY DEF TypeOK, Deliveries, NoDelivery, DeliveryStatus, DispatchTx, NotRunning
  <1>2. ASSUME NEW o \in Orders PROVE OrderInv(o)
    BY DEF OrderInv, Placed, DispatchPending, OutcomeAfterDispatch,
           LedgerTellsDelivery, NoDelivery, NotRunning
  <1>3. QED
    BY <1>1, <1>2 DEF IInv

\* No step leaves the declared statuses, baskets and ledger rows.
LEMMA TypeStep ==
    ASSUME IInv, NEW o \in Orders, StepOf(o), UNCHANGED serial
    PROVE  TypeOK'
  <1> USE DEF IInv, TypeOK
  <1>0. OrderInv(o)
    OBVIOUS
  <1>1. CASE OrderService(o)
    <2>1. ASSUME NEW basket \in Baskets, PlaceOrder(o, basket)
          PROVE  TypeOK'
      BY <2>1 DEF PlaceOrder, OrderStatus
    <2>2. ASSUME NEW basket \in Baskets, AmendOrder(o, basket)
          PROVE  TypeOK'
      BY <2>2 DEF AmendOrder
    <2>3. CASE ConfirmOrder(o)
      BY <2>3 DEF ConfirmOrder, Transition, OrderStatus
    <2>4. CASE CancelOrder(o)
      BY <2>4 DEF CancelOrder, Transition, OrderStatus
    <2>5. QED
      BY <1>1, <2>1, <2>2, <2>3, <2>4 DEF OrderService
  <1>2. CASE AssignDelivery(o)
    BY <1>2 DEF AssignDelivery, Deliveries, DeliveryStatus
  <1>3. CASE Dispatch(o)
    <2>1. CASE DispatchBegin(o)
      BY <2>1 DEF DispatchBegin, DispatchTx
    <2>2. CASE DispatchReadLines(o)
      BY <2>2 DEF DispatchReadLines, DispatchTx
    <2>3. CASE DispatchCommit(o)
      <3>1. dispatching[o].basket \in Baskets
        BY <1>0, <2>3 DEF OrderInv, DispatchPending, DispatchCommit
      <3>2. [type |-> "ISSUE", basket |-> dispatching[o].basket] \in Movements
        BY <3>1 DEF Movements
      <3>3. moves' \in [Orders -> Seq(Movements)]
        BY <2>3, <3>2 DEF DispatchCommit
      <3>4. delivery' \in [Orders -> Deliveries]
        BY <2>3 DEF DispatchCommit, Deliveries
      <3>5. status' \in [Orders -> OrderStatus \cup {"NONE"}] /\ held' \in [Orders -> SUBSET OrderStatus]
        BY <2>3 DEF DispatchCommit, OrderStatus
      <3>6. dispatching' \in [Orders -> DispatchTx] /\ lines' = lines
        BY <2>3 DEF DispatchCommit, DispatchTx, NotRunning
      <3>7. QED
        BY <3>3, <3>4, <3>5, <3>6
    <2>4. CASE DispatchRollback(o)
      BY <2>4 DEF DispatchRollback, DispatchTx, NotRunning
    <2>5. QED
      BY <1>3, <2>1, <2>2, <2>3, <2>4 DEF Dispatch
  <1>4. ASSUME NEW k \in Keys \cup {NoKey}, CompleteDelivery(o, k)
        PROVE  TypeOK'
    <2>0. delivery[o] \in Deliveries /\ k \in Keys \cup {NoKey}
      OBVIOUS
    <2>a. [delivery[o] EXCEPT !.status = "DELIVERED", !.key = k] \in Deliveries
      BY <2>0 DEF Deliveries, DeliveryStatus
    <2>1. delivery' \in [Orders -> Deliveries]
      BY <1>4, <2>a DEF CompleteDelivery
    <2>2. status' \in [Orders -> OrderStatus \cup {"NONE"}] /\ held' \in [Orders -> SUBSET OrderStatus]
      BY <1>4 DEF CompleteDelivery, OrderStatus
    <2>3. QED
      BY <1>4, <2>1, <2>2 DEF CompleteDelivery
  <1>5. ASSUME NEW k \in Keys \cup {NoKey}, FailDelivery(o, k)
        PROVE  TypeOK'
    <2>1. lines[o] \in Baskets
      BY <1>0, <1>5 DEF OrderInv, Placed, FailDelivery, OutcomeDue
    <2>2. [type |-> "RETURN", basket |-> lines[o]] \in Movements
      BY <2>1 DEF Movements
    <2>3. moves' \in [Orders -> Seq(Movements)]
      BY <1>5, <2>2 DEF FailDelivery
    <2>0. delivery[o] \in Deliveries /\ k \in Keys \cup {NoKey}
      OBVIOUS
    <2>a. [delivery[o] EXCEPT !.status = "FAILED", !.key = k] \in Deliveries
      BY <2>0 DEF Deliveries, DeliveryStatus
    <2>4. delivery' \in [Orders -> Deliveries]
      BY <1>5, <2>a DEF FailDelivery
    <2>5. QED
      BY <1>5, <2>3, <2>4 DEF FailDelivery
  <1>6. QED
    BY <1>1, <1>2, <1>3, <1>4, <1>5 DEF StepOf, Outcome

----------------------------------------------------------------------------
(* The rows of one order keep OrderInv, action by action.                   *)

\* Placing, amending, confirming and cancelling leave deliveries and stock alone.
LEMMA OrderServiceStep ==
    ASSUME IInv, TypeOK', NEW o \in Orders, OrderService(o)
    PROVE  OrderInv(o)'
  <1> USE DEF IInv, TypeOK
  <1>0. OrderInv(o)
    OBVIOUS
  <1>1. ASSUME NEW basket \in Baskets, PlaceOrder(o, basket)
        PROVE  OrderInv(o)'
    BY <1>0, <1>1 DEF PlaceOrder, OrderInv, Placed, DispatchPending, OutcomeAfterDispatch,
                      LedgerTellsDelivery
  <1>2. ASSUME NEW basket \in Baskets, AmendOrder(o, basket)
        PROVE  OrderInv(o)'
    BY <1>0, <1>2 DEF AmendOrder, OrderInv, Placed, DispatchPending, OutcomeAfterDispatch,
                      LedgerTellsDelivery
  <1>3. ASSUME NEW to \in {"CONFIRMED", "CANCELLED"}, Transition(o, to),
               UNCHANGED <<lines, delivery, dispatching, moves>>
        PROVE  OrderInv(o)'
    <2>1. status[o] # "NONE"
      BY <1>0, <1>3, HeldMeansPlaced DEF OrderInv, Transition
    <2>2. QED
      BY <1>0, <1>3, <2>1 DEF Transition, OrderInv, Placed, DispatchPending,
                              OutcomeAfterDispatch, LedgerTellsDelivery
  <1>4. QED
    BY <1>1, <1>2, <1>3 DEF OrderService, ConfirmOrder, CancelOrder

\* Assigning a delivery creates it PENDING, with nothing issued.
LEMMA AssignStep ==
    ASSUME IInv, TypeOK', NEW o \in Orders, AssignDelivery(o)
    PROVE  OrderInv(o)'
  <1> USE DEF IInv, TypeOK
  <1>1. OrderInv(o) /\ status[o] # "NONE"
    BY HeldMeansPlaced DEF OrderInv, AssignDelivery
  <1>2. /\ delivery'[o].status = "PENDING"
        /\ delivery'[o].dispatched = delivery[o].dispatched
    BY DEF AssignDelivery, Deliveries
  <1>3. QED
    BY <1>1, <1>2 DEF AssignDelivery, OrderInv, Placed, DispatchPending,
                      OutcomeAfterDispatch, LedgerTellsDelivery

\* A dispatch issues the lines it read, once, in the commit that stamps the delivery.
LEMMA DispatchStep ==
    ASSUME IInv, TypeOK', NEW o \in Orders, Dispatch(o)
    PROVE  OrderInv(o)'
  <1> USE DEF IInv, TypeOK
  <1>0. OrderInv(o)
    OBVIOUS
  <1>1. CASE DispatchBegin(o)
    <2>1. dispatching'[o].phase = "checked"
      BY <1>1 DEF DispatchBegin, DispatchTx
    <2>2. delivery[o].status = "PENDING"
      BY <1>0, <1>1 DEF DispatchBegin, OrderInv, OutcomeAfterDispatch, Deliveries, DeliveryStatus
    <2>3. QED
      BY <1>0, <1>1, <2>1, <2>2 DEF DispatchBegin, OrderInv, Placed, DispatchPending,
                                    OutcomeAfterDispatch, LedgerTellsDelivery
  <1>2. CASE DispatchReadLines(o)
    BY <1>0, <1>2 DEF DispatchReadLines, OrderInv, Placed, DispatchPending,
                      OutcomeAfterDispatch, LedgerTellsDelivery
  <1>3. CASE DispatchCommit(o)
    <2>1. /\ delivery'[o].status = delivery[o].status
          /\ delivery'[o].dispatched = TRUE
      BY <1>3 DEF DispatchCommit, Deliveries
    <2>2. delivery[o].status = "PENDING" /\ Len(moves[o]) = 0
      BY <1>0, <1>3 DEF DispatchCommit, OrderInv, DispatchPending, LedgerTellsDelivery
    <2>3. moves'[o] = Append(moves[o], [type |-> "ISSUE", basket |-> dispatching[o].basket])
      BY <1>3 DEF DispatchCommit
    <2>4. Len(moves'[o]) = 1 /\ moves'[o][1].type = "ISSUE"
      BY <2>2, <2>3
    <2>5. LedgerTellsDelivery(o)'
      BY <2>1, <2>2, <2>4 DEF LedgerTellsDelivery
    <2>6. status'[o] = "DISPATCHED" /\ lines' = lines /\ dispatching'[o].phase = "none"
      BY <1>3 DEF DispatchCommit, NotRunning
    <2>7. QED
      BY <1>0, <2>1, <2>2, <2>5, <2>6 DEF OrderInv, Placed, DispatchPending, OutcomeAfterDispatch
  <1>4. CASE DispatchRollback(o)
    BY <1>0, <1>4 DEF DispatchRollback, NotRunning, OrderInv, Placed, DispatchPending,
                      OutcomeAfterDispatch, LedgerTellsDelivery
  <1>5. QED
    BY <1>1, <1>2, <1>3, <1>4 DEF Dispatch

\* An outcome is recorded once, on a dispatched delivery, and a failed one returns stock.
LEMMA OutcomeStep ==
    ASSUME IInv, TypeOK', NEW o \in Orders, Outcome(o)
    PROVE  OrderInv(o)'
  <1> USE DEF IInv, TypeOK
  <1>0. OrderInv(o)
    OBVIOUS
  <1>1. ASSUME NEW k \in Keys \cup {NoKey}, CompleteDelivery(o, k)
        PROVE  OrderInv(o)'
    <2>1. /\ delivery'[o].status = "DELIVERED"
          /\ delivery'[o].dispatched = delivery[o].dispatched
      BY <1>1 DEF CompleteDelivery, Deliveries
    <2>2. delivery[o].dispatched /\ delivery[o].status = "PENDING" /\ status[o] \in OrderStatus
          /\ status'[o] = "DELIVERED" /\ dispatching[o].phase = "none"
      BY <1>1 DEF CompleteDelivery, OutcomeDue, RowFree
    <2>3. QED
      BY <1>0, <1>1, <2>1, <2>2 DEF CompleteDelivery, OrderInv, Placed, DispatchPending,
                                    OutcomeAfterDispatch, LedgerTellsDelivery, OrderStatus
  <1>2. ASSUME NEW k \in Keys \cup {NoKey}, FailDelivery(o, k)
        PROVE  OrderInv(o)'
    <2>1. /\ delivery'[o].status = "FAILED"
          /\ delivery'[o].dispatched = delivery[o].dispatched
      BY <1>2 DEF FailDelivery, Deliveries
    <2>2. delivery[o].dispatched /\ delivery[o].status = "PENDING" /\ dispatching[o].phase = "none"
      BY <1>2 DEF FailDelivery, OutcomeDue, RowFree
    <2>3. moves'[o] = Append(moves[o], [type |-> "RETURN", basket |-> lines[o]])
      BY <1>2 DEF FailDelivery
    <2>4. Len(moves[o]) = 1 /\ moves[o][1].type = "ISSUE"
      BY <1>0, <2>2 DEF OrderInv, LedgerTellsDelivery
    <2>5. /\ Len(moves'[o]) = 2
          /\ moves'[o][1].type = "ISSUE"
          /\ moves'[o][2].type = "RETURN"
      <3>0. lines[o] \in Baskets
        BY <1>0, <2>2 DEF OrderInv, Placed
      <3>1. moves[o] \in Seq(Movements) /\ [type |-> "RETURN", basket |-> lines[o]] \in Movements
        BY <3>0 DEF Movements
      <3>2. /\ Len(moves'[o]) = 2
            /\ moves'[o][1] = moves[o][1]
            /\ moves'[o][2] = [type |-> "RETURN", basket |-> lines[o]]
        BY <2>3, <2>4, <3>1, AppendToOne
      <3>3. QED
        BY <2>4, <3>2
    <2>6. LedgerTellsDelivery(o)'
      BY <2>1, <2>2, <2>5 DEF LedgerTellsDelivery
    <2>7. QED
      BY <1>0, <1>2, <2>1, <2>2, <2>6 DEF FailDelivery, OrderInv, Placed, DispatchPending,
                                          OutcomeAfterDispatch
  <1>3. QED
    BY <1>1, <1>2 DEF Outcome

----------------------------------------------------------------------------
\* Every step preserves the inductive invariant.
LEMMA NextInv == IInv /\ [Next]_vars => IInv'
  <1> SUFFICES ASSUME IInv, [Next]_vars PROVE IInv'
    OBVIOUS
  <1>1. CASE UNCHANGED vars
    <2>1. TypeOK'
      BY <1>1 DEF IInv, vars, TypeOK
    <2>2. ASSUME NEW q \in Orders PROVE OrderInv(q)'
      BY <1>1 DEF IInv, vars, OrderInv, Placed, DispatchPending, OutcomeAfterDispatch,
                  LedgerTellsDelivery
    <2>3. QED
      BY <2>1, <2>2 DEF IInv
  <1>2. ASSUME NEW o \in Orders, StepOf(o), UNCHANGED serial PROVE IInv'
    <2>1. TypeOK'
      BY <1>2, TypeStep
    <2>2. OrderInv(o)'
      BY <1>2, <2>1, OrderServiceStep, AssignStep, DispatchStep, OutcomeStep DEF StepOf
    <2>3. ASSUME NEW q \in Orders, q # o PROVE OrderInv(q)'
      <3>1. OrderInv(q) /\ TypeOK
        BY DEF IInv
      <3>2. QED
        BY <1>2, <2>3, <3>1, OthersUnchanged DEF OrderInv, Placed, DispatchPending,
                                                 OutcomeAfterDispatch, LedgerTellsDelivery
    <2>4. QED
      BY <2>1, <2>2, <2>3 DEF IInv
  <1>3. QED
    BY <1>1, <1>2 DEF Next, StepOf

\* The inductive invariant holds in every reachable state, for any orders, products
\* and requests, whether or not requests are serialised.
THEOREM Invariance == Spec => []IInv
  BY InitInv, NextInv, PTL DEF Spec

\* The variables keep their types: in particular a movement always carries a real
\* basket, never an order that has lost its lines.
THEOREM TypeCorrect == Spec => []TypeOK
  <1>1. IInv => TypeOK
    BY DEF IInv
  <1>2. QED
    BY <1>1, Invariance, PTL

\* However many requests race, an order's stock is issued once and returned at most
\* once, exactly as its delivery row says.
THEOREM StockMovesOnceHolds == Spec => []StockMovesOnce
  <1>1. IInv => StockMovesOnce
    BY DEF IInv, OrderInv, StockMovesOnce
  <1>2. QED
    BY <1>1, Invariance, PTL

\* No outcome without a dispatch, no DELIVERED order without a handover.
THEOREM DeliveredMeansHandedOverHolds == Spec => []DeliveredMeansHandedOver
  <1>1. IInv => DeliveredMeansHandedOver
    BY DEF IInv, OrderInv, OutcomeAfterDispatch, DeliveredMeansHandedOver
  <1>2. QED
    BY <1>1, Invariance, PTL

----------------------------------------------------------------------------
(* Refinement: the delivery row alone says where the goods are, and only    *)
(* DispatchCommit, CompleteDelivery and FailDelivery move them.             *)

GoodsByDelivery(o) ==
    IF delivery[o].status = "FAILED" THEN "returned"
    ELSE IF delivery[o].status = "DELIVERED" THEN "shop"
    ELSE IF delivery[o].dispatched THEN "van"
    ELSE "warehouse"

\* Where an order's goods are follows from the delivery's status alone ...
LEMMA GoodsFromDelivery ==
    ASSUME IInv, NEW o \in Orders
    PROVE  GoodsAt(o) = GoodsByDelivery(o)
  <1>1. LedgerTellsDelivery(o) /\ OutcomeAfterDispatch(o)
    BY DEF IInv, OrderInv
  <1>2. CASE delivery[o].status = "FAILED"
    BY <1>1, <1>2 DEF LedgerTellsDelivery, GoodsAt, GoodsByDelivery
  <1>3. CASE delivery[o].status # "FAILED" /\ delivery[o].dispatched
    <2>1. Len(moves[o]) = 1
      BY <1>1, <1>3 DEF LedgerTellsDelivery
    <2>2. QED
      BY <1>3, <2>1 DEF GoodsAt, GoodsByDelivery
  <1>4. CASE delivery[o].status # "FAILED" /\ ~delivery[o].dispatched
    <2>1. Len(moves[o]) = 0
      BY <1>1, <1>4 DEF LedgerTellsDelivery
    <2>2. QED
      BY <1>1, <1>4, <2>1 DEF OutcomeAfterDispatch, GoodsAt, GoodsByDelivery
  <1>5. QED
    BY <1>2, <1>3, <1>4

\* ... in the next state too.
LEMMA GoodsFromDeliveryNext ==
    ASSUME IInv', NEW o \in Orders
    PROVE  GoodsAt(o)' = GoodsByDelivery(o)'
  <1>1. LedgerTellsDelivery(o)' /\ OutcomeAfterDispatch(o)'
    BY DEF IInv, OrderInv
  <1>2. CASE (delivery[o].status = "FAILED")'
    BY <1>1, <1>2 DEF LedgerTellsDelivery, GoodsAt, GoodsByDelivery
  <1>3. CASE (delivery[o].status # "FAILED" /\ delivery[o].dispatched)'
    <2>1. Len(moves'[o]) = 1
      BY <1>1, <1>3 DEF LedgerTellsDelivery
    <2>2. QED
      BY <1>3, <2>1 DEF GoodsAt, GoodsByDelivery
  <1>4. CASE (delivery[o].status # "FAILED" /\ ~delivery[o].dispatched)'
    <2>1. Len(moves'[o]) = 0
      BY <1>1, <1>4 DEF LedgerTellsDelivery
    <2>2. QED
      BY <1>1, <1>4, <2>1 DEF OutcomeAfterDispatch, GoodsAt, GoodsByDelivery
  <1>5. QED
    BY <1>2, <1>3, <1>4

\* What one order's step does to the place of that order's goods.
LEMMA GoodsStep ==
    ASSUME IInv, NEW o \in Orders, StepOf(o)
    PROVE  \/ GoodsByDelivery(o)' = GoodsByDelivery(o)
           \/ GoodsByDelivery(o) = "warehouse" /\ GoodsByDelivery(o)' = "van"
           \/ GoodsByDelivery(o) = "van" /\ GoodsByDelivery(o)' \in {"shop", "returned"}
  <1> USE DEF IInv, TypeOK
  <1>0. OrderInv(o)
    OBVIOUS
  <1>1. CASE UNCHANGED delivery
    BY <1>1 DEF GoodsByDelivery
  <1>2. CASE AssignDelivery(o)
    BY <1>2 DEF AssignDelivery, GoodsByDelivery, Deliveries
  <1>3. CASE DispatchCommit(o)
    <2>1. /\ delivery'[o].status = delivery[o].status
          /\ delivery'[o].dispatched = TRUE
      BY <1>3 DEF DispatchCommit, Deliveries
    <2>2. delivery[o].status = "PENDING" /\ ~delivery[o].dispatched
      BY <1>0, <1>3 DEF DispatchCommit, OrderInv, DispatchPending
    <2>3. QED
      BY <2>1, <2>2 DEF GoodsByDelivery
  <1>4. ASSUME NEW k \in Keys \cup {NoKey}, CompleteDelivery(o, k)
        PROVE  GoodsByDelivery(o) = "van" /\ GoodsByDelivery(o)' = "shop"
    BY <1>4 DEF CompleteDelivery, OutcomeDue, Deliveries, GoodsByDelivery
  <1>5. ASSUME NEW k \in Keys \cup {NoKey}, FailDelivery(o, k)
        PROVE  GoodsByDelivery(o) = "van" /\ GoodsByDelivery(o)' = "returned"
    BY <1>5 DEF FailDelivery, OutcomeDue, Deliveries, GoodsByDelivery
  <1>6. CASE OrderService(o)
    BY <1>1, <1>6 DEF OrderService, PlaceOrder, AmendOrder, ConfirmOrder, CancelOrder
  <1>7. CASE Dispatch(o)
    BY <1>1, <1>3, <1>7 DEF Dispatch, DispatchBegin, DispatchReadLines, DispatchRollback
  <1>8. QED
    BY <1>2, <1>4, <1>5, <1>6, <1>7 DEF StepOf, Outcome

\* Every step is a step of the abstract goods flow, or leaves the goods where they are.
LEMMA FlowStep ==
    ASSUME IInv, IInv', [Next]_vars
    PROVE  [Flow!FlowNext]_([o \in Orders |-> GoodsAt(o)])
  <1> DEFINE G == [o \in Orders |-> GoodsAt(o)]
  <1> USE DEF IInv
  <1>1. CASE UNCHANGED vars
    BY <1>1 DEF vars, GoodsAt
  <1>2. ASSUME NEW o \in Orders, StepOf(o)
        PROVE  [Flow!FlowNext]_G
    <2>1. ASSUME NEW q \in Orders, q # o PROVE GoodsAt(q)' = GoodsAt(q)
      BY <1>2, <2>1, OthersUnchanged DEF GoodsAt
    <2>2. /\ G[o] = GoodsByDelivery(o)
          /\ G'[o] = GoodsByDelivery(o)'
      BY GoodsFromDelivery, GoodsFromDeliveryNext
    <2>3. \A q \in Orders : q # o => G'[q] = G[q]
      BY <2>1
    <2>4. G' = [G EXCEPT ![o] = G'[o]]
      BY <2>3
    <2>5. CASE G'[o] = G[o]
      BY <2>4, <2>5
    <2>6. CASE G[o] = "warehouse" /\ G'[o] = "van"
      <3>1. Flow!Leave(o)
        BY <2>4, <2>6 DEF Flow!Leave
      <3>2. QED
        BY <3>1 DEF Flow!FlowNext
    <2>7. CASE G[o] = "van" /\ G'[o] = "shop"
      <3>1. Flow!HandOver(o)
        BY <2>4, <2>7 DEF Flow!HandOver
      <3>2. QED
        BY <3>1 DEF Flow!FlowNext
    <2>8. CASE G[o] = "van" /\ G'[o] = "returned"
      <3>1. Flow!ComeBack(o)
        BY <2>4, <2>8 DEF Flow!ComeBack
      <3>2. QED
        BY <3>1 DEF Flow!FlowNext
    <2>9. \/ G'[o] = G[o]
          \/ G[o] = "warehouse" /\ G'[o] = "van"
          \/ G[o] = "van" /\ G'[o] = "shop"
          \/ G[o] = "van" /\ G'[o] = "returned"
      <3> HIDE DEF G
      <3>1. QED
        BY <1>2, <2>2, GoodsStep
    <2>10. QED
      BY <2>5, <2>6, <2>7, <2>8, <2>9
  <1>3. QED
    BY <1>1, <1>2 DEF Next, StepOf

\* The order cycle, with its stale instances, its long-held lock and its retries,
\* implements the abstract flow of goods.
THEOREM GoodsFlowImplemented == Spec => ImplementsGoodsFlow
  <1>1. Init => Flow!FlowInit
    BY DEF Init, Flow!FlowInit, GoodsAt
  <1>2. IInv /\ IInv' /\ [Next]_vars => [Flow!FlowNext]_([o \in Orders |-> GoodsAt(o)])
    BY FlowStep
  <1>3. QED
    BY <1>1, <1>2, Invariance, PTL DEF Spec, ImplementsGoodsFlow, Flow!FlowSpec

----------------------------------------------------------------------------
(* One request at a time. With no stale instance the documents' stronger    *)
(* claims hold: the rules are right, it is the check on a snapshot that is  *)
(* not enough under concurrency.                                            *)

SerialInv(o) ==
    /\ dispatching[o].phase # "none" => status[o] = "CONFIRMED"
    /\ dispatching[o].phase = "read" => dispatching[o].basket = lines[o]
    /\ delivery[o].dispatched => status[o] \in {"DISPATCHED", "DELIVERED"}
    /\ Len(moves[o]) >= 1 => moves[o][1].basket = lines[o]
    /\ Len(moves[o]) = 2 => moves[o][2].basket = lines[o]

SInv == serial => \A o \in Orders : SerialInv(o)

\* A request that checks the row's own status neither moves nor edits an order
\* whose goods have left.
LEMMA SerialTransition ==
    ASSUME serial, NEW o \in Orders, NEW to \in {"CONFIRMED", "CANCELLED"}, Transition(o, to)
    PROVE  /\ dispatching[o].phase = "none"
           /\ status[o] \in {"PLACED", "CONFIRMED"}
           /\ to \in AllowedTransitions[status[o]]
  BY DEF Transition, Snapshots, AllowedTransitions, OrderStatus

\* With one request at a time, no stale order or line is ever written back.
LEMMA SerialStep ==
    ASSUME serial, IInv, SInv, NEW o \in Orders, StepOf(o)
    PROVE  SerialInv(o)'
  <1> USE DEF IInv, SInv, TypeOK
  <1>0. OrderInv(o) /\ SerialInv(o)
    OBVIOUS
  <1>1. ASSUME NEW basket \in Baskets, PlaceOrder(o, basket)
        PROVE  SerialInv(o)'
    <2>1. delivery[o].status = "NONE" /\ ~delivery[o].dispatched /\ Len(moves[o]) = 0
          /\ dispatching[o].phase = "none"
      BY <1>0, <1>1 DEF PlaceOrder, OrderInv, Placed, OutcomeAfterDispatch, DispatchPending,
                        LedgerTellsDelivery
    <2>2. QED
      BY <1>1, <2>1 DEF PlaceOrder, SerialInv
  <1>2. ASSUME NEW basket \in Baskets, AmendOrder(o, basket)
        PROVE  SerialInv(o)'
    <2>1. dispatching[o].phase = "none" /\ status[o] \in Editable
      BY <1>2 DEF AmendOrder, Snapshots
    <2>2. ~delivery[o].dispatched /\ Len(moves[o]) = 0
      BY <1>0, <2>1 DEF SerialInv, OrderInv, LedgerTellsDelivery, Editable
    <2>3. QED
      BY <1>2, <2>1, <2>2 DEF AmendOrder, SerialInv
  <1>3. ASSUME NEW to \in {"CONFIRMED", "CANCELLED"}, Transition(o, to),
               UNCHANGED <<lines, delivery, dispatching, moves>>
        PROVE  SerialInv(o)'
    <2>1. dispatching[o].phase = "none" /\ status[o] \in {"PLACED", "CONFIRMED"}
      BY <1>3, SerialTransition
    <2>2. QED
      BY <1>0, <1>3, <2>1 DEF SerialInv
  <1>4. CASE AssignDelivery(o)
    BY <1>0, <1>4 DEF AssignDelivery, SerialInv, Deliveries
  <1>5. CASE DispatchBegin(o)
    <2>1. dispatching'[o].phase = "checked"
      BY <1>5 DEF DispatchBegin, DispatchTx
    <2>2. QED
      BY <1>0, <1>5, <2>1 DEF DispatchBegin, SerialInv
  <1>6. CASE DispatchReadLines(o)
    BY <1>0, <1>6 DEF DispatchReadLines, SerialInv
  <1>7. CASE DispatchCommit(o)
    <2>1. moves'[o] = Append(moves[o], [type |-> "ISSUE", basket |-> lines[o]])
      BY <1>0, <1>7 DEF DispatchCommit, SerialInv
    <2>2. Len(moves[o]) = 0
      BY <1>0, <1>7 DEF DispatchCommit, OrderInv, DispatchPending, LedgerTellsDelivery
    <2>3. Len(moves'[o]) = 1 /\ moves'[o][1].basket = lines[o]
      BY <2>1, <2>2
    <2>4. status'[o] = "DISPATCHED" /\ lines' = lines /\ dispatching'[o].phase = "none"
      BY <1>7 DEF DispatchCommit, NotRunning
    <2>5. QED
      BY <2>3, <2>4 DEF SerialInv
  <1>8. CASE DispatchRollback(o)
    BY <1>0, <1>8 DEF DispatchRollback, NotRunning, SerialInv
  <1>9. ASSUME NEW k \in Keys \cup {NoKey}, CompleteDelivery(o, k)
        PROVE  SerialInv(o)'
    <2>1. dispatching[o].phase = "none" /\ status'[o] = "DELIVERED"
      BY <1>9 DEF CompleteDelivery, OutcomeDue, RowFree
    <2>2. QED
      BY <1>0, <1>9, <2>1 DEF CompleteDelivery, SerialInv
  <1>10. ASSUME NEW k \in Keys \cup {NoKey}, FailDelivery(o, k)
         PROVE  SerialInv(o)'
    <2>1. /\ delivery[o].dispatched
          /\ delivery[o].status = "PENDING"
          /\ dispatching[o].phase = "none"
          /\ delivery'[o].dispatched = delivery[o].dispatched
      BY <1>10 DEF FailDelivery, OutcomeDue, RowFree, Deliveries
    <2>2. Len(moves[o]) = 1 /\ lines[o] \in Baskets
      BY <1>0, <2>1 DEF OrderInv, Placed, LedgerTellsDelivery
    <2>3. moves[o] \in Seq(Movements) /\ [type |-> "RETURN", basket |-> lines[o]] \in Movements
      BY <2>2 DEF Movements
    <2>4. moves'[o] = Append(moves[o], [type |-> "RETURN", basket |-> lines[o]])
      BY <1>10 DEF FailDelivery
    <2>5. /\ moves'[o][1] = moves[o][1]
          /\ moves'[o][2] = [type |-> "RETURN", basket |-> lines[o]]
      BY <2>2, <2>3, <2>4, AppendToOne
    <2>6. moves'[o][1].basket = lines[o] /\ moves'[o][2].basket = lines[o]
      BY <1>0, <2>2, <2>5 DEF SerialInv
    <2>7. QED
      BY <1>0, <1>10, <2>1, <2>6 DEF FailDelivery, SerialInv
  <1>11. QED
    BY <1>1, <1>2, <1>3, <1>4, <1>5, <1>6, <1>7, <1>8, <1>9, <1>10
       DEF StepOf, OrderService, ConfirmOrder, CancelOrder, Dispatch, Outcome

\* The serial invariant holds in every state of a deployment without overlap.
LEMMA SerialInvariance == Spec => []SInv
  <1>1. Init => SInv
    <2> SUFFICES ASSUME Init, NEW o \in Orders PROVE SerialInv(o)
      BY DEF SInv
    <2>1. /\ dispatching[o].phase = "none"
          /\ ~delivery[o].dispatched
          /\ Len(moves[o]) = 0
      BY DEF Init, NotRunning, NoDelivery
    <2>2. QED
      BY <2>1 DEF SerialInv
  <1>2. IInv /\ SInv /\ [Next]_vars => SInv'
    <2> SUFFICES ASSUME IInv, SInv, [Next]_vars, serial PROVE SInv'
      BY DEF SInv, Next, vars
    <2>1. CASE UNCHANGED vars
      BY <2>1 DEF SInv, SerialInv, vars
    <2>2. ASSUME NEW o \in Orders, StepOf(o) PROVE SInv'
      <3>1. SerialInv(o)'
        BY <2>2, SerialStep
      <3>2. ASSUME NEW q \in Orders, q # o PROVE SerialInv(q)'
        BY <2>2, <3>2, OthersUnchanged DEF IInv, SInv, SerialInv
      <3>3. QED
        BY <3>1, <3>2 DEF SInv
    <2>3. QED
      BY <2>1, <2>2 DEF Next, StepOf
  <1>3. QED
    BY <1>1, <1>2, Invariance, PTL DEF Spec

\* Without stale instances, the goods a failed delivery brings back are the goods
\* that left.
THEOREM SerialReturnsCovered == Spec => []ReturnsCoveredByIssue
  <1>1. IInv /\ SInv => ReturnsCoveredByIssue
    <2> SUFFICES ASSUME IInv, SInv, serial, NEW o \in Orders, Len(moves[o]) = 2,
                        NEW p \in Products
                 PROVE  Return(o)[p] <= Issue(o)[p]
      BY DEF ReturnsCoveredByIssue
    <2>1. SerialInv(o) /\ moves[o] \in Seq(Movements)
      BY DEF SInv, IInv, TypeOK
    <2>2. moves[o][1] \in Movements
      BY <2>1
    <2>3. Issue(o) \in [Products -> 0..MaxQty]
      BY <2>2 DEF Issue, Movements, Baskets
    <2>4. Return(o) = Issue(o)
      BY <2>1 DEF SerialInv, Issue, Return
    <2>5. Issue(o)[p] \in Int
      BY <2>3, QtyAssumption
    <2>6. QED
      BY <2>4, <2>5
  <1>2. QED
    BY <1>1, Invariance, SerialInvariance, PTL

\* Without stale instances, a cancelled order never had a stock movement.
THEOREM SerialCancelledNeverMoved == Spec => []CancelledNeverMoved
  <1>1. IInv /\ SInv => CancelledNeverMoved
    <2> SUFFICES ASSUME IInv, SInv, serial, NEW o \in Orders, status[o] = "CANCELLED"
                 PROVE  moves[o] = <<>>
      BY DEF CancelledNeverMoved
    <2>1. ~delivery[o].dispatched
      BY DEF SInv, SerialInv
    <2>2. moves[o] \in Seq(Movements) /\ Len(moves[o]) = 0
      BY <2>1 DEF IInv, TypeOK, OrderInv, LedgerTellsDelivery
    <2>3. QED
      BY <2>2, EmptySeq
  <1>2. QED
    BY <1>1, Invariance, SerialInvariance, PTL

\* Without stale instances, the row only follows ALLOWED_TRANSITIONS.
THEOREM SerialTransitionsAllowed == Spec => TransitionsAllowed
  <1> DEFINE Legal == \A o \in Orders :
                (serial /\ status[o] # "NONE" /\ status'[o] # status[o])
                   => status'[o] \in AllowedTransitions[status[o]]
  <1>1. IInv /\ SInv /\ [Next]_vars => [Legal]_vars
    <2> SUFFICES ASSUME IInv, SInv, Next PROVE Legal
      OBVIOUS
    <2>1. PICK o \in Orders : StepOf(o)
      BY DEF Next, StepOf
    <2>2. ASSUME NEW q \in Orders, q # o PROVE status'[q] = status[q]
      BY <2>1, <2>2, OthersUnchanged DEF IInv
    <2>3. ASSUME serial, status[o] # "NONE", status'[o] # status[o]
          PROVE  status'[o] \in AllowedTransitions[status[o]]
      <3> USE DEF IInv, TypeOK
      <3>1. ASSUME NEW to \in {"CONFIRMED", "CANCELLED"}, Transition(o, to)
            PROVE  status'[o] \in AllowedTransitions[status[o]]
        <4>1. status'[o] = to
          BY <3>1 DEF Transition
        <4>2. QED
          BY <2>3, <3>1, <4>1, SerialTransition
      <3>2. CASE DispatchCommit(o)
        <4>1. status[o] = "CONFIRMED" /\ status'[o] = "DISPATCHED"
          BY <2>3, <3>2 DEF SInv, SerialInv, DispatchCommit
        <4>2. QED
          BY <4>1 DEF AllowedTransitions, OrderStatus
      <3>3. CASE Outcome(o)
        BY <2>3, <3>3 DEF Outcome, CompleteDelivery, FailDelivery
      <3>4. QED
        BY <2>1, <2>3, <3>1, <3>2, <3>3
           DEF StepOf, OrderService, PlaceOrder, AmendOrder, ConfirmOrder, CancelOrder,
               AssignDelivery, Dispatch, DispatchBegin, DispatchReadLines, DispatchRollback
    <2>4. QED
      BY <2>2, <2>3
  <1>2. QED
    BY <1>1, Invariance, SerialInvariance, PTL DEF Spec, TransitionsAllowed

----------------------------------------------------------------------------
(* Pricing: what a line, a sum and a request are                            *)

Terms == [price : Nat, rate : Nat]
LineRows == [product : Goods, quantity : Nat, terms : Terms, at : Terms,
             discount : Nat, taxable : Int, tax : Int]
SumRows == [subtotal : Int, discount : Int, tax : Int, total : Int]
Requests == [phase : {"idle", "captured", "checked", "loaded", "summed"}, order : Nat,
             placing : BOOLEAN, lines : Seq(LineRows), line : Nat, sums : SumRows,
             mode : CreditModes, crossed : BOOLEAN]

\* The money of a line is that of the terms it records.
Priced(l) ==
    /\ l \in LineRows
    /\ l.taxable = Gross(l.at.price, l.quantity) - l.discount
    /\ l.tax = HalfUp(l.taxable * l.at.rate, 10000)

\* A line whose discount was within the bound.
Worth(l) == Priced(l) /\ l.taxable \in Nat /\ l.tax \in Nat

\* The lines and the totals of an order.
OrderWorth(o) ==
    /\ \A i \in 1..Len(agreed[o]) : Worth(agreed[o][i])
    /\ totals[o].total \in Nat
    /\ ~raced[o] => totals[o] = Sums(agreed[o])

\* A check in BLOCK mode that nothing crossed still covers what is stored.
StillCovered(w) ==
    request[w].mode = "BLOCK" /\ ~request[w].crossed /\ CreditLimit > 0
    => ExposureOf(StageSeen(w), TotalsSeen(w)) <= CreditLimit

\* A sum that nothing crossed is still that of the lines.
StillSummed(w) == ~request[w].crossed => request[w].sums = Sums(LinesSeen(w))

\* The row a discount loaded is there, and only a discount that nobody replaces holds it.
Loaded(w) ==
    /\ request[w].line \in 1..Len(agreed[request[w].order])
    /\ Len(request[w].lines) = 1
    /\ Worth(request[w].lines[1])

RequestInv(w) ==
    /\ request[w].phase = "idle" <=> request[w] = Idle
    /\ request[w].phase # "idle" => request[w].order \in Sales
    /\ request[w].phase = "captured" => \A i \in 1..Len(request[w].lines) : Priced(request[w].lines[i])
    /\ request[w].phase = "checked" =>
          /\ \A i \in 1..Len(request[w].lines) : Worth(request[w].lines[i])
          /\ request[w].sums = Sums(request[w].lines)
          /\ StillCovered(w)
    /\ request[w].phase \in {"loaded", "summed"} => Loaded(w)
    /\ request[w].phase = "summed" => request[w].sums.total \in Nat /\ StillSummed(w)

\* The rows of an order are held by those who replace them or by those who discount them.
Apart == \A w, x \in Clerks : request[w].phase = "checked" /\ request[x].phase = "summed"
                              => request[w].order # request[x].order

PricingType ==
    /\ catalogue \in [Goods -> Rows]
    /\ profile \in [mode : CreditModes, percent : Percents]
    /\ stage \in [Sales -> {"none", "editable", "left", "cancelled"}]
    /\ agreed \in [Sales -> Seq(LineRows)]
    /\ totals \in [Sales -> SumRows]
    /\ raced \in [Sales -> BOOLEAN]
    /\ request \in [Clerks -> Requests]

PricingInv ==
    /\ PricingType
    /\ \A o \in Sales : OrderWorth(o)
    /\ \A w \in Clerks : RequestInv(w)
    /\ Apart

----------------------------------------------------------------------------
(* The arithmetic                                                           *)

\* Half-up of a number is a number, and of a natural number is one.
LEMMA HalfUpType ==
    ASSUME NEW n \in Int, NEW m \in {1000, 10000}
    PROVE  HalfUp(n, m) \in Int /\ (n \in Nat => HalfUp(n, m) \in Nat)
  BY DEF HalfUp

LEMMA GrossType ==
    ASSUME NEW p \in Nat, NEW q \in Nat
    PROVE  Gross(p, q) \in Nat
  <1>1. p * q \in Nat
    OBVIOUS
  <1>2. p * q \in Int
    BY <1>1
  <1> QED BY <1>1, <1>2, HalfUpType DEF Gross

\* A percentage of an amount, rounded half-up, is at most the amount.
Share(n, p) == HalfUp(n * p, 10000)

LEMMA ShareBound ==
    ASSUME NEW n \in Nat, NEW p \in Nat, p <= 10000
    PROVE  Share(n, p) \in Nat /\ Share(n, p) <= n
  <1>1. PICK m \in Nat : m = n * p
    OBVIOUS
  <1>2. n * p <= n * 10000
    OBVIOUS
  <1>3. m <= n * 10000
    BY <1>1, <1>2
  <1>4. (m + 10000 \div 2) \div 10000 \in Nat /\ (m + 10000 \div 2) \div 10000 <= n
    BY <1>3
  <1>5. Share(n, p) = (m + 10000 \div 2) \div 10000
    BY <1>1 DEF Share, HalfUp
  <1> QED BY <1>4, <1>5

\* compute_line leaves a line whose money is that of the terms it was given.
LEMMA MoneyPriced ==
    ASSUME NEW l \in LineRows, NEW t \in Terms, NEW d \in Nat
    PROVE  Priced(Money(l, t, d)) /\ Money(l, t, d).at = t
  <1> DEFINE x == Gross(t.price, l.quantity) - d
  <1>1. t.price \in Nat /\ t.rate \in Nat /\ l.quantity \in Nat
    BY DEF Terms, LineRows
  <1>2. Gross(t.price, l.quantity) \in Nat
    BY <1>1, GrossType
  <1>3. PICK y \in Int : y = x
    BY <1>2
  <1>4. y * t.rate \in Int
    BY <1>1, <1>3
  <1>5. PICK z \in Int : z = HalfUp(y * t.rate, 10000)
    BY <1>4, HalfUpType
  <1>6. Money(l, t, d) = [l EXCEPT !.discount = d, !.taxable = y, !.tax = z, !.at = t]
    BY <1>3, <1>5 DEF Money
  <1>7. Money(l, t, d) \in LineRows
    BY <1>6 DEF LineRows
  <1>8. /\ Money(l, t, d).discount = d /\ Money(l, t, d).taxable = y /\ Money(l, t, d).tax = z
        /\ Money(l, t, d).at = t /\ Money(l, t, d).quantity = l.quantity
    BY <1>6 DEF LineRows
  <1> QED BY <1>3, <1>5, <1>7, <1>8 DEF Priced

\* A discount within the bound leaves an amount to be taxed.
LEMMA BoundedWorth ==
    ASSUME NEW l, Priced(l), Bounded(l), profile.percent \in Percents
    PROVE  Worth(l)
  <1>1. /\ l.at.price \in Nat /\ l.at.rate \in Nat /\ l.quantity \in Nat /\ l.discount \in Nat
        /\ l.taxable \in Int /\ l.tax \in Int
    BY DEF Priced, LineRows, Terms
  <1> DEFINE p == l.at.price
             q == l.quantity
  <1> HIDE DEF p, q
  <1>a. p \in Nat /\ q \in Nat
    BY <1>1 DEF p, q
  <1>b. Gross(p, q) \in Nat
    BY <1>a, GrossType
  <1>2. PICK g \in Nat : g = Gross(l.at.price, l.quantity)
    BY <1>b DEF p, q
  <1>c. PICK c \in Nat : c <= 10000 /\ c = profile.percent
    BY PricingAssumption
  <1>e. c <= 10000
    BY <1>c
  <1>3. Share(g, c) \in Nat /\ Share(g, c) <= g
    BY <1>e, ShareBound
  <1>d. Ceiling(g) = Share(g, c)
    BY <1>c DEF Ceiling, Share
  <1>4. l.discount <= g
    BY <1>1, <1>2, <1>3, <1>d DEF Bounded
  <1>5. l.taxable \in Nat
    BY <1>1, <1>2, <1>4 DEF Priced
  <1>6. l.taxable * l.at.rate \in Nat /\ l.taxable * l.at.rate \in Int
    BY <1>1, <1>5
  <1>7. l.tax \in Nat
    BY <1>6, HalfUpType DEF Priced
  <1> QED BY <1>5, <1>7 DEF Worth

\* The four sums of any lines are numbers; the total of allowed ones is not negative.
LEMMA SumsType ==
    ASSUME NEW s \in Seq(LineRows)
    PROVE  /\ Sums(s) \in SumRows
           /\ (\A i \in 1..Len(s) : Worth(s[i])) => Sums(s).total \in Nat
  <1> DEFINE g == [i \in 1..Len(s) |-> Gross(s[i].terms.price, s[i].quantity)]
             d == [i \in 1..Len(s) |-> s[i].discount]
             t == [i \in 1..Len(s) |-> s[i].tax]
             a == [i \in 1..Len(s) |-> LineTotal(s[i])]
  <1>1. Len(s) \in Nat /\ \A i \in 1..Len(s) : s[i] \in LineRows
    OBVIOUS
  <1>2. \A i \in 1..Len(s) : /\ s[i].terms.price \in Nat /\ s[i].quantity \in Nat
                             /\ s[i].discount \in Nat /\ s[i].tax \in Int /\ s[i].taxable \in Int
    BY <1>1 DEF LineRows, Terms
  <1>a. \A p, q \in Nat : Gross(p, q) \in Nat
    BY GrossType
  <1>b. \A i \in 1..Len(s) : Gross(s[i].terms.price, s[i].quantity) \in Nat
    BY <1>2, <1>a
  <1>3. \A i \in 1..Len(s) : g[i] \in Int
    BY <1>b
  <1>4. \A i \in 1..Len(s) : d[i] \in Int /\ t[i] \in Int /\ a[i] \in Int
    BY <1>2 DEF LineTotal
  <1>5. (\A i \in 1..Len(s) : Worth(s[i])) => \A i \in 1..Len(s) : a[i] \in Nat
    BY DEF Worth, LineTotal
  <1>6. Sums(s) = [subtotal |-> SumOf(g, Len(s)), discount |-> SumOf(d, Len(s)),
                   tax |-> SumOf(t, Len(s)), total |-> SumOf(a, Len(s))]
    BY DEF Sums
  <1> HIDE DEF g, d, t, a
  <1>7. /\ SumOf(g, Len(s)) \in Int /\ SumOf(d, Len(s)) \in Int
        /\ SumOf(t, Len(s)) \in Int /\ SumOf(a, Len(s)) \in Int
    BY <1>1, <1>3, <1>4, SumType
  <1>8. (\A i \in 1..Len(s) : Worth(s[i])) => SumOf(a, Len(s)) \in Nat
    BY <1>1, <1>5, SumNat
  <1> QED BY <1>6, <1>7, <1>8 DEF SumRows

\* No term is larger, no sum is.
LEMMA SumMono ==
    ASSUME NEW n \in Nat, NEW f, NEW g,
           \A i \in 1..n : f[i] \in Int /\ g[i] \in Int /\ f[i] <= g[i]
    PROVE  SumOf(f, n) <= SumOf(g, n)
  <1> DEFINE S == {k \in 0..n : /\ SumOf(f, k) \in Int /\ SumOf(g, k) \in Int
                                /\ SumOf(f, k) <= SumOf(g, k)}
  <1>1. 0 \in S
    BY SumZero
  <1>2. ASSUME NEW k \in 0..(n - 1), k \in S PROVE k + 1 \in S
    <2>1. k + 1 \in 1..n /\ k \in Nat
      OBVIOUS
    <2>2. SumOf(f, k + 1) = SumOf(f, k) + f[k + 1] /\ SumOf(g, k + 1) = SumOf(g, k) + g[k + 1]
      BY <2>1, SumStep
    <2> QED BY <1>2, <2>1, <2>2
  <1>3. \A k \in 0..n : k \in S
    <2> HIDE DEF S
    <2> QED BY <1>1, <1>2, UpTo
  <1> QED BY <1>3

\* An order that leaves the exposure, or stays in it, does not raise it.
LEMMA ExposureMono ==
    ASSUME NEW at, NEW to, NEW amounts,
           \A o \in Sales : amounts[o].total \in Nat,
           \A o \in Sales : to[o] \in {"editable", "left"} => at[o] \in {"editable", "left"}
    PROVE  /\ ExposureOf(to, amounts) <= ExposureOf(at, amounts)
           /\ ExposureOf(to, amounts) \in Int /\ ExposureOf(at, amounts) \in Int
  <1> DEFINE f == [o \in Sales |-> IF to[o] \in {"editable", "left"} THEN amounts[o].total ELSE 0]
             g == [o \in Sales |-> IF at[o] \in {"editable", "left"} THEN amounts[o].total ELSE 0]
  <1>1. NSales \in Nat /\ SettledBalance \in Int /\ Sales = 1..NSales
    BY PricingAssumption DEF Sales
  <1>2. \A i \in 1..NSales : f[i] \in Int /\ g[i] \in Int /\ f[i] <= g[i]
    BY <1>1
  <1>3. ExposureOf(to, amounts) = SettledBalance + SumOf(f, NSales) /\ ExposureOf(at, amounts) = SettledBalance + SumOf(g, NSales)
    BY DEF ExposureOf, Unbilled
  <1> HIDE DEF f, g
  <1>4. SumOf(f, NSales) <= SumOf(g, NSales) /\ SumOf(f, NSales) \in Int /\ SumOf(g, NSales) \in Int
    BY <1>1, <1>2, SumMono, SumType
  <1> QED BY <1>1, <1>3, <1>4

----------------------------------------------------------------------------
(* The requests                                                             *)

\* What RequestInv(x) says depends on the order's rows and on the request alone.
LEMMA RequestFrame ==
    ASSUME NEW x \in Clerks, RequestInv(x), request'[x] = request[x],
           stage' = stage, agreed' = agreed, totals' = totals
    PROVE  RequestInv(x)'
  BY DEF RequestInv, StillCovered, StillSummed, Loaded, StageSeen, TotalsSeen, LinesSeen

\* A step of one request that stores nothing.
LEMMA OwnStep ==
    ASSUME NEW w \in Clerks, NEW r \in Requests, PricingInv,
           request' = [request EXCEPT ![w] = r],
           UNCHANGED <<catalogue, profile, stage, agreed, totals, raced>>,
           RequestInv(w)',
           r.phase = "checked" => \A x \in Clerks \ {w} :
               request[x].phase = "summed" => request[x].order # r.order,
           r.phase = "summed" => \A x \in Clerks \ {w} :
               request[x].phase = "checked" => request[x].order # r.order
    PROVE  PricingInv'
  <1>1. PricingType'
    BY DEF PricingInv, PricingType
  <1>2. request'[w] = r /\ \A x \in Clerks \ {w} : request'[x] = request[x]
    BY DEF PricingInv, PricingType
  <1>3. \A o \in Sales : OrderWorth(o)'
    BY DEF PricingInv, OrderWorth
  <1>4. ASSUME NEW x \in Clerks PROVE RequestInv(x)'
    <2>1. CASE x = w
      BY <2>1
    <2>2. CASE x # w
      <3>1. request'[x] = request[x] /\ RequestInv(x)
        BY <1>2, <2>2 DEF PricingInv
      <3> QED BY <3>1, RequestFrame
    <2> QED BY <2>1, <2>2
  <1>5. Apart'
    <2> SUFFICES ASSUME NEW y \in Clerks, NEW x \in Clerks,
                        request'[y].phase = "checked", request'[x].phase = "summed"
                 PROVE  request'[y].order # request'[x].order
      BY DEF Apart
    <2>1. CASE y = w /\ x # w
      BY <2>1, <1>2
    <2>2. CASE y # w /\ x = w
      BY <2>2, <1>2
    <2>3. CASE y # w /\ x # w
      BY <2>3, <1>2 DEF PricingInv, Apart
    <2>4. CASE y = w /\ x = w
      BY <2>4
    <2> QED BY <2>1, <2>2, <2>3, <2>4
  <1> QED BY <1>1, <1>3, <1>4, <1>5 DEF PricingInv

\* Master data: nothing a request or an order holds changes.
LEMMA EditProductKeeps ==
    ASSUME NEW g \in Goods, NEW row \in Rows, EditProduct(g, row), PricingInv
    PROVE  PricingInv'
  <1>1. PricingType'
    BY DEF PricingInv, PricingType, EditProduct
  <1>2. \A o \in Sales : OrderWorth(o)'
    BY DEF PricingInv, OrderWorth, EditProduct
  <1>3. \A x \in Clerks : RequestInv(x)'
    BY RequestFrame DEF PricingInv, EditProduct
  <1>4. Apart'
    BY DEF PricingInv, Apart, EditProduct
  <1> QED BY <1>1, <1>2, <1>3, <1>4 DEF PricingInv

LEMMA EditProfileKeeps ==
    ASSUME NEW mode \in CreditModes, NEW percent \in Percents, EditProfile(mode, percent), PricingInv
    PROVE  PricingInv'
  <1>1. PricingType'
    BY DEF PricingInv, PricingType, EditProfile
  <1>2. \A o \in Sales : OrderWorth(o)'
    BY DEF PricingInv, OrderWorth, EditProfile
  <1>3. \A x \in Clerks : RequestInv(x)'
    BY RequestFrame DEF PricingInv, EditProfile
  <1>4. Apart'
    BY DEF PricingInv, Apart, EditProfile
  <1> QED BY <1>1, <1>2, <1>3, <1>4 DEF PricingInv

LEMMA IdleType == Idle \in Requests /\ Sums(<<>>).total \in Nat
  <1>1. <<>> \in Seq(LineRows) /\ Len(<<>>) = 0
    OBVIOUS
  <1>a. \A i \in 1..Len(<<>>) : Worth(<<>>[i])
    BY <1>1
  <1>2. Sums(<<>>) \in SumRows /\ Sums(<<>>).total \in Nat
    BY <1>1, <1>a, SumsType
  <1> QED BY <1>2 DEF Idle, Requests, CreditModes

LEMMA RollBackKeeps ==
    ASSUME NEW w \in Clerks, RollBack(w), PricingInv
    PROVE  PricingInv'
  <1>1. request' = [request EXCEPT ![w] = Idle] /\ Idle \in Requests
    BY IdleType DEF RollBack
  <1>2. request'[w] = Idle
    BY <1>1 DEF PricingInv, PricingType
  <1>3. RequestInv(w)'
    BY <1>2 DEF RequestInv, Idle
  <1>4. Idle.phase = "idle"
    BY DEF Idle
  <1> QED BY <1>1, <1>3, <1>4, OwnStep DEF RollBack

\* A line captured from an entry, at the terms of the product.
LEMMA LineOfPriced ==
    ASSUME NEW e \in Entries, catalogue \in [Goods -> Rows]
    PROVE  Priced(LineOf(e))
  <1>1. /\ e.product \in Goods /\ e.entered \in Nat /\ e.packs \in BOOLEAN /\ e.discount \in Nat
    BY DEF Entries
  <1>2. PICK row \in Rows : row = catalogue[e.product]
    BY <1>1
  <1>3. row.price \in Nat /\ row.rate \in Nat /\ row.pack \in Nat
    BY <1>2, PricingAssumption
  <1>4. PICK t \in Terms : t = TermsOf(row)
    BY <1>3 DEF Terms, TermsOf
  <1>5. e.entered * row.pack \in Nat
    BY <1>1, <1>3
  <1>6. PICK q \in Nat : q = BaseUnits(row, e)
    BY <1>1, <1>5 DEF BaseUnits
  <1> DEFINE l == [product |-> e.product, quantity |-> q, terms |-> t, at |-> t,
                   discount |-> 0, taxable |-> 0, tax |-> 0]
  <1>7. l \in LineRows
    BY <1>1 DEF LineRows
  <1>8. LineOf(e) = Money(l, t, e.discount)
    BY <1>2, <1>4, <1>6 DEF LineOf
  <1> HIDE DEF l
  <1> QED BY <1>1, <1>7, <1>8, MoneyPriced

LEMMA BeginKeeps ==
    ASSUME NEW w \in Clerks, NEW o \in Sales, NEW s \in Orderings, NEW placing \in BOOLEAN,
           Begin(w, o, s, placing), PricingInv
    PROVE  PricingInv'
  <1> DEFINE ls == [i \in 1..Len(s) |-> LineOf(s[i])]
             r == [Idle EXCEPT !.phase = "captured", !.order = o, !.placing = placing, !.lines = ls]
  <1>1. s \in Seq(Entries)
    BY PricingAssumption
  <1>2. Len(s) \in Nat /\ \A i \in 1..Len(s) : s[i] \in Entries
    BY <1>1
  <1>3. \A i \in 1..Len(s) : Priced(LineOf(s[i]))
    BY <1>2, LineOfPriced DEF PricingInv, PricingType
  <1>4. \A i \in 1..Len(s) : ls[i] \in LineRows
    BY <1>3 DEF Priced
  <1>5. ls \in Seq(LineRows) /\ Len(ls) = Len(s)
    BY <1>2, <1>4
  <1>6. \A i \in 1..Len(ls) : Priced(ls[i])
    BY <1>3, <1>5
  <1>7. request' = [request EXCEPT ![w] = r]
    BY DEF Begin
  <1> HIDE DEF ls
  <1>a. o \in Nat
    BY PricingAssumption DEF Sales
  <1>8. r \in Requests
    BY <1>a, <1>5, IdleType DEF Requests
  <1>9. r.phase = "captured" /\ r.order = o /\ r.lines = ls
    BY DEF Idle
  <1> HIDE DEF r
  <1>10. request'[w] = r
    BY <1>7 DEF PricingInv, PricingType
  <1>11. r # Idle
    BY <1>9 DEF Idle
  <1>12. RequestInv(w)'
    BY <1>6, <1>9, <1>10, <1>11 DEF RequestInv
  <1> QED BY <1>7, <1>8, <1>9, <1>12, OwnStep DEF Begin

\* What w stores if it commits does not make any order worth less than nothing.
LEMMA SeenTotals ==
    ASSUME NEW w \in Clerks, PricingType, \A o \in Sales : OrderWorth(o), request[w].order \in Sales,
           \A i \in 1..Len(request[w].lines) : Worth(request[w].lines[i])
    PROVE  /\ TotalsSeen(w) \in [Sales -> SumRows]
           /\ \A o \in Sales : TotalsSeen(w)[o].total \in Nat
  <1>1. PICK ls \in Seq(LineRows) : ls = request[w].lines
    BY DEF PricingType, Requests
  <1>2. Sums(ls) \in SumRows /\ Sums(ls).total \in Nat
    BY <1>1, SumsType
  <1>3. TotalsSeen(w) = [totals EXCEPT ![request[w].order] = Sums(ls)]
    BY <1>1 DEF TotalsSeen
  <1> QED BY <1>2, <1>3 DEF PricingType, OrderWorth

LEMMA CheckKeeps ==
    ASSUME NEW w \in Clerks, Check(w), PricingInv
    PROVE  PricingInv'
  <1> DEFINE r == [request[w] EXCEPT !.phase = "checked", !.sums = Sums(request[w].lines),
                                     !.mode = profile.mode]
  <1>1. request' = [request EXCEPT ![w] = r]
    BY DEF Check
  <1>2. request[w] \in Requests /\ request[w].phase = "captured" /\ request[w].order \in Sales
    BY DEF Check, PricingInv, PricingType, RequestInv
  <1>3. PICK ls \in Seq(LineRows) : ls = request[w].lines
    BY <1>2 DEF Requests
  <1>4. \A i \in 1..Len(ls) : Priced(ls[i]) /\ Bounded(ls[i])
    BY <1>2, <1>3 DEF PricingInv, RequestInv, Check
  <1>5. profile.percent \in Percents /\ profile.mode \in CreditModes
    BY DEF PricingInv, PricingType
  <1>6. \A i \in 1..Len(ls) : Worth(ls[i])
    BY <1>4, <1>5, BoundedWorth
  <1>7. Sums(ls) \in SumRows
    BY SumsType
  <1>8. r \in Requests
    BY <1>2, <1>3, <1>5, <1>7 DEF Requests
  <1>9. /\ r.phase = "checked" /\ r.order = request[w].order /\ r.lines = ls /\ r.sums = Sums(ls)
        /\ r.mode = profile.mode /\ r.placing = request[w].placing
    BY <1>2, <1>3 DEF Requests
  <1> HIDE DEF r
  <1>10. request'[w] = r
    BY <1>1 DEF PricingInv, PricingType
  <1>11. StageSeen(w)' = StageSeen(w) /\ TotalsSeen(w)' = TotalsSeen(w)
    BY <1>3, <1>9, <1>10 DEF StageSeen, TotalsSeen, Check
  <1>12. StillCovered(w)'
    <2>1. SUFFICES ASSUME profile.mode = "BLOCK", CreditLimit > 0
                   PROVE  ExposureOf(StageSeen(w), TotalsSeen(w)) <= CreditLimit
      <3>1. ExposureOf(StageSeen(w), TotalsSeen(w))' = ExposureOf(StageSeen(w), TotalsSeen(w))
        BY <1>11 DEF ExposureOf, Unbilled
      <3> QED BY <3>1, <1>9, <1>10 DEF StillCovered
    <2>2. ~(ExposureOf(StageSeen(w), TotalsSeen(w)) > CreditLimit)
      BY <2>1 DEF Check, Breached
    <2>3. PICK t : t = TotalsSeen(w)
      OBVIOUS
    <2>4. PICK at : at = StageSeen(w)
      OBVIOUS
    <2>5. \A o \in Sales : t[o].total \in Nat
      BY <2>3, <1>2, <1>3, <1>6, SeenTotals DEF PricingInv
    <2>6. ExposureOf(at, t) \in Int
      BY <2>5, ExposureMono
    <2> QED BY <2>2, <2>3, <2>4, <2>6, PricingAssumption
  <1>13. r # Idle
    BY <1>9 DEF Idle
  <1>14. RequestInv(w)'
    BY <1>2, <1>6, <1>9, <1>10, <1>12, <1>13 DEF RequestInv
  <1>15. ASSUME NEW x \in Clerks \ {w}, request[x].phase = "summed" PROVE request[x].order # r.order
    <2>1. request[x].line \in 1..Len(agreed[request[x].order])
      BY <1>15 DEF PricingInv, RequestInv, Loaded
    <2>2. \A k \in 1..Len(agreed[request[w].order]) : ~HoldsLine(x, request[w].order, k)
      BY DEF Check
    <2> QED BY <1>9, <1>15, <2>1, <2>2 DEF HoldsLine
  <1> QED BY <1>1, <1>8, <1>9, <1>14, <1>15, OwnStep DEF Check

\* The lines a discount leaves behind.
LEMMA LinesSeenWorth ==
    ASSUME NEW w \in Clerks, PricingType, request[w].order \in Sales, OrderWorth(request[w].order), Loaded(w)
    PROVE  /\ LinesSeen(w) \in Seq(LineRows)
           /\ Len(LinesSeen(w)) = Len(agreed[request[w].order])
           /\ \A i \in 1..Len(LinesSeen(w)) : Worth(LinesSeen(w)[i])
  <1>1. PICK o \in Sales : o = request[w].order
    OBVIOUS
  <1>2. PICK s \in Seq(LineRows) : s = agreed[o]
    BY DEF PricingType
  <1>3. PICK k \in 1..Len(s) : k = request[w].line
    BY <1>1, <1>2 DEF Loaded
  <1>4. PICK l : l = request[w].lines[1]
    OBVIOUS
  <1>5. Worth(l) /\ l \in LineRows
    BY <1>4 DEF Loaded, Worth, Priced
  <1>6. LinesSeen(w) = [s EXCEPT ![k] = l]
    BY <1>1, <1>2, <1>3, <1>4 DEF LinesSeen
  <1>7. [s EXCEPT ![k] = l] \in Seq(LineRows) /\ Len([s EXCEPT ![k] = l]) = Len(s)
    BY <1>5
  <1>8. \A i \in 1..Len(s) : [s EXCEPT ![k] = l][i] = IF i = k THEN l ELSE s[i]
    OBVIOUS
  <1>9. \A i \in 1..Len(s) : Worth(s[i])
    BY <1>1, <1>2 DEF OrderWorth
  <1> QED BY <1>1, <1>2, <1>5, <1>6, <1>7, <1>8, <1>9

LEMMA DiscountLoadKeeps ==
    ASSUME NEW w \in Clerks, NEW o \in Sales, NEW k \in 1..Len(agreed[o]), NEW d \in Discounts,
           DiscountLoad(w, o, k, d), PricingInv
    PROVE  PricingInv'
  <1>1. PICK s \in Seq(LineRows) : s = agreed[o]
    BY DEF PricingInv, PricingType
  <1>2. k \in 1..Len(s) /\ Len(s) \in Nat /\ s[k] \in LineRows /\ k \in Nat
    BY <1>1
  <1>3. s[k].product \in Goods
    BY <1>2 DEF LineRows
  <1>4. PICK row \in Rows : row = catalogue[s[k].product]
    BY <1>3 DEF PricingInv, PricingType
  <1>a. row.price \in Nat /\ row.rate \in Nat
    <2>1. Rows \subseteq [price : Nat, rate : Nat, pack : Nat \ {0}, active : BOOLEAN]
      BY PricingAssumption
    <2>2. row \in [price : Nat, rate : Nat, pack : Nat \ {0}, active : BOOLEAN]
      BY <2>1
    <2> QED BY <2>2
  <1>5. PICK t \in Terms : t = TermsOf(row)
    BY <1>a DEF Terms, TermsOf
  <1>6. d \in Nat
    BY PricingAssumption
  <1>7. PICK l : l = Money(s[k], t, d)
    OBVIOUS
  <1>8. Priced(l)
    BY <1>2, <1>6, <1>7, MoneyPriced
  <1>9. Bounded(l) /\ profile.percent \in Percents
    BY <1>1, <1>4, <1>5, <1>7 DEF DiscountLoad, PricingInv, PricingType
  <1>10. Worth(l)
    BY <1>8, <1>9, BoundedWorth
  <1> DEFINE r == [Idle EXCEPT !.phase = "loaded", !.order = o, !.line = k, !.lines = <<l>>]
  <1>11. request' = [request EXCEPT ![w] = r]
    BY <1>1, <1>4, <1>5, <1>7 DEF DiscountLoad
  <1>12. <<l>> \in Seq(LineRows)
    BY <1>8 DEF Priced
  <1>b. o \in Nat
    BY PricingAssumption DEF Sales
  <1>13. r \in Requests
    BY <1>b, <1>2, <1>12, IdleType DEF Requests
  <1>14. r.phase = "loaded" /\ r.order = o /\ r.line = k /\ r.lines = <<l>>
    BY DEF Idle
  <1> HIDE DEF r
  <1>15. request'[w] = r
    BY <1>11 DEF PricingInv, PricingType
  <1>16. r # Idle
    BY <1>14 DEF Idle
  <1>c. agreed' = agreed /\ Len(<<l>>) = 1 /\ <<l>>[1] = l
    BY DEF DiscountLoad
  <1>d. Worth(request'[w].lines[1])
    BY <1>10, <1>14, <1>15, <1>c
  <1>e. request'[w].line \in 1..Len(agreed'[request'[w].order])
    BY <1>14, <1>15, <1>c
  <1>f. Len(request'[w].lines) = 1
    BY <1>14, <1>15, <1>c
  <1>17. Loaded(w)'
    BY <1>d, <1>e, <1>f DEF Loaded
  <1>18. RequestInv(w)'
    BY <1>14, <1>15, <1>16, <1>17 DEF RequestInv
  <1> QED BY <1>11, <1>13, <1>14, <1>18, OwnStep DEF DiscountLoad

LEMMA DiscountWriteKeeps ==
    ASSUME NEW w \in Clerks, DiscountWrite(w), PricingInv
    PROVE  PricingInv'
  <1> DEFINE r == [request[w] EXCEPT !.phase = "summed", !.sums = Sums(LinesSeen(w))]
  <1>1. request' = [request EXCEPT ![w] = r]
    BY DEF DiscountWrite
  <1>2. /\ request[w] \in Requests /\ request[w].phase = "loaded" /\ request[w].order \in Sales
        /\ Loaded(w) /\ OrderWorth(request[w].order)
    BY DEF DiscountWrite, PricingInv, PricingType, RequestInv
  <1>3. /\ LinesSeen(w) \in Seq(LineRows)
        /\ \A i \in 1..Len(LinesSeen(w)) : Worth(LinesSeen(w)[i])
    BY <1>2, LinesSeenWorth DEF PricingInv
  <1>4. PICK s \in Seq(LineRows) : s = LinesSeen(w)
    BY <1>3
  <1>5. Sums(s) \in SumRows /\ Sums(s).total \in Nat
    BY <1>3, <1>4, SumsType
  <1>6. r \in Requests
    BY <1>2, <1>4, <1>5 DEF Requests
  <1>7. /\ r.phase = "summed" /\ r.order = request[w].order /\ r.line = request[w].line
        /\ r.lines = request[w].lines /\ r.sums = Sums(s)
    BY <1>2, <1>4 DEF Requests
  <1> HIDE DEF r
  <1>8. request'[w] = r
    BY <1>1 DEF PricingInv, PricingType
  <1>9. r # Idle
    BY <1>7 DEF Idle
  <1>10. Loaded(w)' /\ LinesSeen(w)' = s
    BY <1>2, <1>4, <1>7, <1>8 DEF Loaded, LinesSeen, DiscountWrite
  <1>11. StillSummed(w)'
    BY <1>7, <1>8, <1>10 DEF StillSummed, Sums
  <1>12. RequestInv(w)'
    BY <1>2, <1>5, <1>7, <1>8, <1>9, <1>10, <1>11 DEF RequestInv
  <1>13. \A x \in Clerks \ {w} : request[x].phase = "checked" => request[x].order # r.order
    BY <1>7 DEF DiscountWrite, HoldsLine
  <1> QED BY <1>1, <1>6, <1>7, <1>12, <1>13, OwnStep DEF DiscountWrite

\* The requests after another one committed to o.
LEMMA CrossFacts ==
    ASSUME NEW w \in Clerks, NEW o \in Sales, NEW x \in Clerks, x # w, request \in [Clerks -> Requests]
    PROVE  /\ Cross(w, o)[x] \in Requests
           /\ \A f \in {"phase", "order", "placing", "lines", "line", "sums", "mode"} :
                  Cross(w, o)[x][f] = request[x][f]
           /\ request[x].phase = "checked" => Cross(w, o)[x].crossed
           /\ request[x].phase = "summed" /\ request[x].order = o => Cross(w, o)[x].crossed
           /\ request[x].phase = "summed" /\ request[x].order # o => Cross(w, o)[x] = request[x]
           /\ request[x].phase \in {"idle", "captured", "loaded"} => Cross(w, o)[x] = request[x]
  <1>1. request[x] \in Requests
    OBVIOUS
  <1>2. CASE \/ request[x].phase = "checked"
             \/ request[x].phase = "summed" /\ request[x].order = o
    <2>1. Cross(w, o)[x] = [request[x] EXCEPT !.crossed = TRUE]
      BY <1>2 DEF Cross
    <2> QED BY <1>1, <1>2, <2>1 DEF Requests
  <1>3. CASE ~(\/ request[x].phase = "checked"
               \/ request[x].phase = "summed" /\ request[x].order = o)
    <2>1. Cross(w, o)[x] = request[x]
      BY <1>3 DEF Cross
    <2> QED BY <1>1, <1>3, <2>1
  <1> QED BY <1>2, <1>3

\* A request of another order, or one that the commit crossed, keeps what it knows.
LEMMA OthersAfterCommit ==
    ASSUME NEW w \in Clerks, NEW o \in Sales, NEW x \in Clerks, x # w, PricingInv,
           request'[x] = Cross(w, o)[x],
           \A p \in Sales \ {o} : agreed'[p] = agreed[p],
           request[x].phase \in {"loaded", "summed"} /\ request[x].order = o
               => Len(agreed'[o]) = Len(agreed[o])
    PROVE  RequestInv(x)'
  <1> DEFINE r == request[x]
             n == request'[x]
  <1>1. /\ n.phase = r.phase /\ n.order = r.order /\ n.placing = r.placing /\ n.lines = r.lines
        /\ n.line = r.line /\ n.sums = r.sums /\ n.mode = r.mode
    BY CrossFacts DEF PricingInv, PricingType
  <1>2. RequestInv(x) /\ r \in Requests
    BY DEF PricingInv, PricingType
  <1>3. CASE r.phase \in {"idle", "captured"}
    <2>1. n = r
      BY <1>3, CrossFacts DEF PricingInv, PricingType
    <2> QED BY <1>2, <1>3, <2>1 DEF RequestInv
  <1>4. CASE r.phase = "checked"
    <2>1. n.crossed
      BY <1>4, CrossFacts DEF PricingInv, PricingType
    <2>2. StillCovered(x)'
      BY <2>1 DEF StillCovered
    <2>3. n # Idle
      BY <1>1, <1>4 DEF Idle
    <2> QED BY <1>1, <1>2, <1>4, <2>2, <2>3 DEF RequestInv
  <1>5. CASE r.phase \in {"loaded", "summed"}
    <2>1. r.order \in Sales /\ Loaded(x)
      BY <1>2, <1>5 DEF RequestInv
    <2>2. Len(agreed'[r.order]) = Len(agreed[r.order])
      BY <1>5, <2>1
    <2>3. Loaded(x)'
      BY <1>1, <2>1, <2>2 DEF Loaded
    <2>4. n # Idle
      BY <1>1, <1>5 DEF Idle
    <2>5. ASSUME r.phase = "summed" PROVE StillSummed(x)'
      <3>1. CASE r.order = o
        <4>1. n.crossed
          BY <2>5, <3>1, CrossFacts DEF PricingInv, PricingType
        <4> QED BY <4>1 DEF StillSummed
      <3>2. CASE r.order # o
        <4>1. n = r
          BY <2>5, <3>2, CrossFacts DEF PricingInv, PricingType
        <4>2. LinesSeen(x)' = LinesSeen(x)
          BY <2>1, <3>2, <4>1 DEF LinesSeen
        <4>3. Sums(LinesSeen(x))' = Sums(LinesSeen(x))
          BY <4>2 DEF Sums
        <4> QED BY <1>2, <2>5, <4>1, <4>3 DEF StillSummed, RequestInv
      <3> QED BY <3>1, <3>2
    <2> QED BY <1>1, <1>2, <1>5, <2>1, <2>3, <2>4, <2>5 DEF RequestInv
  <1> QED BY <1>2, <1>3, <1>4, <1>5 DEF Requests

LEMMA AcceptKeeps ==
    ASSUME NEW w \in Clerks, Accept(w), PricingInv
    PROVE  PricingInv' /\ stage' = StageSeen(w) /\ totals' = TotalsSeen(w)
  <1> DEFINE o == request[w].order
  <1>1. /\ request[w] \in Requests /\ request[w].phase = "checked" /\ o \in Sales
        /\ \A i \in 1..Len(request[w].lines) : Worth(request[w].lines[i])
        /\ request[w].sums = Sums(request[w].lines)
    BY DEF Accept, PricingInv, PricingType, RequestInv
  <1>2. PICK ls \in Seq(LineRows) : ls = request[w].lines
    BY <1>1 DEF Requests
  <1>3. Sums(ls) \in SumRows /\ Sums(ls).total \in Nat
    BY <1>1, <1>2, SumsType
  <1>4. /\ agreed' = [agreed EXCEPT ![o] = ls] /\ totals' = [totals EXCEPT ![o] = Sums(ls)]
        /\ raced' = [raced EXCEPT ![o] = FALSE] /\ stage' = StageSeen(w)
        /\ UNCHANGED <<catalogue, profile>>
    BY <1>1, <1>2 DEF Accept
  <1>5. stage' = StageSeen(w) /\ totals' = TotalsSeen(w)
    BY <1>2, <1>4 DEF TotalsSeen
  <1>6. request' = [x \in Clerks |->
             IF x = w \/ (request[x].phase = "loaded" /\ request[x].order = o)
             THEN Idle ELSE Cross(w, o)[x]]
    BY DEF Accept
  <1>7. StageSeen(w) \in [Sales -> {"none", "editable", "left", "cancelled"}]
    BY DEF StageSeen, PricingInv, PricingType
  <1>8. request \in [Clerks -> Requests]
    BY DEF PricingInv, PricingType
  <1>9. \A x \in Clerks : x # w => Cross(w, o)[x] \in Requests
    BY <1>1, <1>8, CrossFacts
  <1>10. request' \in [Clerks -> Requests]
    BY <1>6, <1>9, IdleType
  <1>11. PricingType'
    BY <1>3, <1>4, <1>7, <1>10 DEF PricingInv, PricingType
  <1>12. ASSUME NEW p \in Sales PROVE OrderWorth(p)'
    <2>1. CASE p = o
      <3>1. agreed'[p] = ls /\ totals'[p] = Sums(ls)
        BY <1>4, <2>1 DEF PricingInv, PricingType
      <3>2. \A i \in 1..Len(ls) : Worth(ls[i])
        BY <1>1, <1>2
      <3>3. Sums(agreed[p])' = Sums(ls)
        BY <3>1 DEF Sums
      <3> QED BY <1>3, <3>1, <3>2, <3>3 DEF OrderWorth
    <2>2. CASE p # o
      <3>1. agreed'[p] = agreed[p] /\ totals'[p] = totals[p] /\ raced'[p] = raced[p]
        BY <1>4, <2>2 DEF PricingInv, PricingType
      <3>2. Sums(agreed[p])' = Sums(agreed[p])
        BY <3>1 DEF Sums
      <3> QED BY <3>1, <3>2 DEF PricingInv, OrderWorth
    <2> QED BY <2>1, <2>2
  <1>13. \A p \in Sales \ {o} : agreed'[p] = agreed[p]
    BY <1>4 DEF PricingInv, PricingType
  <1>14. ASSUME NEW x \in Clerks PROVE RequestInv(x)'
    <2>1. CASE request'[x] = Idle
      BY <2>1 DEF RequestInv, Idle
    <2>2. CASE request'[x] # Idle
      <3>1. x # w /\ ~(request[x].phase = "loaded" /\ request[x].order = o) /\ request'[x] = Cross(w, o)[x]
        BY <1>6, <2>2
      <3>2. ~(request[x].phase = "summed" /\ request[x].order = o)
        BY <1>1 DEF PricingInv, Apart
      <3> QED BY <1>1, <1>13, <3>1, <3>2, OthersAfterCommit
    <2> QED BY <2>1, <2>2
  <1>15. \A x \in Clerks : request'[x] = Idle \/ (request'[x].phase = request[x].phase /\ request'[x].order = request[x].order)
    BY <1>1, <1>6, <1>8, CrossFacts
  <1>16. Apart'
    BY <1>15 DEF PricingInv, Apart, Idle
  <1> QED BY <1>5, <1>11, <1>12, <1>14, <1>16 DEF PricingInv

LEMMA DiscountCommitKeeps ==
    ASSUME NEW w \in Clerks, DiscountCommit(w), PricingInv
    PROVE  PricingInv'
  <1> DEFINE o == request[w].order
  <1>1. /\ request[w] \in Requests /\ request[w].phase = "summed" /\ o \in Sales
        /\ Loaded(w) /\ StillSummed(w) /\ OrderWorth(o) /\ request[w].sums.total \in Nat
    BY DEF DiscountCommit, PricingInv, PricingType, RequestInv
  <1>2. /\ LinesSeen(w) \in Seq(LineRows) /\ Len(LinesSeen(w)) = Len(agreed[o])
        /\ \A i \in 1..Len(LinesSeen(w)) : Worth(LinesSeen(w)[i])
    BY <1>1, LinesSeenWorth DEF PricingInv
  <1>3. PICK ls \in Seq(LineRows) : ls = LinesSeen(w)
    BY <1>2
  <1>4. PICK t \in SumRows : t = request[w].sums
    BY <1>1 DEF Requests
  <1>5. request[w].crossed \in BOOLEAN
    BY <1>1 DEF Requests
  <1>6. /\ agreed' = [agreed EXCEPT ![o] = ls] /\ totals' = [totals EXCEPT ![o] = t]
        /\ raced' = [raced EXCEPT ![o] = request[w].crossed]
        /\ UNCHANGED <<catalogue, profile, stage>>
        /\ request' = [Cross(w, o) EXCEPT ![w] = Idle]
    BY <1>3, <1>4 DEF DiscountCommit
  <1>7. request \in [Clerks -> Requests]
    BY DEF PricingInv, PricingType
  <1>8. request'[w] = Idle /\ \A x \in Clerks : x # w => request'[x] = Cross(w, o)[x]
    BY <1>6 DEF Cross
  <1>9. \A x \in Clerks : x # w => Cross(w, o)[x] \in Requests
    BY <1>1, <1>7, CrossFacts
  <1>10. request' \in [Clerks -> Requests]
    <2>1. Cross(w, o) = [x \in Clerks |-> Cross(w, o)[x]]
      BY DEF Cross
    <2> QED BY <1>6, <1>8, <1>9, <2>1, IdleType
  <1>11. PricingType'
    BY <1>5, <1>6, <1>10 DEF PricingInv, PricingType
  <1>12. ASSUME NEW p \in Sales PROVE OrderWorth(p)'
    <2>1. CASE p = o
      <3>1. agreed'[p] = ls /\ totals'[p] = t /\ raced'[p] = request[w].crossed
        BY <1>6, <2>1 DEF PricingInv, PricingType
      <3>2. \A i \in 1..Len(ls) : Worth(ls[i])
        BY <1>2, <1>3
      <3>3. Sums(agreed[p])' = Sums(ls)
        BY <3>1 DEF Sums
      <3>4. ~request[w].crossed => t = Sums(ls)
        BY <1>1, <1>3, <1>4 DEF StillSummed
      <3> QED BY <1>1, <1>4, <3>1, <3>2, <3>3, <3>4 DEF OrderWorth
    <2>2. CASE p # o
      <3>1. agreed'[p] = agreed[p] /\ totals'[p] = totals[p] /\ raced'[p] = raced[p]
        BY <1>6, <2>2 DEF PricingInv, PricingType
      <3>2. Sums(agreed[p])' = Sums(agreed[p])
        BY <3>1 DEF Sums
      <3> QED BY <3>1, <3>2 DEF PricingInv, OrderWorth
    <2> QED BY <2>1, <2>2
  <1>13. /\ \A p \in Sales \ {o} : agreed'[p] = agreed[p]
         /\ Len(agreed'[o]) = Len(agreed[o])
    BY <1>1, <1>2, <1>3, <1>6 DEF PricingInv, PricingType
  <1>14. ASSUME NEW x \in Clerks PROVE RequestInv(x)'
    <2>1. CASE x = w
      BY <1>8, <2>1 DEF RequestInv, Idle
    <2>2. CASE x # w
      BY <1>1, <1>8, <1>13, <2>2, OthersAfterCommit
    <2> QED BY <2>1, <2>2
  <1>15. \A x \in Clerks : request'[x] = Idle \/ (request'[x].phase = request[x].phase /\ request'[x].order = request[x].order)
    BY <1>1, <1>7, <1>8, CrossFacts
  <1>16. Apart'
    BY <1>15 DEF PricingInv, Apart, Idle
  <1> QED BY <1>11, <1>12, <1>14, <1>16 DEF PricingInv

\* A status saved: an order that leaves the exposure only lowers it, and one that comes
\* back crosses every check under way.
LEMMA SavedKeeps ==
    ASSUME NEW o \in Sales, NEW to \in {"editable", "left", "cancelled"}, Saved(o, to), PricingInv
    PROVE  PricingInv'
  <1>1. /\ stage' = [stage EXCEPT ![o] = to] /\ stage[o] # "none"
        /\ UNCHANGED <<catalogue, profile, agreed, totals, raced>>
    BY DEF Saved
  <1>2. request \in [Clerks -> Requests] /\ stage \in [Sales -> {"none", "editable", "left", "cancelled"}]
    BY DEF PricingInv, PricingType
  <1>3. ASSUME NEW x \in Clerks
        PROVE  /\ request'[x] \in Requests
               /\ \/ request'[x] = request[x]
                  \/ request[x].phase = "checked" /\ request'[x] = [request[x] EXCEPT !.crossed = TRUE]
               /\ stage[o] = "cancelled" /\ request[x].phase = "checked" => request'[x].crossed
    <2>1. request[x] \in Requests
      BY <1>2
    <2>2. [request[x] EXCEPT !.crossed = TRUE] \in Requests /\ [request[x] EXCEPT !.crossed = TRUE].crossed
      BY <2>1 DEF Requests
    <2> QED BY <2>1, <2>2 DEF Saved
  <1>4. request' \in [Clerks -> Requests]
    <2>1. request' = [x \in Clerks |-> request'[x]]
      BY <1>2 DEF Saved
    <2> QED BY <1>3, <2>1
  <1>5. PricingType'
    BY <1>1, <1>4 DEF PricingInv, PricingType
  <1>6. \A p \in Sales : OrderWorth(p)'
    BY <1>1 DEF PricingInv, OrderWorth
  <1>7. ASSUME NEW x \in Clerks PROVE RequestInv(x)'
    <2>1. RequestInv(x) /\ request[x] \in Requests
      BY <1>2 DEF PricingInv
    <2>2. CASE request[x].phase # "checked"
      <3>1. request'[x] = request[x]
        BY <1>3, <2>2
      <3>2. LinesSeen(x)' = LinesSeen(x)
        BY <1>1, <3>1 DEF LinesSeen
      <3>3. Sums(LinesSeen(x))' = Sums(LinesSeen(x))
        BY <3>2 DEF Sums
      <3> QED BY <1>1, <2>1, <2>2, <3>1, <3>3 DEF RequestInv, Loaded, StillSummed
    <2>3. CASE request[x].phase = "checked"
      <3>1. /\ request'[x].phase = "checked" /\ request'[x].order = request[x].order
            /\ request'[x].lines = request[x].lines /\ request'[x].sums = request[x].sums
            /\ request'[x].placing = request[x].placing /\ request'[x].mode = request[x].mode
            /\ request[x].crossed => request'[x].crossed
        BY <1>3, <2>1, <2>3 DEF Requests
      <3>2. request'[x] # Idle
        BY <3>1 DEF Idle
      <3>3. StillCovered(x)'
        <4>1. SUFFICES ASSUME request[x].mode = "BLOCK", ~request[x].crossed, CreditLimit > 0,
                              stage[o] # "cancelled"
                       PROVE  ExposureOf(StageSeen(x), TotalsSeen(x))' <= CreditLimit
          BY <1>3, <2>3, <3>1 DEF StillCovered
        <4>2. PICK t : t = TotalsSeen(x)
          OBVIOUS
        <4>3. PICK a : a = StageSeen(x)
          OBVIOUS
        <4>4. PICK b : b = StageSeen(x)'
          OBVIOUS
        <4>5. TotalsSeen(x)' = t
          BY <1>1, <3>1, <4>2 DEF TotalsSeen
        <4>6. request[x].order \in Sales /\ \A i \in 1..Len(request[x].lines) : Worth(request[x].lines[i])
          BY <2>1, <2>3 DEF RequestInv
        <4>7. \A p \in Sales : t[p].total \in Nat
          BY <4>2, <4>6, SeenTotals DEF PricingInv
        <4>8. \A p \in Sales : b[p] \in {"editable", "left"} => a[p] \in {"editable", "left"}
          BY <1>1, <1>2, <3>1, <4>1, <4>3, <4>4, <4>6 DEF StageSeen
        <4>9. ExposureOf(b, t) <= ExposureOf(a, t) /\ ExposureOf(b, t) \in Int /\ ExposureOf(a, t) \in Int
          BY <4>7, <4>8, ExposureMono
        <4>10. ExposureOf(a, t) <= CreditLimit
          BY <2>1, <2>3, <4>1, <4>2, <4>3 DEF RequestInv, StillCovered
        <4>11. ExposureOf(StageSeen(x), TotalsSeen(x))' = ExposureOf(b, t)
          BY <4>4, <4>5 DEF ExposureOf, Unbilled
        <4> QED BY <4>9, <4>10, <4>11, PricingAssumption
      <3> QED BY <2>1, <2>3, <3>1, <3>2, <3>3 DEF RequestInv
    <2> QED BY <2>2, <2>3
  <1>8. ASSUME NEW x \in Clerks
        PROVE  request'[x].phase = request[x].phase /\ request'[x].order = request[x].order
    <2>1. request[x] \in Requests
      BY <1>2
    <2>2. CASE request'[x] = request[x]
      BY <2>2
    <2>3. CASE request'[x] = [request[x] EXCEPT !.crossed = TRUE]
      BY <2>1, <2>3 DEF Requests
    <2> QED BY <1>3, <2>2, <2>3
  <1>9. Apart'
    BY <1>8 DEF PricingInv, Apart
  <1> QED BY <1>5, <1>6, <1>7, <1>9 DEF PricingInv

----------------------------------------------------------------------------
(* Pricing: the theorems                                                    *)

LEMMA PricingStart == PricingInit => PricingInv
  <1> SUFFICES ASSUME PricingInit PROVE PricingInv
    OBVIOUS
  <1>1. <<>> \in Seq(LineRows) /\ Len(<<>>) = 0
    OBVIOUS
  <1>2. Sums(<<>>) \in SumRows /\ Sums(<<>>).total \in Nat
    BY <1>1, SumsType, IdleType
  <1>3. PricingType
    BY <1>1, <1>2, IdleType DEF PricingInit, PricingType
  <1>4. ASSUME NEW o \in Sales PROVE OrderWorth(o)
    <2>1. agreed[o] = <<>> /\ totals[o] = Sums(<<>>)
      BY DEF PricingInit
    <2> QED BY <1>1, <1>2, <2>1 DEF OrderWorth
  <1>5. ASSUME NEW w \in Clerks PROVE RequestInv(w)
    <2>1. request[w] = Idle
      BY DEF PricingInit
    <2> QED BY <2>1 DEF RequestInv, Idle
  <1>6. Apart
    BY DEF PricingInit, Apart, Idle
  <1> QED BY <1>3, <1>4, <1>5, <1>6 DEF PricingInv

LEMMA PricingStep == PricingInv /\ [PricingNext]_pricing => PricingInv'
  <1> SUFFICES ASSUME PricingInv, [PricingNext]_pricing PROVE PricingInv'
    OBVIOUS
  <1>1. CASE UNCHANGED pricing
    <2>1. PricingType'
      BY <1>1 DEF pricing, PricingInv, PricingType
    <2>2. \A o \in Sales : OrderWorth(o)'
      BY <1>1 DEF pricing, PricingInv, OrderWorth
    <2>3. \A x \in Clerks : RequestInv(x)'
      BY <1>1, RequestFrame DEF pricing, PricingInv
    <2>4. Apart'
      BY <1>1 DEF pricing, PricingInv, Apart
    <2> QED BY <2>1, <2>2, <2>3, <2>4 DEF PricingInv
  <1>2. ASSUME NEW w \in Clerks, Capture(w) PROVE PricingInv'
    <2>1. CASE \E o \in Sales, s \in Orderings : PlaceSale(w, o, s) \/ AmendSale(w, o, s)
      BY <2>1, BeginKeeps DEF PlaceSale, AmendSale
    <2>2. CASE Check(w)
      BY <2>2, CheckKeeps
    <2>3. CASE Accept(w)
      BY <2>3, AcceptKeeps
    <2> QED BY <1>2, <2>1, <2>2, <2>3 DEF Capture
  <1>3. ASSUME NEW w \in Clerks, Discount(w) PROVE PricingInv'
    <2>1. CASE \E o \in Sales : \E k \in 1..Len(agreed[o]), d \in Discounts : DiscountLoad(w, o, k, d)
      BY <2>1, DiscountLoadKeeps
    <2>2. CASE DiscountWrite(w)
      BY <2>2, DiscountWriteKeeps
    <2>3. CASE DiscountCommit(w)
      BY <2>3, DiscountCommitKeeps
    <2> QED BY <1>3, <2>1, <2>2, <2>3 DEF Discount
  <1>4. ASSUME Master PROVE PricingInv'
    BY <1>4, EditProductKeeps, EditProfileKeeps, SavedKeeps DEF Master
  <1> QED BY <1>1, <1>2, <1>3, <1>4, RollBackKeeps DEF PricingNext

\* The invariant of pricing: sums and credit checks under way stay true until crossed.
THEOREM PricingInvariance == PricingSpec => []PricingInv
  <1>1. PricingInit => PricingInv
    BY PricingStart
  <1>2. PricingInv /\ [PricingNext]_pricing => PricingInv'
    BY PricingStep
  <1> QED BY <1>1, <1>2, PTL DEF PricingSpec

\* The totals of an order are the sums of its lines (_recalculate_totals), for any number
\* of orders, lines and requests, unless two discounts on it overlapped.
THEOREM TotalsMatchLinesHolds == PricingSpec => []TotalsMatchLines
  <1>1. PricingInv => TotalsMatchLines
    BY DEF PricingInv, OrderWorth, TotalsMatchLines
  <1> QED BY <1>1, PricingInvariance, PTL

\* The four figures of lines computed at their own terms foot.
LEMMA SumsFoot ==
    ASSUME NEW s \in Seq(LineRows), \A i \in 1..Len(s) : Worth(s[i]) /\ s[i].at = s[i].terms
    PROVE  Sums(s).subtotal - Sums(s).discount + Sums(s).tax = Sums(s).total
  <1> DEFINE g == [i \in 1..Len(s) |-> Gross(s[i].terms.price, s[i].quantity)]
             d == [i \in 1..Len(s) |-> s[i].discount]
             t == [i \in 1..Len(s) |-> s[i].tax]
             a == [i \in 1..Len(s) |-> LineTotal(s[i])]
             x == [i \in 1..Len(s) |-> s[i].taxable]
  <1>1. Len(s) \in Nat /\ \A i \in 1..Len(s) : s[i] \in LineRows
    OBVIOUS
  <1>2. \A i \in 1..Len(s) : s[i].discount \in Int /\ s[i].tax \in Int /\ s[i].taxable \in Int
    BY <1>1 DEF LineRows
  <1>3. \A i \in 1..Len(s) : s[i].terms.price \in Nat /\ s[i].quantity \in Nat
    BY <1>1 DEF LineRows, Terms
  <1>4. \A p, q \in Nat : Gross(p, q) \in Nat
    BY GrossType
  <1>5. \A i \in 1..Len(s) : Gross(s[i].terms.price, s[i].quantity) \in Nat
    BY <1>3, <1>4
  <1>6. \A i \in 1..Len(s) : s[i].taxable = Gross(s[i].terms.price, s[i].quantity) - s[i].discount
    BY DEF Worth, Priced
  <1>7. \A i \in 1..Len(s) : x[i] \in Int /\ d[i] \in Int /\ g[i] = x[i] + d[i]
    BY <1>2, <1>5, <1>6
  <1>8. \A i \in 1..Len(s) : x[i] \in Int /\ t[i] \in Int /\ a[i] = x[i] + t[i]
    BY <1>2 DEF LineTotal
  <1>9. Sums(s) = [subtotal |-> SumOf(g, Len(s)), discount |-> SumOf(d, Len(s)),
                   tax |-> SumOf(t, Len(s)), total |-> SumOf(a, Len(s))]
    BY DEF Sums
  <1> HIDE DEF g, d, t, a, x
  <1>10. SumOf(g, Len(s)) = SumOf(x, Len(s)) + SumOf(d, Len(s))
    BY <1>1, <1>7, SumAdd
  <1>11. SumOf(a, Len(s)) = SumOf(x, Len(s)) + SumOf(t, Len(s))
    BY <1>1, <1>8, SumAdd
  <1>12. SumOf(x, Len(s)) \in Int /\ SumOf(d, Len(s)) \in Int /\ SumOf(t, Len(s)) \in Int
    BY <1>1, <1>7, <1>8, SumType
  <1> QED BY <1>9, <1>10, <1>11, <1>12

\* Subtotal less discount plus tax is the total (orders/services.py:498), for orders of any
\* length at any prices, rates and discounts, while every line is at its own terms.
THEOREM DocumentFootsHolds == PricingSpec => []DocumentFoots
  <1>1. ASSUME PricingInv PROVE DocumentFoots
    <2> SUFFICES ASSUME NEW o \in Sales, ~raced[o],
                        \A i \in 1..Len(agreed[o]) : agreed[o][i].at = agreed[o][i].terms
                 PROVE  totals[o].subtotal - totals[o].discount + totals[o].tax = totals[o].total
      BY DEF DocumentFoots
    <2>1. PICK s \in Seq(LineRows) : s = agreed[o]
      BY <1>1 DEF PricingInv, PricingType
    <2>2. \A i \in 1..Len(s) : Worth(s[i]) /\ s[i].at = s[i].terms
      BY <1>1, <2>1 DEF PricingInv, OrderWorth
    <2>3. totals[o] = Sums(s)
      BY <1>1, <2>1 DEF PricingInv, OrderWorth
    <2>4. Sums(s).subtotal - Sums(s).discount + Sums(s).tax = Sums(s).total
      BY <2>2, SumsFoot
    <2> QED BY <2>3, <2>4
  <1>2. PricingInv => DocumentFoots
    BY <1>1
  <1> QED BY <1>2, PricingInvariance, PTL

\* An order accepted in BLOCK mode on a check that nothing crossed leaves the customer within
\* the limit (_apply_credit_policy), whatever was cancelled or repriced in between.
THEOREM AcceptedWithinLimitHolds == PricingSpec => AcceptedWithinLimit
  <1>1. ASSUME PricingInv, [PricingNext]_pricing, NEW w \in Clerks, Accept(w),
               request[w].mode = "BLOCK", ~request[w].crossed, CreditLimit > 0
        PROVE  ExposureOf(stage', totals') <= CreditLimit
    <2>1. stage' = StageSeen(w) /\ totals' = TotalsSeen(w)
      BY <1>1, AcceptKeeps
    <2>2. ExposureOf(StageSeen(w), TotalsSeen(w)) <= CreditLimit
      BY <1>1 DEF Accept, PricingInv, RequestInv, StillCovered
    <2> QED BY <2>1, <2>2
  <1>2. PricingInv /\ [PricingNext]_pricing
        => [\A w \in Clerks :
              Accept(w) /\ request[w].mode = "BLOCK" /\ ~request[w].crossed /\ CreditLimit > 0
              => ExposureOf(stage', totals') <= CreditLimit]_pricing
    BY <1>1
  <1> QED BY <1>2, PricingInvariance, PTL DEF PricingSpec, AcceptedWithinLimit
=============================================================================
