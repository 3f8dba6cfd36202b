------------------------------ MODULE LedgerWalk ------------------------------
(****************************************************************************)
(* ledger/walk.py: which documents are still owed against, derived from the *)
(* entries of one party's ledger. Pure, and shared by the customer and the  *)
(* supplier ledger through a policy of four type codes.                     *)
(*                                                                          *)
(* A ledger is a sequence in id order; an entry is a record with its date,  *)
(* type and signed amount, the document it points at (NoDoc for none) and,  *)
(* for a credit note, the invoice the note reduces. A document is a         *)
(* <<type, number>> pair. Entries are named by their position in the ledger,*)
(* and the rows a query returns are a set of positions, its view: the walk  *)
(* goes through all positions in (entry_date, id) order and passes over     *)
(* those that are not in view.                                              *)
(****************************************************************************)
EXTENDS Integers, Sequences, FiniteSets

NoDoc == <<"", 0>>

\* _CUSTOMER_POLICY and _SUPPLIER_POLICY.
Policies ==
    [customer |-> [adjustment |-> "ADJUSTMENT", annullable |-> {"INVOICE", "PAYMENT"},
                   reducing |-> "CREDIT_NOTE", target |-> "INVOICE"],
     supplier |-> [adjustment |-> "ADJUSTMENT", annullable |-> {"GOODS_RECEIPT", "PAYMENT"},
                   reducing |-> "DEBIT_NOTE", target |-> "GOODS_RECEIPT"]]

Least(a, b) == IF a < b THEN a ELSE b

\* f[1] + ... + f[n]
SumOf(f, n) ==
    LET sum[k \in 0..n] == IF k = 0 THEN 0 ELSE sum[k - 1] + f[k]
    IN  sum[n]

\* SUM(amount) over the rows of a view.
Amounts(ledger, view) ==
    [i \in 1..Len(ledger) |-> IF i \in view THEN ledger[i].amount ELSE 0]
Total(ledger, view) == SumOf(Amounts(ledger, view), Len(ledger))

\* entry_date <= as_of
View(ledger, asOf) == {i \in 1..Len(ledger) : ledger[i].date <= asOf}

\* ORDER BY entry_date, id
Earlier(ledger, i, j) ==
    \/ ledger[i].date < ledger[j].date
    \/ ledger[i].date = ledger[j].date /\ i < j
Place(ledger, order, i) ==
    CHOOSE c \in 0..Len(order) : \A k \in 1..Len(order) : k <= c <=> Earlier(ledger, order[k], i)
Insert(ledger, order, i) ==
    LET c == Place(ledger, order, i)
    IN  SubSeq(order, 1, c) \o <<i>> \o SubSeq(order, c + 1, Len(order))
InOrder(ledger) ==
    LET order[n \in 0..Len(ledger)] ==
            IF n = 0 THEN <<>> ELSE Insert(ledger, order[n - 1], n)
    IN  order[Len(ledger)]

\* A dictionary built in order keeps the last of the entries with one key.
LastOf(ledger, S) == {i \in S : \A j \in S : ~Earlier(ledger, i, j)}

----------------------------------------------------------------------------
(* annulled_entry_ids                                                       *)

\* The entries a document created: their type is the document's own type.
Created(ledger, view, doc) ==
    {i \in view : doc # NoDoc /\ ledger[i].doc = doc /\ ledger[i].type = doc[1]}

\* One annuller claims one target, and only if the two amounts offset.
Targets(ledger, view, claimed, i) ==
    {t \in LastOf(ledger, Created(ledger, view, ledger[i].doc)) :
        t \notin claimed /\ ledger[i].amount + ledger[t].amount = 0}
Annuls(ledger, view, policy, i) ==
    /\ i \in view
    /\ ledger[i].type = policy.adjustment
    /\ ledger[i].doc[1] \in policy.annullable
Claim(ledger, view, policy, claimed, i) ==
    IF Annuls(ledger, view, policy, i) /\ Targets(ledger, view, claimed, i) # {}
      THEN claimed \cup {i} \cup Targets(ledger, view, claimed, i)
      ELSE claimed

\* A reversal that is taken for a fresh debt.
Mut_Annulled_Never(ledger, order, view, policy) == {}

\* The entries that annul another and those they annul.
Annulled(ledger, order, view, policy) ==
    LET claimed[k \in 0..Len(ledger)] ==
            IF k = 0 THEN {} ELSE Claim(ledger, view, policy, claimed[k - 1], order[k])
    IN  claimed[Len(ledger)]

----------------------------------------------------------------------------
(* walk                                                                     *)

\* What each entry brings into the walk: nothing if it is annulled or not in view.
\* The positive ones are the debits.
Live(ledger, order, view, policy) ==
    Amounts(ledger, view \ Annulled(ledger, order, view, policy))

\* The state of the walk: what is left of each entry, and the pool of money to settle
\* with. debit_by_target is about the debits the walk began with.
Hits(ledger, policy, live, note) ==
    LastOf(ledger, {j \in 1..Len(ledger) :
                       /\ live[j] > 0
                       /\ ledger[j].type = policy.target
                       /\ ledger[j].doc # NoDoc
                       /\ ledger[j].doc = ledger[note].reduces})
Spill(state, note) ==
    [left |-> [state.left EXCEPT ![note] = 0], pool |-> state.pool - state.left[note]]
ApplyTo(state, note, t) ==
    LET applied == Least(-state.left[note], state.left[t])
    IN  [left |-> [state.left EXCEPT ![note] = 0, ![t] = @ - applied],
         pool |-> state.pool - state.left[note] - applied]

\* A note whose invoice is not in view is dropped.
Mut_Reduce_LosesNote(ledger, policy, live, state, i) ==
    IF live[i] >= 0 \/ ledger[i].type # policy.reducing THEN state
    ELSE IF Hits(ledger, policy, live, i) = {}
           THEN [state EXCEPT !.left[i] = 0]
           ELSE ApplyTo(state, i, CHOOSE t \in Hits(ledger, policy, live, i) : TRUE)

\* REDUCE: a credit note takes what it can from the invoice it references, and the
\* rest, or all of it when there is no such debit, spills into the pool.
Reduce(ledger, policy, live, state, i) ==
    IF live[i] >= 0 \/ ledger[i].type # policy.reducing THEN state
    ELSE IF Hits(ledger, policy, live, i) = {}
           THEN Spill(state, i)
           ELSE ApplyTo(state, i, CHOOSE t \in Hits(ledger, policy, live, i) : TRUE)

Reduced(ledger, order, policy, live) ==
    LET state[k \in 0..Len(ledger)] ==
            IF k = 0 THEN [left |-> live, pool |-> 0]
            ELSE Reduce(ledger, policy, live, state[k - 1], order[k])
    IN  state[Len(ledger)]

\* Every other credit joins the pool.
Credits(ledger, policy, live) ==
    [i \in 1..Len(ledger) |-> IF live[i] < 0 /\ ledger[i].type # policy.reducing THEN -live[i] ELSE 0]
Pooled(ledger, policy, live, state) ==
    LET credits == Credits(ledger, policy, live)
    IN  [left |-> [i \in 1..Len(ledger) |-> state.left[i] + credits[i]],
         pool |-> state.pool + SumOf(credits, Len(ledger))]

\* The debits as the credit notes leave them, and the money there is for them.
Due(ledger, order, policy, live) ==
    Pooled(ledger, policy, live, Reduced(ledger, order, policy, live))

\* SETTLE: the pool pays the debits in order.
Settle(state, i) ==
    LET applied == Least(state.pool, state.left[i])
    IN  [left |-> [state.left EXCEPT ![i] = @ - applied], pool |-> state.pool - applied]

\* The newest debt is paid first.
Mut_Settled_NewestFirst(order, due) ==
    LET state[k \in 0..Len(order)] ==
            IF k = 0 THEN due ELSE Settle(state[k - 1], order[Len(order) + 1 - k])
    IN  state[Len(order)]

Settled(order, due) ==
    LET state[k \in 0..Len(order)] ==
            IF k = 0 THEN due ELSE Settle(state[k - 1], order[k])
    IN  state[Len(order)]

\* RESULT: the position of the party. An entry is an open item while something is left
\* of it; what remains of the pool is on account.
Walk(ledger, order, view, policy) ==
    Settled(order, Due(ledger, order, policy, Live(ledger, order, view, policy)))

OpenItems(position) == {i \in DOMAIN position.left : position.left[i] > 0}
Outstanding(position, n) ==
    SumOf([i \in 1..n |-> IF i \in OpenItems(position) THEN position.left[i] ELSE 0], n)
===============================================================================
