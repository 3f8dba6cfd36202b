------------------------------- MODULE BillBook -------------------------------
(****************************************************************************)
(* What billing promises to whoever reads the books, with no transaction,   *)
(* lock, retry or rollback in sight: a document appears whole, its number,  *)
(* its amount and its ledger entry in one step, on books that allow it at   *)
(* that very moment (B-3, B-4, B-7, B-9, B-11 of billing/services.py).      *)
(* Billing, whose checks and commits lie apart, implements it.              *)
(****************************************************************************)
EXTENDS Integers, Sequences

CONSTANTS Orders, Years, Keys, NoKey,
          Total,  \* Total[o]: what the invoice of order o comes to
          Parts   \* Parts[o]: what a credit note on it may come to

VARIABLES invoice, credited, balance, numbers, usedKeys

book == <<invoice, credited, balance, numbers, usedKeys>>

BookInit ==
    /\ invoice = [o \in Orders |-> [status |-> "NONE", total |-> 0]]
    /\ credited = [o \in Orders |-> 0]
    /\ balance = [o \in Orders |-> 0]
    /\ numbers = [s \in {"INVOICE", "CREDIT_NOTE"} \X Years |-> <<>>]
    /\ usedKeys = {}

\* A document takes the number after the last one of its series.
TakeNumber(kind) ==
    \E y \in Years :
        numbers' = [numbers EXCEPT ![<<kind, y>>] = Append(@, Len(@) + 1)]

\* The order's one invoice. That the goods have gone is not a matter of the books.
Issue(o) ==
    /\ invoice[o].status = "NONE"
    /\ Total[o] > 0
    /\ invoice' = [invoice EXCEPT ![o] = [status |-> "ISSUED", total |-> Total[o]]]
    /\ balance' = [balance EXCEPT ![o] = @ + Total[o]]
    /\ TakeNumber("INVOICE")
    /\ UNCHANGED <<credited, usedKeys>>

\* A credit note: within what is left of an invoice that stands, under a key not used yet.
Credit(o, amount, key) ==
    /\ invoice[o].status = "ISSUED"
    /\ amount > 0
    /\ credited[o] + amount <= invoice[o].total
    /\ key \notin usedKeys
    /\ credited' = [credited EXCEPT ![o] = @ + amount]
    /\ balance' = [balance EXCEPT ![o] = @ - amount]
    /\ usedKeys' = usedKeys \cup ({key} \ {NoKey})
    /\ TakeNumber("CREDIT_NOTE")
    /\ UNCHANGED invoice

\* The cancellation of an invoice nothing was credited against, for good.
Cancel(o) ==
    /\ invoice[o].status = "ISSUED"
    /\ credited[o] = 0
    /\ invoice' = [invoice EXCEPT ![o].status = "CANCELLED"]
    /\ balance' = [balance EXCEPT ![o] = @ - invoice[o].total]
    /\ UNCHANGED <<credited, numbers, usedKeys>>

BookNext ==
    \E o \in Orders :
        \/ Issue(o)
        \/ Cancel(o)
        \/ \E amount \in Parts[o], key \in Keys \cup {NoKey} : Credit(o, amount, key)

BookSpec == BookInit /\ [][BookNext]_book
=============================================================================
