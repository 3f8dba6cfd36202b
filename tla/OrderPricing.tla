----------------------------- MODULE OrderPricing -----------------------------
(****************************************************************************)
(* What an order is worth: the catalogue the prices are read from, the line *)
(* arithmetic, the denormalised totals of an order and the credit limit its *)
(* customer is held to (orders/services.py, pricing/services.py,            *)
(* catalogue/services.py). Every request runs in one READ COMMITTED         *)
(* transaction. Replacing the lines deletes, and so locks, every line row   *)
(* of the order until the commit; a manual discount updates, and so locks,  *)
(* one of them, and then sums the lines it can see.                         *)
(*                                                                          *)
(* Money is in paise, quantities in thousandths, percentages in basis       *)
(* points, which are the scales of core/fields.py. There is one customer.   *)
(****************************************************************************)
EXTENDS LedgerWalk

CONSTANTS NSales,         \* bound: how many orders are ever placed
          Goods,          \* the products
          Rows,           \* bound: the rows of the product master an owner may save
          Orderings,      \* what a caller may ask for: sequences of entries
          Discounts,      \* manual discounts an owner may apply to a line
          Percents,       \* the maximum manual discounts an owner may configure
          Clerks,         \* concurrent requests
          CreditLimit,    \* credit_limit_amount, 0 when it is not set
          SettledBalance  \* settled_balance: what the customer owes from billed activity

Sales == 1..NSales
CreditModes == {"WARN", "BLOCK"}
Entries == [product : Goods, entered : Nat \ {0}, packs : BOOLEAN, discount : Nat]

ASSUME PricingAssumption ==
    /\ NSales \in Nat /\ CreditLimit \in Nat /\ SettledBalance \in Int
    /\ Rows \subseteq [price : Nat, rate : Nat, pack : Nat \ {0}, active : BOOLEAN]
    /\ Rows # {}
    /\ Orderings \subseteq Seq(Entries) \ {<<>>}
    /\ Discounts \subseteq Nat
    /\ Percents # {} /\ \A p \in Percents : p \in Nat /\ p <= 10000

VARIABLES
    catalogue,  \* catalogue[g]: the row of product g
    profile,    \* the business profile: the credit mode and the discount bound
    stage,      \* stage[o]: whether o exists, may be edited, has left, is cancelled
    agreed,     \* agreed[o]: the lines of o
    totals,     \* totals[o]: the four amounts on the order
    raced,      \* history: the totals of o were summed before a line of o changed
    request     \* request[w]: the transaction clerk w is in

pricing == <<catalogue, profile, stage, agreed, totals, raced, request>>

----------------------------------------------------------------------------
(* The arithmetic of a line                                                 *)

\* to_money: half-up, on a number of paise times a scale.
HalfUp(n, scale) == (n + scale \div 2) \div scale

\* to_base_units: what was typed, in packs or in base units.
BaseUnits(row, entry) == IF entry.packs THEN entry.entered * row.pack ELSE entry.entered

Gross(price, quantity) == HalfUp(price * quantity, 1000)

\* max_discount_amount, under the profile of the moment.
Ceiling(gross) == HalfUp(gross * profile.percent, 10000)

Mut_Money_DiscountLeftIn(line, terms, discount) ==
    LET gross == Gross(terms.price, line.quantity)
    IN  [line EXCEPT !.discount = discount, !.taxable = gross,
                     !.tax = HalfUp((gross - discount) * terms.rate, 10000), !.at = terms]

\* compute_line: the money of a line, at the price and the rate in terms. The field
\* at is not the program's: it records the terms the money was last computed from.
Money(line, terms, discount) ==
    LET taxable == Gross(terms.price, line.quantity) - discount
    IN  [line EXCEPT !.discount = discount, !.taxable = taxable,
                     !.tax = HalfUp(taxable * terms.rate, 10000), !.at = terms]

\* resolve_price, and the tax rate beside it: one price list for every customer.
TermsOf(row) == [price |-> row.price, rate |-> row.rate]

LineTotal(line) == line.taxable + line.tax

\* The discount of a line respects the bound on the value it is taken from.
Bounded(line) == line.discount <= Ceiling(Gross(line.at.price, line.quantity))

\* _replace_lines: one line per entry, with the price and the rate of the product
\* instance kept on the row.
LineOf(entry) ==
    LET row == catalogue[entry.product]
        line == [product |-> entry.product, quantity |-> BaseUnits(row, entry),
                 terms |-> TermsOf(row), at |-> TermsOf(row),
                 discount |-> 0, taxable |-> 0, tax |-> 0]
    IN  Money(line, TermsOf(row), entry.discount)

\* _recalculate_totals: the subtotal is at the price kept on the row.
Sums(lines) ==
    [subtotal |-> SumOf([i \in 1..Len(lines) |->
                            Gross(lines[i].terms.price, lines[i].quantity)], Len(lines)),
     discount |-> SumOf([i \in 1..Len(lines) |-> lines[i].discount], Len(lines)),
     tax      |-> SumOf([i \in 1..Len(lines) |-> lines[i].tax], Len(lines)),
     total    |-> SumOf([i \in 1..Len(lines) |-> LineTotal(lines[i])], Len(lines))]

----------------------------------------------------------------------------
(* Credit                                                                   *)

\* open_order_value: the orders that are alive, nothing of which is billed here.
Unbilled(at, amounts) ==
    SumOf([o \in Sales |-> IF at[o] \in {"editable", "left"} THEN amounts[o].total ELSE 0],
          NSales)

\* credit_exposure
ExposureOf(at, amounts) == SettledBalance + Unbilled(at, amounts)

\* What w's own transaction sees once it has written its lines and its totals.
StageSeen(w) ==
    [stage EXCEPT ![request[w].order] = IF request[w].placing THEN "editable" ELSE @]
TotalsSeen(w) == [totals EXCEPT ![request[w].order] = Sums(request[w].lines)]

Mut_Breached_BeforeTheLines(w) ==
    CreditLimit > 0 /\ ExposureOf(stage, totals) > CreditLimit

\* evaluate_credit: a limit of zero is a limit that is not set.
Breached(w) == CreditLimit > 0 /\ ExposureOf(StageSeen(w), TotalsSeen(w)) > CreditLimit

----------------------------------------------------------------------------
Idle == [phase |-> "idle", order |-> 0, placing |-> FALSE, lines |-> <<>>, line |-> 0,
         sums |-> Sums(<<>>), mode |-> "WARN", crossed |-> FALSE]

PricingInit ==
    /\ catalogue \in [Goods -> {row \in Rows : row.active}]
    /\ profile \in [mode : CreditModes, percent : Percents]
    /\ stage = [o \in Sales |-> "none"]
    /\ agreed = [o \in Sales |-> <<>>]
    /\ totals = [o \in Sales |-> Sums(<<>>)]
    /\ raced = [o \in Sales |-> FALSE]
    /\ request = [w \in Clerks |-> Idle]

\* Who holds the row of line k of o: a transaction that replaced the lines holds all.
HoldsLine(w, o, k) ==
    /\ request[w].order = o
    /\ \/ request[w].phase = "checked"
       \/ request[w].phase = "summed" /\ request[w].line = k

\* The other requests once w has committed to o: a credit check they made no longer
\* covers what is stored, nor does a sum over the lines of o.
Cross(w, o) ==
    [x \in Clerks |->
        IF /\ x # w
           /\ \/ request[x].phase = "checked"
              \/ request[x].phase = "summed" /\ request[x].order = o
        THEN [request[x] EXCEPT !.crossed = TRUE] ELSE request[x]]

----------------------------------------------------------------------------
(* place_order and amend_order                                              *)

\* The view reads the products and, for an amendment, the order it changes; an
\* inactive product is refused. The lines are computed from those instances.
Begin(w, o, ordering, placing) ==
    /\ request[w] = Idle
    /\ \A i \in 1..Len(ordering) : catalogue[ordering[i].product].active
    /\ request' = [request EXCEPT ![w] =
           [Idle EXCEPT !.phase = "captured", !.order = o, !.placing = placing,
                        !.lines = [i \in 1..Len(ordering) |-> LineOf(ordering[i])]]]
    /\ UNCHANGED <<catalogue, profile, stage, agreed, totals, raced>>

PlaceSale(w, o, ordering) ==
    /\ stage[o] = "none"
    /\ \A x \in Clerks : request[x].order # o
    /\ Begin(w, o, ordering, TRUE)

AmendSale(w, o, ordering) == stage[o] = "editable" /\ Begin(w, o, ordering, FALSE)

\* The lines replace those of the order, the discount bound is applied to each, the
\* totals are summed and the credit policy runs, which refuses a breach in BLOCK mode.
\* In WARN mode a breach is marked on the order, with the owner's override if there is
\* one; nothing decides on those marks, and they are left out.
Check(w) ==
    LET o == request[w].order
    IN  /\ request[w].phase = "captured"
        /\ \A x \in Clerks \ {w}, k \in 1..Len(agreed[o]) : ~HoldsLine(x, o, k)
        /\ \A i \in 1..Len(request[w].lines) : Bounded(request[w].lines[i])
        /\ Breached(w) => profile.mode = "WARN"
        /\ request' = [request EXCEPT ![w] =
               [@ EXCEPT !.phase = "checked", !.sums = Sums(request[w].lines),
                         !.mode = profile.mode]]
        /\ UNCHANGED <<catalogue, profile, stage, agreed, totals, raced>>

Mut_Accept_NotResummed(w) ==
    LET o == request[w].order
    IN  /\ request[w].phase = "checked"
        /\ stage' = StageSeen(w)
        /\ agreed' = [agreed EXCEPT ![o] = request[w].lines]
        /\ totals' = IF request[w].placing THEN [totals EXCEPT ![o] = request[w].sums] ELSE totals
        /\ raced' = [raced EXCEPT ![o] = FALSE]
        /\ request' = [x \in Clerks |->
               IF x = w \/ (request[x].phase = "loaded" /\ request[x].order = o)
               THEN Idle ELSE Cross(w, o)[x]]
        /\ UNCHANGED <<catalogue, profile>>

\* The commit. A discount that had loaded a line of o now updates no row, and fails.
Accept(w) ==
    LET o == request[w].order
    IN  /\ request[w].phase = "checked"
        /\ stage' = StageSeen(w)
        /\ agreed' = [agreed EXCEPT ![o] = request[w].lines]
        /\ totals' = [totals EXCEPT ![o] = request[w].sums]
        /\ raced' = [raced EXCEPT ![o] = FALSE]
        /\ request' = [x \in Clerks |->
               IF x = w \/ (request[x].phase = "loaded" /\ request[x].order = o)
               THEN Idle ELSE Cross(w, o)[x]]
        /\ UNCHANGED <<catalogue, profile>>

----------------------------------------------------------------------------
(* apply_line_discount                                                      *)

\* The money is computed again from the product, which is the product of today: the
\* terms kept on the row stay what they were.
DiscountLoad(w, o, k, d) ==
    LET line == Money(agreed[o][k], TermsOf(catalogue[agreed[o][k].product]), d)
    IN  /\ request[w] = Idle
        /\ stage[o] = "editable"
        /\ k \in 1..Len(agreed[o])
        /\ Bounded(line)
        /\ request' = [request EXCEPT ![w] =
               [Idle EXCEPT !.phase = "loaded", !.order = o, !.line = k, !.lines = <<line>>]]
        /\ UNCHANGED <<catalogue, profile, stage, agreed, totals, raced>>

\* The lines of the order as w sees them: committed, but for the one it updated.
LinesSeen(w) == [agreed[request[w].order] EXCEPT ![request[w].line] = request[w].lines[1]]

\* The update, which waits for whoever holds the row, and the sum. What commits between
\* the two is on other lines of the order, and the sum sees it: one step is enough.
DiscountWrite(w) ==
    /\ request[w].phase = "loaded"
    /\ \A x \in Clerks \ {w} : ~HoldsLine(x, request[w].order, request[w].line)
    /\ request' = [request EXCEPT ![w] = [@ EXCEPT !.phase = "summed", !.sums = Sums(LinesSeen(w))]]
    /\ UNCHANGED <<catalogue, profile, stage, agreed, totals, raced>>

DiscountCommit(w) ==
    LET o == request[w].order
    IN  /\ request[w].phase = "summed"
        /\ agreed' = [agreed EXCEPT ![o] = LinesSeen(w)]
        /\ totals' = [totals EXCEPT ![o] = request[w].sums]
        /\ raced' = [raced EXCEPT ![o] = request[w].crossed]
        /\ request' = [Cross(w, o) EXCEPT ![w] = Idle]
        /\ UNCHANGED <<catalogue, profile, stage>>

\* Any of these may fail instead, and leaves nothing behind.
RollBack(w) ==
    /\ request[w] # Idle
    /\ request' = [request EXCEPT ![w] = Idle]
    /\ UNCHANGED <<catalogue, profile, stage, agreed, totals, raced>>

----------------------------------------------------------------------------
(* The master data and the status of an order                               *)

\* create_product, update_product, set_price, deactivate_product: the row is saved.
EditProduct(g, row) ==
    /\ catalogue[g] # row
    /\ catalogue' = [catalogue EXCEPT ![g] = row]
    /\ UNCHANGED <<profile, stage, agreed, totals, raced, request>>

\* update_business_profile
EditProfile(mode, percent) ==
    /\ profile' = [mode |-> mode, percent |-> percent]
    /\ profile' # profile
    /\ UNCHANGED <<catalogue, stage, agreed, totals, raced, request>>

\* _transition saves the status it decided on from the instance it was given, which
\* may be older than the row (OrderCycle has the statuses one by one): the order may
\* be confirmed again after it left, or after it was cancelled. An order that comes
\* back to life is one that no credit check under way has counted.
Saved(o, to) ==
    /\ stage[o] \notin {"none", to}
    /\ stage' = [stage EXCEPT ![o] = to]
    /\ request' = IF stage[o] = "cancelled"
                  THEN [x \in Clerks |-> IF request[x].phase = "checked"
                                         THEN [request[x] EXCEPT !.crossed = TRUE]
                                         ELSE request[x]]
                  ELSE request
    /\ UNCHANGED <<catalogue, profile, agreed, totals, raced>>

----------------------------------------------------------------------------
Capture(w) ==
    \/ \E o \in Sales, ordering \in Orderings : PlaceSale(w, o, ordering) \/ AmendSale(w, o, ordering)
    \/ Check(w)
    \/ Accept(w)

Discount(w) ==
    \/ \E o \in Sales : \E k \in 1..Len(agreed[o]), d \in Discounts : DiscountLoad(w, o, k, d)
    \/ DiscountWrite(w)
    \/ DiscountCommit(w)

Master ==
    \/ \E g \in Goods, row \in Rows : EditProduct(g, row)
    \/ \E mode \in CreditModes, percent \in Percents : EditProfile(mode, percent)
    \/ \E o \in Sales, to \in {"editable", "left", "cancelled"} : Saved(o, to)

PricingNext == (\E w \in Clerks : Capture(w) \/ Discount(w) \/ RollBack(w)) \/ Master

PricingSpec == PricingInit /\ [][PricingNext]_pricing

----------------------------------------------------------------------------
(* What is checked                                                          *)

\* The totals stored on an order (_recalculate_totals, orders/services.py:492) are the
\* sums of its lines, whatever discounts and amendments were interleaved, except where
\* two discounts on different lines of it overlapped: each then summed the other's line
\* as it was before, and the later save is the one that stays until the next sum.
TotalsMatchLines == \A o \in Sales : ~raced[o] => totals[o] = Sums(agreed[o])

\* The document foots: subtotal less discount plus tax is the total, to the paisa, for
\* every order whose lines were all computed at the terms kept on them. The four figures
\* are summed apart, from amounts rounded apart (orders/services.py:498). A discount given
\* after a price change computes one line at other terms (orders/services.py:183), and is
\* the only thing that breaks it.
DocumentFoots ==
    \A o \in Sales :
        ~raced[o] /\ (\A i \in 1..Len(agreed[o]) : agreed[o][i].at = agreed[o][i].terms)
        => totals[o].subtotal - totals[o].discount + totals[o].tax = totals[o].total

\* _apply_credit_policy (orders/services.py:350) decides on what it read; nothing is
\* locked. An order or an amendment accepted in BLOCK mode that no other commit crossed
\* between the check and its own commit leaves the customer within the limit, at the totals
\* it really stored. Cancellations, price changes and changes of mode in between do no harm.
AcceptedWithinLimit ==
    [][\A w \in Clerks :
          Accept(w) /\ request[w].mode = "BLOCK" /\ ~request[w].crossed /\ CreditLimit > 0
          => ExposureOf(stage', totals') <= CreditLimit]_pricing
=============================================================================
