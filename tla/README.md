# DistriCore in TLA+: orders, money, purchasing and offline sync

DistriCore is a distributor's back office (Django, `backend/`) with a field app (Flutter,
`mobile/`) that works offline. This directory models the parts whose correctness depends on
concurrency, failure and order. TLC checks the models on small instances; TLAPS proves the
safety properties for every instance, where they are within its reach.

## 1. The system's parts

| Part | State | Operations | What is hard | What makes it correct |
| --- | --- | --- | --- | --- |
| orders | `sales_order`, lines | place, amend, discount, confirm, cancel; `mark_*` for fulfilment | services act on an instance the view loaded before the transaction, without lock or re-read | the row follows `ALLOWED_TRANSITIONS`; a cancelled order never moved stock |
| fulfilment | `delivery` | assign, dispatch, complete, fail | retries, two outcomes racing, reads spread over one transaction | stock is issued once, returned at most once, as the delivery row says |
| inventory | append-only `stock_movement` | record, adjust | none of its own: appends | returns never exceed issues |
| billing | `invoice`, `credit_note`, `number_series` | issue, credit, cancel | gapless numbers under concurrency and rollback; an aggregate cap | gapless series, cap, documents final, ledger agrees |
| ledgers | append-only customer and supplier entries | `record_entry`, `record_supplier_entry` | read while written, backdated | signs; balance equals the documents |
| credit exposure | none (two reads) | `credit_exposure` | invoices commit between the reads | no order counted twice |
| receivables | `payment`, write-offs | record, reverse, write off, open | replays and races decided by a unique index, double reversal, a statement in three queries | each row once; statements reconcile |
| ledger walk | none | annul, reduce, settle oldest first | reversals, credit notes, windows | agrees with the SUM on every date |
| purchasing | purchase orders, receipts, supplier payments | create, amend, issue, receive, cancel, close; pay, reverse, open | unlocked check-then-write on stale instances | RECEIVED is complete, the payable follows the goods |
| opening import | a file, a report | read, load row by row, reconcile, sign | a run that dies half way, overlap, corrections | one opening each; what is signed is loaded |
| sync receiver | `sync_operation` | push: receipt, handler, verdict; replay; recovery | crashes between three transactions, duplicate requests in flight, a handler that raises on every resend | no silent loss, order kept |
| mobile outbox | `outbox_operation`, sync engine | append, claim, push, settle, reclaim | kill, timeout, lost responses | nothing let go without a verdict; it drains |
| sync pull | cursor, cached rows, scheduler | pull pages, apply, advance | late commits, ties, restarts between pages | nothing passed that was not brought; it catches up |
| device session | keystore, memory, cached identity | request, refresh, restore, sign in and out | shared rotation, offline starts, a sign-in while an old session is restored, a killed process | no self-lockout, a good credential is kept |
| identity (server) | users, one-time codes, role links, audit | request and verify a code, password sign-in, grant, revoke, bootstrap | count-then-insert, guesses that race, the absence of an owner cannot be locked | a code signs in once, guesses are counted, one bootstrap, every link audited |
| catalogue, pricing, profile | products, price list, credit mode, discount bound | edit, `compute_line`, totals | read before a request, changed under it; totals are denormalised | totals are the lines', documents foot, BLOCK keeps the limit |
| customers, reporting, web admin | master data, views | CRUD, reads | little | mostly not modelled |

Views call services; services call each other only through the functions above. Fulfilment
drives the order's status through `mark_dispatched` and `mark_delivered` and appends stock;
billing, receivables and purchasing append to the ledgers in the transaction of the document;
the credit gate of dispatch and capture reads ledger and orders; positions, ageing and
statements are derived from the ledger alone; the sync receiver calls `complete_delivery` and
`record_visit`. On the device a round is a push, then a pull, and both go through the
interceptors of one HTTP client. PostgreSQL runs at READ COMMITTED and `ATOMIC_REQUESTS` is
off. The hazards of this code are listed one by one in `PROJECT.json`.

## 2. The modules

* **`GoodsFlow`** is the abstract promise of fulfilment: an order's goods go from the
  warehouse to the van, and from there to the shop or back, once.
* **`OrderCycle`** models `orders/services.py` and `fulfilment/services.py`. `status`,
  `lines` and `delivery` are the rows, `moves` the stock movements written for a delivery.
  `dispatching` is the dispatch transaction that holds the delivery row's lock: begin (lock
  and checks), read the lines, commit; or roll back (credit refusal, crash). Order services
  check an instance loaded earlier. As a request may be delayed for any time between its load
  and its UPDATE, what it may hold is any status the row ever had: the history variable
  `held`. The variable `serial`, chosen at the start, says which deployment this is: when it is
  true requests do not overlap and the instance is the row. Credit policy is a nondeterministic
  refusal here; prices and totals are in the next module.
* **`OrderPricing`** models what an order is worth: the product rows, the line arithmetic of
  `pricing/services.py` at the scales of `core/fields.py` (paise, thousandths, basis points,
  each rounded half up where the code rounds), the lines and the four totals of an order, and
  the credit policy. A request is one transaction: it reads the products, replaces the lines and
  checks the limit under the locks that the deletion takes, and commits; a discount loads one
  line, updates it, sums what it sees, and commits. `at` on a line records the terms its money
  was computed from; `raced` and `crossed` are histories: a sum, or a credit check, was
  overtaken by another commit. The marks a breach leaves on an order in WARN mode decide
  nothing and are left out.
* **`Billing`** models `billing/services.py` over `ledger/services.py`. A worker is one
  request's transaction; row locks are derived from where the transactions are. Credit
  notes and ledger entries are append-only and read through SUM and EXISTS only, so they are
  kept as `credited`, `balance` and `entered`. One line per order stands for its lines; money
  is in paise and both roundings (to the paisa, to the rupee, half up) are modelled.
  `OrderMoves` lets any other transaction change the order's class, because OrderCycle shows
  a stale instance can.
* **`BillBook`** is the abstract promise of billing: an invoice, a credit note or a
  cancellation changes documents, number series and ledger in one step, on books that allow
  it at that moment. `Billing` checks and commits in different steps and implements it.
* **`CreditExposure`** extends `Billing` with one evaluation of `credit_exposure`: two
  SELECTs, each of a term given as the set of orders in it, with `Billing`'s steps between
  them. `probe` is what the evaluation holds after the first.
* **`Purchasing`** models purchase orders and goods receipts. As in `OrderCycle`, an amend,
  cancel or close checks any status the row ever had. A receipt is split where it reads: check
  against the acceptance limit, lines and stock, the second read that settles the status,
  commit with its deferred foreign keys. `received` and `payable` are the sums the code reads;
  `raced` is the history of orders on which two requests overlapped. Quantities are thousandths
  of a unit; the acceptance limit, the taxable amount of a line and the tax on it are each
  rounded where the code rounds them.
* **`LedgerWalk`** is `ledger/walk.py` as functions: annulment, reduction by credit notes,
  FIFO settlement. Both ledgers use it through a policy, as in the code.
* **`Settlement`** composes it with the services that append to one party's ledger:
  `receivables/services.py` for a customer, the payment half of `purchasing/services.py` for
  a supplier (`kind`). A service that looks for an earlier row and then inserts is two steps;
  the unique index decides. A reversal holds the payment's row lock. Positions and balances
  are derived for every date. A statement is three queries, each of which meets the ledger as
  some commit left it: `past` is the history of those ledgers, and `Statement` takes one for
  each query, in the order of the queries. `told` is a history of the successful answers.
* **`OpeningLoad`** is `manage.py load_opening_balances`: read and refuse, load row by row
  (each row a transaction, with its check and its insert apart), reconcile A against B,
  sign. Runs overlap and crash, and the operator corrects the file. File amounts are in
  tenths of a paisa because the file is not rounded and the ledger is.
* **`SyncPush`** models the device (`sync_engine.dart`, `drift_outbox_repository.dart`,
  `sync_scheduler.dart`), the connection, and `sync/services.py`. A worker is one POST,
  which the server goes on handling when the device has given up. `rec` is
  `sync_operation.status`, `applied` the business rows under a `client_uuid`, `target` what
  the handler would find (a refusal, work to do, an outcome already recorded), which the
  office changes meanwhile. After a receipt the handler and the verdict are two
  transactions; a recovery is one, under the row's lock. An operation has a type and, for a
  completion, whether the payload carries `delivered_at`: with it the handler raises what
  `_apply` does not catch (`HandlerRaises`), the request ends with a 500 for all its operations,
  and the next request meets the same.
* **`OfflineQueue`** is the abstract promise of offline capture: an operation goes one way
  from captured to taken up, decided and let go, in capture order, with at most one effect.
  `SyncPush` implements it: `Stage` reads the device's row and the server's together. It says
  that there is a verdict, not which: a verdict may be written over by a slower request.
* **`SyncPull`** models the other direction: the selector (time sampled first, then one query
  per collection, keyset pages by `(updated_at, id)`, removals with the first page), the page
  applied on the device, the cursor moved after the last page, the round, the scheduler and
  its terminal stop. Writers take their `updated_at` at the save and are seen at the commit.
  `overtaken` is a history: the rows that were committing while the cursor passed them.
* **`Identity`** models `identity/services.py`: a code request is a count and an insert in two
  statements; a verification finds its candidates in a snapshot, waits for the row lock,
  rechecks the row (READ COMMITTED skips one consumed meanwhile), and commits the attempt or
  the consumption before it answers; a revocation finds its link and then deletes it; a
  bootstrap holds the `OWNER` role row. Actors carry the roles they had when their request
  began. `reigns` is a history: the owners bootstrapped and active ever since.
* **`DeviceSession`** models the credential of one device: keystore and memory, the refresh
  shared by the requests refused together, the one replay, restoration with the offline
  window, sign-in in its two writes, sign-out, restart. `launch` follows the launch chain
  (read the cache, ask `/auth/me`, publish, then the sync cadence); `app` what the user does
  meanwhile: the login screen is there whenever no session is published, so a sign-in may
  overtake a restoration, which then publishes its outcome over it. The cadence goes on after
  a sign-out, with bare requests, until one of them ends it. A chain of tokens stands for its
  user; a request carries the chain of its access token. `crossed` is a history: a change of
  user was cut short, or met a refresh or a restoration under way.
* **`…Proofs`** hold the theorems; **`MC…`** and the `.cfg` files the instances.

`Mut_…` operators are faulty variants of the definition that follows them: each property
of a passing run is violated when its definition is replaced by one of them.

## 3. The runs

| Run | Instance | Shows |
| --- | --- | --- |
| `order_cycle` | 2 orders, 2 products, quantities 0–1, 1 outcome key and no key; requests stale or one at a time (`serial`); 186,320 states | stock moves once, `GoodsFlow` is implemented; one at a time, returns are covered by issues and cancelled orders never moved |
| `order_pricing` | 2 orders, 2 clerks, 1 product with 2 rows, orders of 1 and 2 lines, 1 discount; 1,349,980 states | totals match lines, documents foot, accepted within the limit |
| `billing` | 2 orders, 2 workers, 1 year, 1 key and no key, 1 exposure evaluation at a time; 131,568 states | gapless, cap, books agree, `BillBook` is implemented, no order counted twice, every transaction ends |
| `purchasing` | 1 order of 2 products, lines of 0.333 or 0.5 units, tolerance 50%, 2 receipts at once; 327,455 states | RECEIVED complete, lines stand, payable follows goods; without overlap status and limit are exact |
| `settlement` | customer or supplier, 2 days, 4 entries, 1 key and no key, 2 requests at once; 805,222 states | rows recorded once, answers true, walk and balance agree, statements reconcile but for what comes in between their queries, oldest debt first, a reversal restores |
| `opening_load` | 2 customers, 1 supplier, 7 files (clean, with fractions, wrong in each way), 2 runs, 2 crashes; 466,523 states | one opening each, signed is loaded, re-running ends signed |
| `sync_push` | 2 operations (a delivery with or without `delivered_at` and a visit, a visit and a delivery), batches of 2, 2 requests at once; 319,212 states | no silent loss, `OfflineQueue` is implemented, the queue drains but for what a raising handler holds up |
| `sync_push_refused` | the second operation unsupported, batches of 1 | **violated**: a refused operation is acknowledged |
| `sync_pull` | 2 customers, 1 delivery, pages of 1, 3 ticks, 2 writes, 1 failure; 758,810 states | nothing else skipped, the device catches up |
| `sync_pull_deactivated` | the same, 1 write, no failure | **violated**: a deactivated customer is kept |
| `identity` | 2 phones, 2 workers, limit 1, 1 attempt, 3 links; 1,713,619 states | a code is spent once, the window bounded, one bootstrap, roles audited |
| `device_session` | the sync, a screen and the restorer, 2 sign-ins; 447,152 states | no self-lockout, requests end, tokens are the session's and kept |

**Bounds.** Every order property speaks of one order or of two that share an outcome key or
a number series, so two suffice for the collisions; one unit per product already tells
"returned more than issued". Two billing workers are enough for every lock to be contended,
and the amounts make one pair of half credits fit exactly and the other exceed the invoice
by rounding. Two operations give a batch cut in two (captured at different times), resends
and a stale request beside a new one. A purchase order of two lines can be half complete; a
tolerance of 50% on 0.333 gives a limit that is itself rounded and admits a second quantity on
some lines only, and the costs and rates put taxable amounts and taxes on either side of half a
paisa. Four entries hold an invoice, a note or a payment, its
reversal and one more, and an invoice of 3 against amounts of 2 leaves both a rest and a
credit on account; two days put each entry before, on or after the others. On a full ledger no
payment or reversal is begun, as it could not be written. A page of one row
makes every boundary a page boundary; three ticks let a write be sampled before, at and
after the cursor. The second row of the product has another price, rate and pack size and is
inactive, so an order placed before the change is discounted after it; the discount is within
its bound on one ordering at once and on the other only after the change; two orders of one
line fit below the limit and any other two do not. One attempt and one code a window put every
request at its limit, and three links allow a grant between the two steps of a revocation. Two
chains give a user and a successor. The proofs remove these bounds for the properties they cover.

**Deadlock** is checked everywhere but in the order cycle, which legitimately ends
(delivered, failed or cancelled).

**Fairness.** *Billing*: strong fairness of a worker's next step, because a running request
is executed and PostgreSQL queues lock waiters, so a lock that is released again and again
is eventually granted; no request is obliged to arrive. *Sync push*: weak fairness of the
device (the scheduler re-arms in `finally` after every attempt, the client has timeouts) and
of each request being served. Faults have no fairness and may go on for ever; `Drained` asks
for progress only once they stop, and presumes the credential stays valid. A handler that
raises is no fault in this sense: it is what the code does. `Drained` therefore promises the
verdict to the operations no such handler stands at or before, and the device's side of it
only when none stands anywhere in the queue for good. *Sync pull*: the
timer fires, a push ends, a request is answered or fails, and an open transaction commits;
the terminal stop is in the model and named in `CatchesUp`. *Opening load*: a started command
runs on, and the operator runs the file again while its report is not signed, as the runbook
says. *Device session*: every request and every refresh ends by an answer or a timeout;
users, expiry and restarts have no fairness.

## 4. Where the code and its documents part

Runs that TLC must find violated:

1. *A refused operation acknowledged* (`sync_push_refused`; `_settle_existing`,
   `_localStatus`): `DUPLICATE` is answered for a `REJECTED` row, and the device takes
   `DUPLICATE` for success, where `docs/05_API_Contracts.md` 11.2 says a rejected operation is
   kept and flagged. The work is not lost (the server keeps the payload), but the user is
   told it succeeded.
2. *A deactivated customer kept* (`sync_pull_deactivated`; `_deactivated_customer_ids`): a bootstrap
   names no removals but delivers inactive customers as rows, and the next pull starts after
   the deactivation. The same happens when the row arrives on a page after the first.

Seen in the models, without a run of their own:

* *A completion that never gets a verdict*: the app sends `delivered_at` as an ISO string
  (`outbox_delivery_repository.dart:81`), the receiver passes it on (`sync/services.py:249`), and
  `complete_delivery` calls `isoformat()` on it (`fulfilment/services.py:278`, `:324`). That is no
  `DomainError`: the transaction rolls back, the row stays RECEIVED, the answer is a 500, and so
  is the answer to every resend. Later operations wait behind it; earlier ones of its batch are
  settled on the server and never released on the device, as a 500 answers for none of them.
  It ends when the office records an outcome itself. `_recover` says that re-entering
  "converges on one row". `Stranded` names the case in `Drained`.
* *A statement that does not add up* (`receivables/selectors.py:371`, `:379`, `:380`): opening,
  entries and closing are three queries and no transaction spans them (`ATOMIC_REQUESTS` is
  off). A payment committed between them is in one and not in another. The docstring says that
  "successive periods reconcile exactly by construction"; they do for what was committed
  before the first query, and a backdated entry moves a figure already reported.
  `StatementsReconcile` says by how much.
* *Cancel, confirm or amend after dispatch* (`_transition`, `amend_order`): the check is made
  on the loaded instance and the UPDATE has no condition. `CancelledNeverMoved`,
  `ReturnsCoveredByIssue` and `TransitionsAllowed` hold under `serial` and fail without that
  premise. F-10 of `docs/M5_Design_Review.md` calls the first guarded; A-12
  says returns never exceed issues.
* *Exposure dips* (`credit_exposure`): settled first, open second, each its own snapshot. The
  order of the reads rules out double counting, which is proved, and is exactly what lets an
  order be in neither term, against the docstring.
* *A purchase order that never completes*: two receipts that together complete it can each
  settle it as PARTIALLY_RECEIVED, and the limit then refuses any further receipt. It is why
  `UnracedStatusIsExact` excludes orders in `raced`.
* *Opening import*: the docstring says a duplicate party is refused, "both rows"; only the
  second row is. A ≡ B compares class totals, so errors that cancel out pass; that is why
  `SignedIsLoaded` claims the amount only where a class has one party. A fraction of a paisa
  in a file makes A ≠ B although every row was loaded.
* *The scheduler's terminal stop*: the comment in `sync_scheduler.dart` says that on
  `Unauthenticated` "the credential is finished". A request that went out bare and whose
  refresh was lost ends so with a good credential; `FinishedMeansFinished` names the case.
* *A second refusal* of an old user's request clears the tokens of the user who has signed in
  since; a sign-out under a refresh, or a process killed between the two writes of a sign-in,
  leaves one user's token beside another's identity (`crossed`). `LiveTokenKept` and
  `TokenIsTheSessions` name these cases as their exceptions.
* *A sign-in while a session is restored*: `bootstrap.dart` renders the login screen before
  `/auth/me` has answered. If the user signs in meanwhile, a refresh of the old token that is
  denied clears the new one (`refresh_interceptor.dart:160`) and one that succeeds stores the
  old user's pair over it (`:153`); a flight that found no token clears the store after the
  sign-in has filled it (`:135`); and `restore()` publishes its outcome, the old session or
  nobody, over the adopted one (`token_session_repository.dart:45-50`), or clears the identity
  just cached. `SaveTokens` sets `crossed` in these cases, and TLC finds a violation of
  `LiveTokenKept` or `TokenIsTheSessions` when any of its three conditions is left out.
* *The cadence after a sign-out* is not stopped: its requests go out bare, find no token to
  refresh, and the first refusal stops the scheduler until the next launch, also for the user
  who signs in next.
* *record_payment* compares nothing when a `client_uuid` is repeated; its supplier twin
  refuses a changed payload. `SupplierAnswersHold` is therefore about suppliers only.
* *A discount after a price change* (`apply_line_discount`, `orders/services.py:183`): the line
  is computed from the product as it is now, while the price and rate stored on the row stay.
  `orders/models.py:144` says the row is "frozen at capture (M3-1)". `DocumentFoots` names the
  case. The function has no caller outside the tests yet.
* *Overlapping discounts* on one order each sum the other's line as it was, and the later totals
  stay (`raced`), against M3-7 (`orders/models.py:59`).
* *Two orders placed together* in BLOCK mode can both pass the limit (`crossed`). An amendment of
  an order once overridden audits `CREDIT_OVERRIDE` again, under whoever amends
  (`orders/services.py:374`).
* *The OTP limit* is exceeded by requests that overlap; by how many is `WindowBounded`.
* *The product master*: `_has_history` is always false (`catalogue/services.py:144`), where
  FR-PRD-003 (`docs/02_Requirements_Specification.md:382`) wants the pack size fixed once a
  transaction refers to the product; and `update_product` saves the whole row from an instance read earlier
  (`catalogue/services.py:82`), so it can undo a price change made meanwhile.
* *A device that signs in after launch* does not sync until the next launch
  (`startBackgroundSync` returned when there was no session).

## 5. The proofs

All are for arbitrary constants under the assumptions named in the modules (any orders,
workers, keys, amounts, rows, page size, callers and number of operations; a batch and a page
hold at least one).

* **`OrderCycleProofs`**: `IInv` adds to the types that whatever refers to an order finds
  one with lines, that a dispatch in progress works on a pending, undispatched delivery, and
  that the ledger tells the delivery's story. Types cannot be proved alone: a movement's
  basket is real only because a delivery refers to a placed order. From it:
  `StockMovesOnceHolds`, `DeliveredMeansHandedOverHolds`, the refinement
  `GoodsFlowImplemented` (the delivery row alone says where the goods are), and, under
  `serial`, the three properties that fail without it. For `OrderPricing`, `PricingInv` says
  that every line is worth what its terms give, that the totals of an order are the sums of its
  lines unless it was raced, that until another commit crosses it the sum a discount holds is
  the sum of the lines as they are, and a credit check covers what is stored; and that a
  replacement and a discount never hold lines of one order together. That other commits do not
  raise the exposure needs that a sum is monotone in its terms (`ExposureMono`). From it:
  `TotalsMatchLinesHolds`, `DocumentFootsHolds`, `AcceptedWithinLimitHolds`, for any prices,
  rates, packs and number of lines.
* **`BillingProofs`**: the invariant says that a numbered transaction holds the successor
  of its series' value and is alone in doing so, that a credit note past its lock is still
  within the cap, and that an order being invoiced has no invoice. It is what the locks
  buy. From it: `GaplessHolds`, `CreditedWithinInvoiceHolds`, `BooksAgreeHolds`,
  `DocumentsFinalHolds`. With one addition, that a credit note past its lock is for a quantity
  that was invoiced, it gives the refinement `BillBookImplemented`: a commit finds still true
  whatever was checked when the lock was taken, so the books change as if check and commit
  were one moment. `NobodyStuckHolds` is the part of `TransactionsEnd` that is not temporal:
  `CanAdvance` restates the guards of `Advance`, and a transaction that cannot advance waits
  for one that can, over at most two locks. For `CreditExposure`: `entered` only grows, so what the first read
  settled cannot be open at the second: `NeverDoubleCountsHolds`.
* **`PurchasingProofs`**: a receipt about to write RECEIVED completes its order, unless an
  amendment orphaned its lines, and then it cannot commit; and on an order that was never
  raced, what an open receipt has read is still true. From it: `ReceivedIsCompleteHolds`,
  `UnracedStatusIsExactHolds`, `ReceivedLinesStandHolds`. A second invariant bounds the drift of
  the payable for each line received: rounding the taxable amount adds at most half a paisa and
  the tax on that, rounding the tax at most another half (`ToMoneyNear`, `LineTotalNear`), and a
  receipt adds one line's drift to the sum (`LineKeeps`). From it: `PayableFollowsGoodsHolds`, and
  with it `TypeCorrect`. The bound is not a constant per line: the tax on half a paisa depends
  on the rate.
* **`LedgerWalkProofs`** has no theorem of the system, only lemmas: what the walk returns for a
  ledger of any length. The prover cannot induct over an operator, so induction is over sets of
  numbers (`UpTo`), and each pass of the walk, which is a recursive function, is first shown to
  exist and then unfolded (`SumRun`, `AnnulRun`, `ReduceRun`, `SettleRun`). Each pass keeps the
  sum of what is open less what is on account; annulled pairs cancel; settlement takes from the
  oldest open debt and leaves credit only when no debt is open.
* **`SettlementProofs`**: a payment's document is used by its own entries only; a reversal
  under way is alone on a payment not yet reversed; only supplier answers are kept. With that,
  an insert that finds no row with its key writes the first entry of its payment. From it:
  `TypeCorrect`, `RecordedOnceHolds`, `SupplierAnswersHoldHolds`; with the lemmas about the walk,
  `WalkAgreesHolds`, `OldestDebtFirstHolds`, `StatementsReconcileHolds`, `ReversalRestoresHolds`,
  and `CollectedIsBookedHolds`, that payments and ledger agree. The statement needs one more
  invariant, `Recalled`: the ledgers of `past` are the prefixes of the ledger, in order, and the
  last is the ledger itself. A query that met one of them has then read the entries of today's
  ledger up to some number (`AsRead`), and what the three queries disagree on is a set of entries
  whose total can be taken (`StatementsAdd`, `PeriodsMeet`). For `OpeningLoad` the invariant
  says that a run has behind it a prefix of its file, each accepted row of which is in the books,
  its own or an earlier one; that two class totals agree then says something of a party only
  when it is alone in its class. From it: `OneOpeningEachHolds`, `SignedIsLoadedHolds`.
* **`SyncPushProofs`**: everything older than what a request still has to do is settled;
  a request has answered only what is settled; rows are `IN_FLIGHT` exactly for the push
  being waited for (or after a kill, until reclaimed); a saved or pending `ACCEPTED` is in
  the books. From it: `NoSilentLossHolds`, `SettledInOrderHolds`. The refinement
  `OfflineQueueImplemented` also needs that a request works only on what its device has
  captured (`SentInv`): then a receipt is the step from held to taken up, a handler's first
  write the one effect, the first verdict the decision, and a settled response lets go of
  decided rows only. Everything else, resends, recoveries that lose, handlers that raise, kills,
  is a step the abstract queue does not see.
* **`SyncPullProofs`**: of a row that no write was committed of since the pull began, what a
  page holds is current, and once the pages have gone by its key it is on the device or on the
  page under way; a row that was written meanwhile and that the cursor has passed is in
  `overtaken`. That a page leaves nothing out behind its last key needs that a bounded set of
  keys has a least and a greatest member. From it: `NothingElseSkippedHolds`. A second invariant
  says that a page under way is no older than what it replaces and its time no earlier than the
  cursor: `DeviceForwardHolds`, that neither a cached version nor the cursor ever goes back.
* **`DeviceSessionProofs`**: keystore and memory agree, a blacklisted token is stored only
  while its successor is on the way, and, unless a change of user was crossed (`CrossInv`), the
  refresh in flight, the token a request of the restorer carries, the store, the session and the
  cached identity are of one chain, and while a session is being restored nobody else's tokens
  are stored. From it:
  `NoSelfLockoutHolds`, `TokenIsTheSessionsHolds`, `LiveTokenKeptHolds`,
  `FinishedMeansFinishedHolds`. For `Identity`: whoever holds a code's lock holds it alone, on a
  code neither consumed nor used up; the codes of a window and the requests that have counted
  and not yet inserted stay below the limit and the workers together; a bootstrap past its
  check holds the role row while nobody reigns; audited and not revoked is exactly what exists.
  From it: `CodeSpentOnceHolds`, `WindowBoundedHolds`, `BootstrapsExcludeHolds`,
  `RolesAuditedHolds`.

**Only model-checked**: the liveness properties (`TransactionsEnd`, `Drained`, `CatchesUp`,
`RequestsEnd`, `RerunsReconcile`), which are beyond this prover, and the violations, which are
counterexamples. Every invariant, action property and refinement a passing run checks is a theorem.
Proved and not run: the type invariants, `DeliveredMeansHandedOver`, `TransitionsAllowed`,
`CollectedIsBooked`, `NobodyStuck` and `DeviceForward`, which the proofs give on the way, and
`DocumentsFinal` and `SettledInOrder`, which the refinements and `NoSilentLoss` imply.

## 6. Not modelled, and what is left

Not modelled: supplier and customer maintenance beyond the writes a pull must bring
(single-row CRUD); manual stock adjustments and lots (independent appends; two dispatches that
create the first lots of the same two products in opposite order can wait for each other,
`inventory/services.py:100`, which PostgreSQL ends by aborting one, although ADR 0006 sees no
deadlock surface on the stock path); a sign-out begun while a sign-in is still under way, and a
process that dies between the write of the cached identity and its publication, which are one
step; reassigned zones in a pull; ageing buckets, reporting and
web admin (read-only views; `_sales_by_product`, `reporting/selectors.py:308`, groups by
product and name and keys by product alone, so a product renamed within the period keeps one
of its two figures, although I-1 of `docs/M7_Design_Review.md` wants the total to be the same
under every grouping); media, PDF and CSV
output, generated Dart code and the Flutter UI (presentation and I/O); the audit log but for the
role changes (append-only text).

Next, in this order: the composition of `SyncPush` with `OrderCycle`, so that a completion that
finds the delivery failed is told apart in the books; the lots and their upserts; zones that
change between pulls.
