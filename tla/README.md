# A TLA+ verification of the distribution ERP

The repository is an ERP for a food distributor: stock kept in dated batches,
sales from the counter, from vans and from a customer portal, a till, credit
accounts, purchases, delivery trips and a double-entry ledger.  The back end is
FastAPI over SQLAlchemy's `AsyncSession` and PostgreSQL; a React front end and
Alembic migrations sit around it.

Every HTTP request gets one session, which is one PostgreSQL transaction at the
default level, READ COMMITTED (`app/db/session.py`).  A handler loads entities,
checks them, changes attributes in Python and commits once, at the end.  What
can go wrong is therefore what happens between the load and the commit while
other requests do the same, and what a long sequence of legal requests adds up
to.  The test suite runs on SQLite behind one shared connection, where two
transactions never overlap (`scripts/concurrency_check.py:18`), so none of this
is reached by a test.  That is what this project is for.

## 1. Inventory

`state` is what the component persists, `hard` what makes it hard to test,
`correct` what would have to hold for it to be right.

| Component | State | Operations | Interacts with | Hard | Correct when |
|---|---|---|---|---|---|
| **Batch stock** `services/inventory/stock_service.py`, `stock_query.py` | `product_batches`: quantity, expiry, cost per (product, warehouse, batch number) | receive, FEFO allocation, lock pass, transfer, put back, take out | every document that moves goods | lost updates, lock order, stale identity map, unique-key conflicts | no update is lost; no two requests deadlock; first expired goes first; never below zero |
| **Stock documents** same file | `stock_adjustments`, `stocktakes` and their status | write off, undo, open / count / post / cancel a stocktake | batches, ledger | double undo, double post, stale snapshot of a count | each document moves its goods once; a posted count reconciles the shelf it counted |
| **Receivables** `services/sales/sales_service.py`, `returns_query.py`, `services/cashier/cashier_service.py` | `sales_invoices` (total, paid_amount, confirmation), `sales_returns`, `customer_credits`, `customer_payments`, `cash_movements`, receivables account | invoice create / update / delete, return, cancel return, collect, payment, resolve and refund a credit | stock, ledger, delivery, rounds | unlocked read-modify-write of `paid_amount`, sums read before a concurrent commit, credits counted twice | statement = ledger; nobody pays more than they owe without a credit saying so; no more is returned than was sold |
| **Quotations** `sales_service.py` | `sales_quotations` status | create, cancel, convert | receivables | two commits in one request: the invoice first, the status after | one quotation, at most one invoice |
| **Offers, markdowns, demand, replenishment, elasticity** `services/inventory/*` | `product_offers`; the rest is read-only analysis | create / end an offer, apply a markdown plan | pricing of invoices | check-then-insert | one live offer per product |
| **Catalogue and warehouses** `product_service.py`, `warehouse_service.py` | `products`, `product_units`, `warehouses` | CRUD, assign a van to a salesman | stock, field sync | one active van per salesman (unique index) | see field sync |
| **Purchases** `services/purchases/purchase_service.py` | `purchase_orders` and received quantities, `purchase_invoices`, `purchase_returns`, `supplier_payments` | order life cycle, receive, invoice, return, pay | stock, ledger, cashier | unlocked received quantity and entitlement, freight split by rounding | never receive more than ordered; the freight shares sum to the freight |
| **Delivery** `services/delivery/delivery_service.py` | `delivery_trips`, `delivery_stops` | plan, add / remove a stop, dispatch, deliver / fail, complete, picking list | invoices and returns | a stop added while the trip leaves, a return while the trip leaves | an invoice rides on one open trip; goods already credited are not handed over |
| **Van sales sync** `services/sales/field_sync_service.py` | `client_uuid` of customers, invoices, quotations | sync a round | sales, customers | replay after a lost answer, two commits per customer, one item of several failing | a document reaches the books once and a replay answers as the first time |
| **Round settlement** `services/sales/round_settlement_service.py` | `round_settlements` | open, settle, settle a van, cancel, position | invoices, cash movements, stocktakes | sign-off of figures that move while they are read | a signed round owes nothing; a van has one open round |
| **Customer portal** `services/portal/*` | `customer_orders`, `customer_logins` | place, cancel, approve, reject, invoice an order; login, lockout, password | sales | order answered twice, lockout counter under concurrent guesses | one order, at most one invoice |
| **Regulated-goods register** `services/sales/rationed_service.py` | `rationed_records`, entries, taxes | tag, untag, close, taxes | invoices | open register created twice, a line filed into a register being closed | a declared register does not change |
| **Collections** `services/sales/collections_service.py` | `collection_activities` (append only) | worklist, log | receivables | none: append and read | - |
| **Ledger** `services/accounting/accounting_service.py` | `journal_entries`, `journal_items`, `accounts` | add an entry inside the caller's transaction, reports | everything | entries replaced when a document is edited | every entry balances; the receivable, inventory and cash accounts agree with the documents |
| **Bank reconciliation** `bank_reconciliation_service.py` | `bank_statement_lines` | match, unmatch | ledger | check-then-update; a unique index behind it | one movement, one line |
| **Expenses** `services/expenses` | `expenses`, categories | create; the till pays | till, ledger | unlocked `paid_amount` | as receivables |
| **Imports** `services/imports` | documents marked `legacy_ref` | preview, commit | everything | partial failure of one file | all or nothing |
| **Users and access** `services/auth`, `core/security.py`, `core/permissions.py`, `core/rate_limit.py` | `users`, in-process attempt window | login, refresh, CRUD | - | last administrator check | somebody can always administer |
| **Settings**, **audit log** (`core/audit_listeners.py`) | `company_settings`, `tax_rates`, `audit_logs` | CRUD, listeners on flush | everything | staged inserts between two flush events | every change is logged |
| **Analytics, timelines, alerts, printing, schemas, routers, migrations, scripts, front end** | none of their own | read-only projections, HTTP plumbing, screens | - | - | - |

How they interact: the documents (invoice, return, purchase, write-off, count)
are the only writers of stock and of the ledger, each inside one transaction;
the till writes `paid_amount`, cash movements and ledger entries; delivery,
rounds and the portal read invoices and add their own status to them.  There
are no messages and no background workers: all concurrency is between
requests, and the only coordination is PostgreSQL's row locks and unique
indexes.  There is no recovery code: a crash is a rollback, except where a
handler commits twice (quotation conversion, portal order to invoice, new
customer in a sync, opening a round on the way to settling it).  A phone that
was off line is the one client that retries by itself.

## 2. Plan

Modules in the order they were written; those marked * exist.  "Windows" are
the interleavings in which the code gives up a promise; each is a history
variable of the module, so that a property says "always, but in this window".

| | Module | Follows | Runs | Theorems |
|---|---|---|---|---|
| * | `BatchStock` : the statements any request runs on `product_batches` | - | `stock_*` | types, no lost update, first expired first, no deadlock |
| * | `StockRequests` : each handler as its list of statements | implements `ShelfLedger` | `stock_*` | implements `ShelfLedger` |
| * | `Receivables` : invoice, till, returns, credits, payments, AR account | one customer | `money_*` | types, entitlement, the statement agrees with one till, refunds stand, returns freeze, the limit holds, overpayments are owed, full returns credit what was billed |
| * | `Requests` : sessions, columns and ids every later module uses | - | - | - |
| * | `Delivery` : trips and stops against returns, pickups, edits | invoices | `trips` | the whole trip, its course, fetched or delivered, nothing credited on the road |
| * | `FieldSync` : the phone's queue and the upload of a round | one phone, two uploads | `field` | synced once, nothing goes silently |
| * | `OrderBilling` : quotation and portal order to invoice | office and portal | `office` | one invoice per request, answers stand |
| * | `StockDocuments` : write-offs and counts as documents | sales, thefts | `warehouse` | documents are sound, inventory follows, counts are deltas |
| * | `Rounds` : vans, takings, sign-off | invoices and their corrections, counts | `warehouse` | rounds are kept, signatures stand |
| * | `PurchaseCycle` : orders, receipts, returns, payments, expenses | stock, ledger | `warehouse` | orders are true, goods and money agree |
| * | `SumLemmas` : sums over finite sets | - | - | how a sum moves with its terms |
| * | `Register` : the regulated-goods register | invoices, returns | `office` | follows sales and returns, declarations stand |
| * | `Migration` : upload, check, apply of the old books | ledger, stock | `office`, `import_again` | the books follow the documents |
| * | `Reconciliation` : bank lines and journal items | ledger | `office` | one movement, matches stand |
| * | `Endpoints`, `Doors` : every guarded route, roles, who may do what | all routers | `office` | someone can manage, hands are their own |
| * | `SignIn`, `Brake` : lockout, temporary password, rate limit | - | `office` | lockout, temporary passwords, spaced sign-ins |
|   | Algorithms: freight split, offer prices, net lines to pick, FEFO against a reference | - | - | bounds |
|   | Offers and markdowns | pricing | - | one live offer |

The parts of the house that do not touch the same rows are checked by one run
each: `MCWarehouse` and `MCOffice` extend the instances of their components
(`MCStockDocs`, `MCRounds`, `MCTrade`; `MCBilling`, `MCRegister`,
`MCMigration`, `MCReconciliation`, `MCDoors`, `SignIn`, `Brake`) and add a
`scene`: a behaviour plays one component and leaves the others as they start,
at one initial state.  The states of a bundle are the sum of its components'
states, not the product, and every property of the bundle is checked in every
scene.

## 3. Batch stock

### What is modelled

`BatchStock` is the concurrency model: sessions, the identity map, row locks,
autoflush and commit.  A session carries out a *request*, the list of SQL
statements its handler runs on `product_batches`; `StockRequests` writes down
every handler as such a list.

| Model | Code |
|---|---|
| `qty`, `live`, `owner` | committed rows of `product_batches` and the row locks on them |
| `known`, `mem`, `dirty`, `fresh` | the identity map: loaded entities, their `quantity`, what was changed, what was `session.add`ed |
| `booked`, `entry` | what the lines of committed (running) documents say each batch holds: no column of the code, the yardstick of `NoLostUpdate` |
| statement `lock` | one `SELECT id ... FOR UPDATE` of `lock_batches_in_order` |
| statement `take` | `fefo_allocate` and the caller's `batch.quantity -= take` |
| statement `move` | the same inside `transfer_stock`, followed by `PutAway` |
| statement `change` | `get_batch_locked` and the caller's `batch.quantity += n` (n may be negative, guarded) |
| statement `receive` | `add_stock_no_commit` |
| `Select`, `Lock...` | a SELECT FOR UPDATE fixes its rows when it starts, locks them one by one in its order, re-checks its WHERE on each after waiting |
| `Flush` | the autoflush before the next statement: UPDATE of the absolute value, which needs the row lock |
| `Conflict` | `uq_batch_per_warehouse` |
| `DeadlockAbort`, `Fail` | PostgreSQL's deadlock detector; a refused validation, a dropped connection, a crash: the transaction rolls back |

Two facts decide everything.  `with_for_update()` without `populate_existing`
locks the row but leaves an entity *already loaded* by the session as it was;
and `quantity += n` is an absolute write at flush time.  So a row that is first
loaded under its lock is safe, and a row loaded before is not.

Left out: the money of a line (later modules), units (`to_base_quantity` is a
multiplication done before any statement), the expiry mismatch refusal of
`add_stock_no_commit` (a failure before any change: `Fail`), the queue order of
lock waits (any waiter may get the lock, which includes PostgreSQL's order).

### What is checked

Two products in a main warehouse and one of them in a second warehouse, an
empty product, eight batches among them one expired, one empty, two yet to be
inserted, quantities 0 to 2; two or three sessions choosing freely from the
requests of the run (`MCStock`).  Two sessions are enough for a lost update and
for a deadlock between two row orders; three invoices at once for a deadlock
that needs a third session to change the rows between the other two.

| Run | Requests | Shows |
|---|---|---|
| `stock_sales` | three at once: invoices sharing products, typed in either order, and a write-off being undone | nobody deadlocks, FEFO holds under contention |
| `stock_locked` | two of any handlers but undoing a write-off, transfers going where nobody else receives | types (no negative quantity), no lost update, the handlers implement `ShelfLedger`, every request ends |
| `stock_writeoff_undone` | undoing a write-off beside a sale | **violated**: `get_adjustment` has already loaded the batch when it is locked |

Other requests of the same model disagree too (section 15); `stock_locked`
leaves out those, and `stock_sales` asks nothing about lost updates.

Fairness (`stock_locked`): weak fairness of a session's own work.  A request is
a coroutine the event loop keeps running until it is done, its lock waits end
when the holder commits or rolls back, and PostgreSQL resolves a cycle by
aborting a member.  No fairness is assumed of `Fail` or of a request arriving.

`ShelfLedger` is the abstract promise: the quantity of a product in a warehouse
changes by whole documents, one at a time, by what their lines say.  The
refinement maps `onhand` to the sum of the committed quantities of a shelf.

### What is proved

`BatchStockProofs`, for any number of sessions, batches, requests, quantities:

* `TypeCorrect` : `Spec => []TypeOK`.  Its content is that no quantity, stored
  or in memory, ever becomes negative, whatever the interleaving.
* `NothingLost` : if no request preloads batches and none transfers
  (`Disciplined`: true of invoices and of the requests of `stock_locked` but for
  its transfers, false of undoing a write-off), then
  `Spec => []NoLostUpdate`.

* `NeitherEverDies` : `Spec => []NeitherDies`, and `EarliestExpiryFirst` :
  `Spec => []FirstExpiredFirstOut`, of requests that only take goods away
  (`TakesAway`): either locks and then takes, as an invoice does, or reductions
  of known batches, as a write-off or a supplier return does; every row a
  statement takes from is locked before the first take (`LocksFirst`), and the
  passes of all requests agree on one order `place` of the rows
  (`LocksUpward`), a parameter of the theorem.  `lock_batches_in_order` gives
  such an order: shelf by shelf, by id within a shelf.
* `RequestsImplementLedger` : if the requests are `Disciplined`, then
  `Spec => ImplementsLedger`, that is, the handlers refine `ShelfLedger`.

`NoLostUpdate` says nothing of what a session has in memory and is not
inductive.  `IInv` adds four parts: `Coherent` (an entity in memory equals the
committed quantity plus what the session's own document says, and while it is
in memory its row is locked by the session or it is a row the session is about
to insert), `Running`, `Waiting` and `Stocked` (the shape of a request between
its steps, and that a row that does not exist holds nothing).  `Coherent` is
the heart: it is exactly what loading an entity before its lock destroys.

`Orderly` is what no deadlock takes.  The usual argument (locks are taken in one
order, so the session that waits for the highest row waits for one that does not
wait) has a hole here: a pass locks the rows that *hold* something when it
starts, and a take asks for the rows again.  `Holds` closes it.  Of every row
below the one a session is at (`Earned`), either the session has it or the row
is empty, and since nobody puts goods back an empty row stays empty; so a take
asks only for rows the session has.  A request that puts goods back in between
breaks exactly this, and then two sales do deadlock (section 15), which is why
`TakesAway` cannot be weakened to `Disciplined`.  First expired first is
`Filling`: while a take has something left to fill, the rows it went over are
used up.

`Tallied` is what the refinement takes: at every moment the document of a
session says of a shelf what the finished statements move and what the running
one has moved so far, so that the commit moves the shelf by the net of the
request; `SumLemmas` says how the sums move.  It needs that a statement's
rows lie on one shelf (`ShelfAssumption`, which TLC evaluates).

Only model-checked: `ImplementsLedger` of requests that transfer (the goods are
on no shelf between a source row and its twin), and `RequestsEnd` (liveness).

## 4. Receivables

### What is modelled

`Receivables` follows one customer: the invoices, what the till takes for them,
the credit notes of returned goods, the credits those raise, and receipts
against the account.  A session is a request and a transaction; its statements
are steps, so that another session may commit between any two of them.  A
loaded attribute is kept in `req` with the value it had when it was loaded,
which is what SQLAlchemy's identity map does, and written back as an absolute
value by the last step, which is flush and commit in one.

| Model | Code |
|---|---|
| `bill` | a row of `sales_invoices` with its items; `Deleted` after `delete_invoice` |
| `paid`, `confirmed` | `paid_amount`, `payment_confirmed_at` |
| `held`, `claimed` | row locks: `create_return` and the flush of an edit on the invoice, `cancel_return` on the note |
| `note`, `credit` | `sales_returns`, and the `customer_credits` row of each note |
| `back` | `returned_totals` and the quantities already returned: the sums over the posted notes of an invoice |
| `received`, `taken`, `paidOut`, `entered` | `customer_payments`; the till's cash movements with the journal entries that go with them; the entries of a note |
| `PostInvoice`, `ReadBalance` | `create_invoice`, with `_check_credit_limit` over the four SELECTs of `customer_balance` |
| `BeginEdit`, `CountReturns`, `ResetInvoice`, `RepostInvoice`, `DeleteInvoice` | `update_invoice`, `delete_invoice`: the count of returns, then the flush that takes the row, then the rebuilt document |
| `BeginReturn`, `ReturnLine`, `PriceReturn`, `WeighReturn`, `PostReturn` | `create_return`: lock and load, take from the lines, share the discount, compute what is overpaid, commit |
| `BeginCancel`, `ReadCredit`, `CancelNote` | `cancel_return` |
| `BeginResolve`, `ResolveCredit`, `BeginRefund`, `RefundCredit` | `resolve_customer_credit`, `refund_customer_credit` |
| `BeginCollect`, `ReadReturned`, `CollectPayment` | `collect_payment`, `net_billed` |
| `BeginReceipt`, `CreatePayment` | `create_payment`: never more than the balance |
| `Abort` | a refusal, a dropped connection, a crash: the transaction rolls back |

`RoundHalfUp` is `quantize(..., ROUND_HALF_UP)` on whole units of money;
`DiscountShare` and `TaxShare` are the code's two ways of splitting an invoice
over its returns.

Left out: batch movements (they are requests of `StockRequests`); the delivery
stop a return drops, the release of goods (`mark_picked_up`) and the refusals
tied to a trip (they are in `Delivery`); overrides of the credit limit and its
overdue-age rule; an invoice of several products (the sums over products are
independent, the rounding is per note); two managers editing one invoice at the
same moment; and the deadlock between an edit, which locks batches before the
invoice row, and a return, which locks them the other way round (PostgreSQL
aborts one of them, which is `Abort`).

### What is checked

Amounts are one or two units, an invoice sells two or three, three notes at
most: enough for a return in three parts, which is where rounding shows, and
for a note to be posted again after a cancellation.  Two clerks are enough for
every disagreement of section 15; the duties of a run say who does what, since most of
the properties hold or fail by *who* may run beside whom.  Deadlock is not
checked: when the notes and invoices of the instance are used up nothing is
left to do.

| Run | Duties | Shows |
|---|---|---|
| `money_returns` | both return and cancel, one collects | never more back than a line sold; a full return credits what was billed, discount included |
| `money_desk` | one sells on credit, collects, pays out, cancels; the other returns, receives | statement and ledger agree; a paid-out note stands; the limit holds although the balance is read in four statements |
| `money_alone` | one clerk, everything but new invoices and receipts | an overpayment is recorded; posted returns freeze the invoice |
| `money_second_return` | collect, return, return | **violated**: the first credit is counted into the second |

The passing runs are bounded by who does what, and each bound is needed.  With
other duties the same properties fail: two sellers each fit the limit that
together they exceed (`WithinCreditLimit`); an edit counts the returns before
it has the row (`ReturnsFreezeInvoice`, `ReturnedWithinSold`), and leaves the
entry of a collection behind (`StatementAgrees`); a credit is paid out by two
tills, or beside the cancellation of its note, which locks the note and not the
credit (`StatementAgrees`, `RefundStands`).

The instance of `money_returns` has a discount and no tax.  The discount is
shared on the running total, but the tax is rounded on each note
(`sales_service.py:1279`): with a tax of 5 on three units of 10 three notes of
one unit credit 6, so that the property fails when the tax of a unit is not a
whole amount.

Properties about time are action properties
(`WithinCreditLimit`, `ReturnsFreezeInvoice`); no fairness is assumed.

### What is proved

`ReceivablesProofs`, for any number of sessions, invoices, notes, batches and
documents, from the two assumptions of `Receivables`:

* `MoneyTypeCorrect` : `Spec => []TypeOK`.  `paid`, `taken`, `paidOut` and
  every credit stay natural numbers whatever interleaves, and no step looks at
  a column that is not there.
* `ReturnsWithinSold` : if no session edits (`NoEdits`), then
  `Spec => []ReturnedWithinSold`.  Collections, deletions, cancellations and
  any number of concurrent returns are allowed.  With edits it is false: an
  edit counts the returns before it holds the row, and a return that commits in
  between is left with fewer goods sold than came back.

`TypeOK` is not inductive: a step that posts a return reads the lines of an
invoice, and only the row lock taken at its start says that the invoice is
still there.  `Carrying` adds that: a return holds the row of a live invoice, a
cancellation the row of a posted note.  `Within` adds to it what a return has
counted (`Counted`: what has come back, with what it is taking, is at most what
it has seen, which is at most a line of the batch), and that nothing has come
back of an invoice no note refers to (`Referred`), without which a deletion
could take away the lines under goods that were returned.  Since only the
holder of the row changes `back` upwards, a return's count cannot go stale:
that is the argument, and `BeginReturnUnlocked`, the same without the lock, is
the change `money_returns` refutes.

The other properties depend on who may run beside whom, so each theorem has a
condition on `Duties`, as weak as its argument allows.  The instances of
`money_desk` and `money_alone` satisfy the conditions, and "What is checked"
says how the properties fail with other duties.

* `StatementAlwaysAgrees`, `RefundsAlwaysStand` (`OneTill`): one session
  collects, one (it may be another) decides on credits, pays them out and
  cancels, and no invoice is edited or deleted; any number sell, take back and
  receive.  Then the statement agrees with the books and a paid-out note stands.
  Nothing is locked against a second till, so the argument is that what a session
  has loaded is still so when it writes (`UpToDate`); `Squared` adds that a
  credit stands only while its note does, which only holds because the desk that
  pays out is the desk that cancels.
* `ReturnsAlwaysFreeze` (`EditorReturns`): if whoever edits is the only one to
  take back, a posted note freezes its invoice.  `Frozen` carries what the count
  of returns established over to the flush (`Uncredited`): no note was posted of
  the invoice, and none since.
* `LimitAlwaysHolds` (`OneSeller`): one session collects, and what raises a balance
  is the seller's alone.  The balance is added up over four SELECTs, and returns,
  receipts and collections commit in between.  `Limited` says that the figure is
  never too low: it is at least what the terms read so far would be now
  (`ReadSoFar`), since the steps of all others make each term fall or stay.
  `SumLemmas` says how a sum moves when one of its terms does.
* `OverpaymentAlwaysOwed` (`OneHand`): one session collects, takes back and edits;
  others decide, pay out, cancel and sell beside it.  `OverpaymentIsOwed` is not
  inductive.  A credit can be larger than its note, since it makes up for what
  earlier notes left, and cancelling the note takes the whole credit away but
  brings only the note's total back.  `Bounded` is what is inductive: an invoice is
  overpaid by no more than its standing credits, each counted for no more than
  its note.  `Noted` ties `returned_totals` to the posted notes, and `Weighed` says
  what a request has loaded or weighed and still relies on.

The last two ask for documents without a discount.  With one, a note can be
worth less than nothing: six units of 1 at a discount of one half, returned one
at a time, share the discount as 1, 0, 1, 0, 1, 0; cancel the three notes with
a share of 1, and the next note of one unit is given a share of 2, so that its
total is -1.  Then posting a note raises a balance, and no bound by notes holds.

* `FullReturnAlwaysCredits` (`NoEdits`, `WholeDocuments`): the notes that bring
  everything back credit what was billed.  `WholeDocuments` asks of each document
  that its subtotal is its units at its price, that the tax is a whole amount a
  unit, and that the discount is no more than subtotal and tax together, which is
  what `_resolve_discount` leaves of an amount to collect that is not below zero;
  the instance of `money_returns` satisfies it.  Any number of sessions return and
  cancel.  `Figured` is inductive on top of `Within`.  `Even`: what is back of an
  invoice adds up (`AddUp`: units at the price, the tax on them, less the
  discount), its discount is no more than the invoice's, and all of it once all
  units are back.  `Proper`: so does each posted note, which stands for at least
  one unit.  `Priced`: a share computed but not yet posted keeps below the
  discount, and meets it if it is the last.  A cancellation can commit between
  `PriceReturn` and `PostReturn`, since it takes the note's row and not the
  invoice's; it takes units away, so the share was not that of the last unit
  after all.  `ShareFits` is the arithmetic of `_returned_discount_share`, and
  `WithinTheLines` (`SumByKey`) compares the units of all batches with those of
  all lines.

Nothing the passing runs check of this module is left without a theorem.

## 5. The rest of the house: how the modules read

Every later module extends `Requests`.  A session is one request: the
statements that load rows are actions of their own, keep what they loaded in the
session's record, and the last action writes and commits.  An `Abort...` action
is a refusal after the load, a dropped connection or a crash: the transaction
rolls back.  Unique indexes, foreign keys and the row lock of `create_return`
are guards of the writing action, because that is where PostgreSQL applies them.

Where the code loads without a lock and writes later, a promise holds only while
no other request is in the same window.  The module says which window with a
history variable (`raced`, `contested`, `muddled`, `crossed`, `jostled`, ...)
that the writing action sets, and the property reads "unless in that window".
So a property is as strong as the code is, and what is inside the window is
listed in section 15.  A history variable guards nothing (but for `erased` in
`FieldSync`, which also bounds the deletions to one of each document).

Who does what in an instance is a constant (`Rosters`, `Duties`, `Tasks`,
`Errands`, `Trades`, `Backlog`): a set of functions from sessions to operations,
one of which a behaviour keeps.  That bounds the interleavings without bounding
the operations: each pair of operations that touches the same rows is in some
function of the set.

Deadlock is not checked in these runs: every table is finite, and the instance
stops when its ids are used up.

| Run | Components | Shows |
|---|---|---|
| `trips` | `Delivery` | the promises of a trip, under plans, returns, pickups, edits and deletions of what rides on it |
| `field` | `FieldSync` | a round sent again over lost answers and crashes is posted once, loses nothing, gets through |
| `warehouse` | `StockDocuments`, `Rounds`, `PurchaseCycle` | write-offs and counts are applied as they say; what a signed round's sales still cost is in the drawer; orders, shelf and account 2010 agree |
| `office` | `OrderBilling`, `Register`, `Migration`, `Reconciliation`, `Doors`, `SignIn`, `Brake` | one invoice per request; declared registers stand; imported books balance; one movement, one line; who may do what; lockout |
| `import_again` | `Migration` | **violated**: the opening stock uploaded twice is worth twice its shelf |

## 6. Delivery

| Model | Code |
|---|---|
| `trip`, `stop` | status of `delivery_trips`; rows of `delivery_stops`, a deleted one apart from one never inserted |
| `order` | of an invoice: exists, `pickup`, `picked_up_at`, `payment_confirmed_at` |
| `returned` | the sums over posted returns, per batch |
| `task` | a request with the status and the stops it loaded |
| `CreateTrip`, `GetTrip` | `create_trip`; `get_trip` and the status check all handlers start with |
| `CountActive`, `AddInvoice` | `add_invoice`: warehouse, pickup and payment gates, the count of open trips it rides on; the insert under `uq_invoice_once_per_trip` |
| `RemoveStop`, `Renumbered` | `remove_stop` and its renumbering |
| `DispatchTrip`, `UpdateStopStatus`, `CompleteTrip` | the handlers of these names |
| `NetLinesToPick`, `ToLoad` | `_net_lines_to_pick` and the picking list |
| `BeginSalesReturn`, `PostSalesReturn`, `CancelSalesReturn` | `create_return` (row lock, refusal while a driver has the goods, stops of planned trips dropped), `cancel_return` |
| `ConfirmPayment`, `BeginPickUp`, `MarkPickedUp` | the cashier's gate and `mark_picked_up` |
| `BeginRebuild`, `RebuildInvoice`, `BeginDelete`, `DeleteRow` | `update_invoice` and `delete_invoice`, as far as delivery sees them |

Checked: `TripIsWhole` (no trip on the road is empty, an invoice rides on one
open trip, the visiting order, nothing is completed undecided),
`TripRunsItsCourse` (the stop list is frozen once the trip left, a status never
goes back), `NothingCreditedOnTheRoad` (what the driver carries for a pending
stop is at most what the customer still owes for: it ties `carried`, the picking
list of the moment of departure, to the returns since), `FetchedOrDelivered`
(goods are not both fetched and delivered).  Two trips, two invoices, two stops,
two batches: enough for an invoice on two trips, for a trip emptied under a
dispatch, and for a full return that drops one stop of two.  Five rosters pair
the office that plans and dispatches with each other desk.

### What is proved

`DeliveryProofs`, for any trips, invoices, lines, requests, and any finite number
of stops (`DeliveryAssumption`: ids are positive, lines are of positive
quantity):

* `TripsStayWhole` : `DeliverySpec => []TripIsWhole`.
* `TripsRunTheirCourse` : `DeliverySpec => TripRunsItsCourse`.
* `NeverFetchedAndDelivered` : `DeliverySpec => []FetchedOrDelivered`.

A handler decides by rows it loaded in an earlier step, so the invariant relates
every request in flight (`InFlight`) to the tables as they are now:

* `InTime` and `AsLoaded` : a trip is as the request that plans it loaded it, its
  stops and their places included, or the trip is in `raced`.  Every step that
  changes the stops of a trip or sends it off puts it there if somebody else has it
  loaded: the two definitions are what that history variable is for.
* `SeenPending` : what a request closing a trip has not seen as pending is not.
* `AloneWith` : a request that counted the trips of an invoice and found none is
  right, or another did the same (`doubled`).  With `RidesOnce` this is
  `OneOpenTrip`.
* `OneWay` and `SentOrFetched` : goods to be fetched are on no trip.
* `Created` : a stop's trip exists, so a new trip starts without stops.

`VisitingOrder` takes arithmetic: that renumbering what is left closes the gap is
`GapCloses`, from `Places` (as many places as stops, so no two share one).

`NothingCreditedTravels` : `DeliverySpec => []NothingCreditedOnTheRoad`, by `IInv` and
`Loads`, two statements more:

* `Fits` : what came back of a batch fits the line it was sold on, which
  `create_return` sees to, line by line.
* `Clear` : what a request in flight is about to return, no driver has.  A return
  looks for the goods on the road and puts every trip it finds planned in `raced`;
  a dispatch after that is one of those.

What is left to pick of an invoice (`NetLinesToPick`) is a fold in which a line
depends on those before it.  `NetExists` and `NetPlaces` turn the fold into a table
of what it has computed after each line, by the least size for which there would be
none; `NettedStep` carries along that table that what was taken off the lines is
gone from what came back, and `NetIsOwed` reads at its end that the units to load
are the units sold less the units credited.

## 7. Van sales sync

| Model | Code |
|---|---|
| `phone`, `awaited`, `Send`, `Answer`, `LoseAnswer` | the queue and `sync` of `useFieldSync.js`: one upload at a time, what the answer calls created or duplicate leaves the queue |
| `FindItem` | the lookup by `client_uuid`, customers first, and the map of the buyers of this request |
| `CheckName`, `InsertCustomer`, `TagCustomer` | `create_customer`, which commits, and the second commit that sets the uuid |
| `PostDocument`, `RefuseDocument` | `create_invoice` off the van or `create_quotation`, uuid in the same commit; any `AppException` |
| `CrashUpload` | an error that is not an `AppException`, a stop of the process: what was committed stays |
| `AssignVan`, `RegisterAtOffice`, `EraseSale` | head office meanwhile |

Checked: `SyncedOnce`; `NothingGoesSilently` (what left the phone is on the
server or was deleted there later; a document that "cannot tell its customer"
has a customer that failed or did not travel with it); and the liveness property
`RoundReaches`: what is queued gets through, unless the shop's row was committed
without its uuid, its name was taken, or it left the queue before the document.

Fairness: weak for sending, since the phone retries on mount and on every
`online` event (`useFieldSync.js:158-181`), for the server's own steps, and for
head office giving the salesman a van; strong for the acceptance of a document,
because being tried for ever it is refused only for reasons (stock, limit, van)
that somebody removes in the end.  None of crashes and lost answers, which
`MaxFaults` bounds at two: enough for one of each, or two overlapping uploads of
one round.

### What is proved

`FieldSyncProofs`, for any shops, documents, overlapping requests and any bound on
the faults (`FieldAssumption`: a document's buyer is a shop or nobody new):
`AlwaysSyncedOnce` and `NothingEverGoesSilently`.  Beside the two the invariant
has `Sorted` (what an upload carried is still to come, in hand, stored or refused,
and one of these only), `Explained` (why a document was set aside) and `Kept`
(what the phone dropped, and what an answer on its way will make it drop, is on
the server or was deleted there): an answer can be lost or come late because of
the last, never because the server remembers what it answered.  `RoundReaches` is
liveness and stays with the run.

## 8. Orders and quotations to invoices

`paper` is a row of `customer_orders` or `sales_quotations`; `LoadPaper` loads
it and looks at its status; `IssueInvoice` is `create_invoice`, which commits;
`WriteDecision` is the second commit, of status and link.  `CountOrders` and
`PlaceOrder` are `place_order`; `Expire` is `valid_until`; `DeleteBill` is
`delete_invoice`, which a linked paper's foreign key refuses.  `AbortDesk`
between the two commits leaves the invoice: that is the crash the code does not
recover from, recorded in `cutShort`.

Checked: `BilledOnce` (one invoice per request; the paper says billed exactly
when it is; `MAX_OPEN_ORDERS` holds) and `AnswerStands` (an answer is not taken
back).  Two orders of one buyer and a quotation, two invoices, limit one: the second
order meets the limit while the first is open, and two invoices are what a double
bill needs.

### What is proved

`OrderBillingProofs`, for any papers (finitely many), invoices, customers,
requests and any limit (`BillingAssumption`): `AlwaysBilledOnce` and
`AnswersAlwaysStand`.  The invariant says of every paper that nothing disturbed
(`contested`: two requests had it; `cutShort`: one died between the two commits)
that all its invoices are one, and that either the request that has just issued it
still has the second commit to make or the paper says so and is linked to it
(`OneBill`); that a request finds the paper as it loaded it (`AsRead`); that a
linked invoice is there (`Links`); and that who counted the orders of a shop found
room and still would (`Room`).

## 9. Write-offs and counts

`books` is what the batches say and `shelf` what stands there; `Vanish` moves
one and not the other, which is what a count is for.  `CreateAdjustment`,
`LoadAdjustment`/`CancelAdjustment`, `LookForOpen`/`OpenStocktake`,
`LoadStocktake` followed by `SaveCounts`, `PostStocktake` or `CancelStocktake`
are the handlers of these names, each with the load as a step of its own.  The
row locks these take on batches are section 3, but for one thing that reaches the
accounts: `get_adjustment` loads the batch with the lines of the write-off
(`selectinload`, `stock_service.py:660-663`), so `LoadAdjustment` keeps in `seen`
what the batch held, and `CancelAdjustment` writes `seen + n`, whatever was
committed in between, while it mirrors the entry in account 1200 as it stands.
`overwritten` is the history of what that lost, per batch.

Checked: `DocumentsAreSound` (a document is applied as often as its status says,
one count of a warehouse is open), `InventoryFollowsBooks` (account 1200 is the
books at cost, astray by what cancellations of write-offs have overwritten and by
nothing else), `CountIsADelta` (posting takes off what was
missing when the line was counted, keeps the movements since, and leaves an
unvisited line alone).  Two batches, one without a cost, two counts, two
write-offs, two movements: a sale and a theft on either side of a count.

### What is proved

`WarehouseProofs`, part I, for any batches (finitely many), costs, documents and
requests (`StockDocumentsAssumption`): `DocumentsStaySound`,
`InventoryAlwaysFollows` and `CountsAreDeltas`, every property the run checks.
`DocIInv` is the invariant.  `Alone` says that two requests that hold one document
are in `muddled`, and `StillSo` that a document outside `muddled` stands as its
holder loaded it: so the status a request wrote on the strength of its load was
the status of the row.  `AppliedExactly` counts the applications of a document by
its status, and `LinesTell` says what the counted number of a line means: the
books when the sheet was opened less what was missing when the line was counted,
for a line whose batch did not move in between.  Without `LinesTell` nothing ties
the difference that posting adds to what stood on the shelf.

`InventoryAlwaysFollows` is by `Accounted`: the account is the sum, at cost, of what
the batches hold and what was overwritten in them, against what they held at first.
A cancellation that writes back what it had read moves the two by the `n` it put in
the account (`BookOne`), stale or not: the strays are exactly the overwritten pieces.

Account 1200 is a sum over the batches, and a posted count moves many of them at
once.  `SumLemmas` is what makes that provable: the sum of the community modules is
a CHOOSE of a function satisfying a recursion, and the module shows that such a
function exists and is unique (by the least number and the smallest subset for
which it would not be), and from that one equation how a sum changes with one term,
with all of them, and with one element more.  It needs the set to be finite, which
is why the assumptions of the modules say so of the tables they add up.

## 10. Rounds

One day.  `driver` is `assigned_to_id` and `is_active` of a van, `sale` the
day's invoices off it, `sheet` its posted counts, `round` the settlements.
`LookForRound`/`FileRound` are `open_round`, `LoadRound`/`ReadPosition`/`Sign`
are `settle` with `position` and its gates (`MayClose`), and `settle_van` is
the first going on into the second; `CancelRound`, `UpdateWarehouse` likewise.
`Unsettled` is `unsettled_rounds`.

`MayClose` has the three refusals of `settle`: `_get_van`, which turns away a van
nobody drives (`round_settlement_service.py:85`), the hard gate on money, the soft
one on goods.  Which driver `_get_van` sees depends on the identity map: `settle_van`
has loaded the van before it looks for the round and keeps that driver, `settle` by
id may find the row loaded with the round or load it now (`DriverKnown`).  The
SELECTs of `position` are one step of the model.

What a sale owes moves both ways.  `CollectSale` and `TakeBack` lower it;
`UndoReturn` (`cancel_return`) raises it again, and `EditSale` (`update_invoice`) and
`DeleteSale` replace it: an invoice without posted returns is drawn up anew, for
another amount, method or salesman, `paid_amount` is back at nothing while the cash
movements stay, and its lines come from the home warehouse, which may be a van or
not (`Elsewhere`).  `in` is what the cash movements of an invoice say, `paid` and
`done` are its columns.

Checked: `RoundsAreKept` (one open round per van; a salesman drives one van in
use; a round whose buyers have paid can be closed while somebody drives the van;
takings not handed over show among the unsettled vans, unless the van was settled
today, changed hands, or a correction took the sale off it) and `SignedStands` (at
the signature what the round's sales still cost is in the drawer, the shortage was
signed for, and the row does not change again, unless the position was overtaken
meanwhile - by a sale, a count, a cancelled credit note, a corrected or deleted
invoice - or two requests had the round).  Two vans, two salesmen, two sales of one
unit of money, one count with two differences of opposite sign, two rounds,
`MaxChanges` two: changes of a van's driver and corrections of an invoice together,
so that a van can be left without a driver and given another, an invoice edited
twice or edited and deleted.  Five rosters pair the settlement with a second
settlement, with counts, with returns and their cancellation, with corrections, and
with changes of driver.

### What is proved

`WarehouseProofs`, part II, for any vans, salesmen, sales, counts, outcomes and
requests (`RoundsAssumption`: the tables of a day are finite): `RoundsStayKept` and
`SignaturesStand`.  The signature is written on a position read earlier, so the
heart of `RoundIInv` is `PositionStands`: between the reading and the signature,
what a request read of a round still bounds what is owed now.  A collection or a
return only lowers it (`OwedFalls`, a sum that no term of grows).  A sale, a
cancelled credit note, a corrected or deleted invoice or a new count puts every
round about to be signed on its van in `late` (`Overtaken`), of a correction on both
vans, so that a round not in `late` has sums that no such step touched
(`NotOvertaken`, `UndoReturnKeeps`, `EditSaleKeeps`, `DeleteSaleKeeps`); and a second
request that had the round puts it in `raced`.  The property excepts these two sets.
`DriverSold` (who sold off a van that never changed hands drives it) links the vans
whose money is missing to the salesman the round names; `HeldAlone` and `StillOpen`
keep a round settled by one request from being settled by another.

## 11. Purchases

`order` and `received` are the purchase order and its received quantities, `doc`
the purchase invoices and the expenses, `returned`, `vouchers`, `stock` and
`payable` (account 2010) the rest.  `LoadOrder` leads to `WriteStatus` (send,
cancel), `UpdateOrder`, `ReceiveOrder`; `LoadDoc` to `UpdateInvoice`,
`DeleteInvoice`, `ReturnGoods`, `PayDoc`; `LoadBalance` to `PaySupplier`.  A
unit costs 1, so freight and discounts are left out here.

Checked: `OrderIsTrue` (received quantities are what the deliveries brought,
within what was ordered, and closed exactly when complete) and
`GoodsAndMoneyAgree` (returns within receipts; shelf = brought - returned -
sold; account 2010 = the supplier's statement and the unpaid expenses).  The
deliveries include one that names a line twice.

### What is proved

`WarehouseProofs`, part III, for any order lines, documents (finitely many of
each), deliveries, quantities and requests (`PurchaseAssumption`; an order has a
line because the schema refuses one without): `OrdersAreTrue` and
`GoodsAndMoneyAlwaysAgree`.  `TradeIInv` is the properties themselves with the
tables, what a request has in hand (`DealsHold`), and the window: `DealtAlone` and
`StillAsLoaded` say that an order or a document outside `crossed` is as its one
holder loaded it.  Then a delivery adds to the received quantities what it adds to
the invoices (`ReceivedAsInvoiced` needs nothing else), it fits line by line unless
it names a line twice (`ListedOnce`), and the figures over all documents - the
supplier's balance, the open expenses, the shelf - move by what one document
changes (`BooksMove`).  The exceptions are as wide as the property states them and
no wider: two payments of one invoice at once, for instance, break the balance and
leave the shelf accounted, and the proof has a case for each.

## 12. The register of regulated goods, and bank reconciliation

`Register`: `record` is a register, `filed` the pointers from invoice lines to
it, `printed` its tax rows.  `BuildSale`/`FileSale` are the end of
`create_invoice` and `update_invoice` (`tag_lines`, `_open_record`, the partial
unique index); `LoadRegister` leads to `Untag`, `SetTaxes`, `CloseRegister`
(which opens the next and carries the taxes forward); `ShareOf` and `NetOf` are
`_entries_by_record`, the credit of a return shared by quantity and rounded to even.  Checked: `RegisterFollows` (one open
register, nets add up to what the shop kept up to the rounding, no tax twice,
only live lines filed) and `DeclaredStands` (a closed register gains nothing and
loses only lines that were corrected or deleted).  A sale of two lines of 2 and
3 thousandths is the smallest whose returns do not share evenly.

`Reconciliation`: `LoadMatch`/`Match` and `LoadUnmatch`/`Unmatch`, entries posted
and replaced by `Post`/`Unpost`, the unique index on the item and its foreign
key.  Checked: `OneMovement` (a bijection of matched lines and claimed items on
the bank account, in the same direction, and the summary adds up) and
`MatchStands`.

### What is proved

`OfficeProofs`, for any statement, journal and number of requests:
`OneMovementEach` and `MatchesStand`.  The invariant is `Claims` (a claimed item is
on the books and goes the line's way), `Distinct`, and `OnRecord` (a line two
requests hold is in `crossed`, and one that is about to be matched is free or
there).  That the summary adds up is then a bijection between lines and items.
The same module, for any customers, registers, invoices, finitely many lines and
any number of requests (`RegisterAssumption`): `RegisterAlwaysFollows` and
`DeclarationsStand`.  `RegisterIInv` says what a request has in hand
(`HoldsRecord`): its register is there and of its customer, and once closed it is
in `late`, since a closing puts every register that others hold there.  A line
given up never becomes free again, so that an `Untag` takes a line out of the
register it was loaded from or out of none, and a register outside `late` is
rewritten by the one request that read its tax rows last.

That the nets add up needs no invariant but the types (`NetsAlwaysAddUp`): each share is
within half a thousandth of its quotient (`HalfEvenNear`), so that the shares of n
lines miss what came back by n halves at most (`SharesNear`, by `SumTimes` and
`SumGrows`), and when more came back than is left on the lines - an edit that did not
see a return - every line is declared at nothing.

## 13. Migration

`Check` is `run()` up to the end of `_validate` with every rule that reads the
database or relates two cells (names known, references not imported, headers
within `TOLERANCE` of their lines, cells of their type); `Apply` is `_apply` in
one transaction: cards, warehouses, opening stock, documents and what each posts
through `add_entry_no_commit`, which drops a side that is not above zero (`Kept`) and
refuses an entry whose other sides do not balance (`Accepted`).  An upload is a set of
typed rows (`Workbook`) of any amounts, negative ones included, because the columns
have no lower bound.  `SellPiece` is the new system already selling.  Twelve uploads
cover each rule once and each posting once, and the odd sums besides: a total one
piastre below zero, an invoice of zeros, a cost below zero.

Checked: `BooksFollowDocuments`.  Its parts: the balance sheet balances
(`IsBalanced`); receivable and payable are the imported statements less the
opening balances, unless a total below zero was let in (`BelowZero`); inventory is the
shelf unless a count was uploaded again (`restated`) or has a cost below zero
(`CostBelowZero`); nothing is imported twice; and what the check passed is applied
(`PassedApplies`), with the three exceptions section 15 names.

### What is proved

`OfficeProofs`: `BooksAlwaysFollow` : `MigrationSpec => []BooksFollowDocuments`, for any
workbooks (`MigrationAssumption`: finitely many rows, typed as `_type_rows` leaves them),
tolerance, price, names, batches and sessions.  `MigIInv` has four parts:

* `LedgerSound` : the accounts add up to nothing, receivable and payable are what the
  documents posted (`Due`, `Cleared`), and inventory is the shelf, with its exceptions.
* `DocumentsSound` : references are unique on each side and vouchers are above zero.
* `ShelfSound` : batches are finitely many and their figures integers.
* `UploadsInHand` : an upload in hand passed the rules that read no table, and while it
  is fresh none of its references is imported.

The ledger is a sum over documents of entries over accounts.  That an upload leaves it
balanced is an exchange of the two sums (`SumOfColumns`): each document's entry is zero
over the accounts, so the upload is (`AllPosts`).  The documents of an upload are new on
their side (`NewOnTheirSide`, from the unique references), so that what is due adds up
(`DueJoin`); the balances of all parties are the documents of all parties, grouped
(`SumByKey`, `OwedIs`); and the rows of a sheet are the batches of the shelf, one to one
(`AssertedValue`).  `BooksAreSound` then reads the property off the invariant, and
`FreshApplies` shows entry by entry that an exact header is accepted.

## 14. Who may do what

`Endpoints` is a table: `ALL_PERMISSIONS`, `ROLE_DEFAULT_PERMISSIONS`, every
guarded route of `app/api/v1` with the permission it asks, and the pages of
`Layout.jsx` with the routes they load.  `Doors` is the part that changes:
`LoadAccount`/`UpdateUser`/`DeleteUser`, and `Trade`, a user making a row that
refers to him.  Checked: `HandsAreTheirOwn` (every guard is in the catalogue; the
powers the catalogue keeps apart are in no role's hands, but for one pair in the
salesman's; whoever is shown a page can load it, but for two; an explicit list gives
nothing else) and `SomeoneCanManage`.  Three users, three changes.

`Halves` lists what the comments of `permissions.py` hold apart: taking goods back and
paying the money out (`:98`), or cancelling the note (`:92`); a write-off and its
cancellation, the damage flow that `:92` refers to; counting and accepting a shortage
of the round (`:109`); counting and markdowns (`:22`); selling and deciding what the
register declares (`:70`); keeping accounts and deleting them (`:178`); selling and
chasing debts (`:81`).  The last is the one a template breaks: `KeptApart` excepts it
for the role sales, by name (section 15).  Closing a round and
accepting its shortage are with the accountant on purpose (`:311`), so they are no
pair.

`SignIn` is one portal login: `Knock`/`Authenticate` are `authenticate` before
and after the password, `LoadLogin` leads to `ChangePassword` or `UpdateLogin`
(suspend, restore, reset), `Crash` stops the process and leaves the row.  A
request writes the columns that differ from what it loaded.  Checked:
`LockoutHolds` and `TemporaryIsReplaced`.  Two failures lock for three ticks of
five, so that an attack meets the lockout, waits it out and meets it again.

`Brake` is `rate_limit.enforce`, with the sweep of quiet sources at `MaxKeys`
and a restart that forgets.  Checked: `SignInsAreSpaced`, over any stretch of the
window between restarts.  The clock runs through two windows.

### What is proved

`OfficeProofs`, for any users, requests, roles and lists (`DoorsAssumption`: the
staff the process starts with has an administrator, which `seed_first_admin` sees
to): `SomeoneCanAlwaysManage`.  What is inductive is `Counted` beside it: while no
two changes of accounts overlap, a deletion that passed its count still leaves an
administrator.

and, for any number of requests at a login and any lockout:

* `LockoutAlwaysHolds` : between guess `i` and guess `i + MAX_FAILED_ATTEMPTS`
  lies a lockout.  That is a statement about the whole history of guesses, and the
  row only holds a count and a time; `Counting` ties them: the count is of the
  guesses since the last lockout, which runs from the guess before them.  `Alone`
  says a request with the row to itself holds it as it is.
* `TemporaryIsAlwaysReplaced` : by `MustReplace` and `Alone`; `Numbered` keeps a
  request that loaded a deleted login from meeting the one opened after it.

For the doors, `HandsStayTheirOwn` : `DoorsSpec => []HandsAreTheirOwn`, for any users,
roles given and lists.  An account is a role and perhaps a list (`AreRows`), so what is
to be shown is a finite fact about `Endpoints`: the doors of each router, the hands of
each role, the pages and the routes they load are lemmas, one per router and per role
(`TripDoorsListed`, `SalesHolds`, ...), small enough each for a prover to look through,
and `ByRoleHands`, `PagesThatOpen` and `ListIsAll` follow from them.  Editing a role or
a guard in a way that breaks the separation leaves one of these lemmas unproved.

For the brake, `SignInsAlwaysSpaced` : `BrakeSpec => []SignInsAreSpaced`, for any sources,
window, limit and size of the map (`BrakeAssumption`).  The property is about every
attempt let through (`passed`), the code keeps only those of the window and sweeps
sources away, so `BrakeIInv` says that memory and history agree from the latest
attempt back, and that what is in the history only is older than the window
(`Remembered`).  Positions are counted from the end, where neither a trim at the front
(`RecentIsSuffix`, `TailFromEnd`) nor a sweep (`SweptIsSound`) moves anything.

## 15. Disagreements

What the code does that a comment, a docstring or its own purpose says it does
not.  Three are runs that TLC finds violated; the others showed while the
modules were written, and are what the "unless" of a property stands for.

Runs:

* `stock_writeoff_undone`: `cancel_adjustment` locks a batch `get_adjustment`
  has already loaded (`stock_service.py:704`), so a sale committed while it waits
  is overwritten; `get_batch_locked` (`:219-225`) says it is the fix for this.
* `money_second_return`: the overpayment is computed from all returns so far
  and no earlier credit is subtracted (`sales_service.py:1347`).
* `import_again`: `_post_opening_inventory` posts the whole sheet on every
  upload (`import_service.py:891-928`) while the quantities are only asserted;
  `:533` says re-uploading must not double the books.

Stock.  `transfer_stock` reads the destination row without a lock: a receipt
beside it is lost.  A sale locks by product and a cancelled return by batch id
(`stock_service.py:258`, `:248`): they deadlock.  Two sales deadlock over an
empty product restocked between the lock pass, which skips empty rows, and the
allocation, which does not.  `create_adjustment` locks in the order typed.

Receivables.  Two tills overwrite `paid_amount` (`cashier_service.py:173`).  A
collection and a return at once: neither sees the other and the overpayment is
nobody's (`:147`).  Part collected and the rest returned: nothing is due, the
till refuses (`:151`), the invoice is never confirmed; a return cancelled after
a confirmation net of it leaves money due that the till refuses.  Of two lines
of one batch only one can be returned (`sales_service.py:1221`).  The tax of a
return is rounded on each note (`:1279`).

Delivery.  A second dispatch in flight reopens a completed trip
(`delivery_service.py:332-341`).  A return that drops a stop leaves a gap in the
visiting order (`sales_service.py:1354-1366`; `:326` of the delivery service
keeps it "gapless").  `update_invoice` and `cancel_return` do not ask about
trips.  An invoice delivered on a completed trip can be put on another.

Van sales.  A document whose shop went in an earlier upload cannot name it by
uuid: the map holds the shops of the same request (`field_sync_service.py:214`,
`:218`).  Between the two commits of a new customer a crash leaves a row without
its uuid, and every later upload finds its name taken.

Billing.  Two commits (`sales_service.py:778-782`, `portal_order_service.py:479-500`):
a crash in between leaves an invoice whose request is still open.  A withdrawal
that loaded the order before overwrites "invoiced".  The orders of a shop are
counted without a lock.

Counts.  Undoing a write-off overwrites what was sold or counted of its batch since it
was loaded (`stock_service.py:699-710`): the books say more than the shelf holds and
account 1200 keeps the sale, so the two part by the pieces overwritten.  Goods moved between opening a count and counting the line are deducted
twice (the docstring at `stock_service.py:862-865` says a delta preserves them).
Posting twice, undoing a write-off twice: the status is read without a lock.

Rounds.  The variance gate takes the net units, so two differences that cancel
out pass (`round_settlement_service.py:305`), and so does money over-collected on
one invoice and owed on another.  The count named by the storekeeper may be
another van's.  A round settled in the morning silences what is sold off the van
later.  A van left without a driver while its round is open can be neither shown nor
settled until somebody drives it (`:85`), although the round names its salesman.  A
credit note cancelled, or an invoice corrected or deleted, between the position
(`:373`) and the commit (`:422`) leaves a signed round owing money; after the
signature nothing looks at the round again.  A deleted invoice leaves its cash
movements in the drawer and with nobody's round.
`update_invoice` rebuilds the lines without a source warehouse
(`sales_service.py:844`), so a corrected van sale is drawn from the home warehouse and
leaves the round: nothing of it blocks the close any more, although `:278` says a van
sale draws on the van and `round_settlement_service.py:25` that
outstanding cash blocks the close with no override.  (The goods are given back to the van's batches, so a count of the
van then finds them short.)

Purchases.  Editing or deleting a purchase invoice looks at neither returns nor
payments, and does not lower what the order says has arrived.  A delivery naming
a line twice receives more than was ordered.  The till pays a purchase invoice
gross of what went back.  Purchase returns credit inventory without their
freight (`purchase_service.py:157-163`).  Two vouchers at once each fit the
balance.

Register.  Correcting an invoice after its register closed moves its goods to
the open one.  A sale that saw a register open is filed into it although it
closed meanwhile.  Two choices of taxes at once leave a tax twice.  Untagging
one of two lines of a product puts the whole return on the other.

Imports.  The check tolerates a header a cent off its lines (`TOLERANCE`,
`import_service.py:72-75`) that the ledger then refuses; a supplier sent again
with `is_active` blank writes NULL (`:730`); a warehouse only a purchase names is
never created (`:611`, KeyError at `:761`): the check says "ready to import"
(`:1279`) and the import fails.  Opening balances of customers and suppliers
never reach the ledger.  A header whose total is one piastre below zero is within
the tolerance and is imported, but the ledger drops its receivable
(`accounting_service.py:130`), and the statement counts it; a stock row with a cost
below zero passes the check, is worth less than nothing on the shelf and nothing in
the ledger; an invoice of zeros passes and is refused when it is written.

Bank.  Two requests match one line: the second overwrites the first
(`bank_reconciliation_service.py:150-154`).

Access.  `update_user` can demote or deactivate the last administrator
(`auth_service.py:78-105`; `:172-173` guards deletion only), and two
administrators can delete each other.  The expiry worklist and the till load
what their page's permission does not cover.  The sales template holds
`sales.create` and `sales.collections` (`permissions.py:246`, `:256`), although
`:81-83` says that chasing debt is "held apart from raising invoices: the person
selling to a shop is the last one who wants to be the one refusing it credit".  A
change of role keeps the explicit list.

Sign-in.  Two guesses at once count as one.  A reset racing a change of password
leaves a temporary password that need not be changed.

Markdowns.  Two plans applied at once can each find no live offer and insert one
(checked then inserted; not modelled).

## 16. Not modelled

* Offers, markdowns, demand, replenishment, elasticity: read-only analysis but
  for one insert; their arithmetic is planned as algorithms against references.
* Settings, audit log, backup: CRUD, and listeners that copy what was flushed.
* Collections, timelines, alerts, analytics, printing: they read, and append a
  line somebody typed.
* Refresh tokens and their signatures; PDF and spreadsheet files; schemas,
  Alembic migrations, scripts, and every screen but the field queue and the
  navigation.
* Rounding and freight of purchases; several warehouses in a count; several
  customers in `Receivables`.
