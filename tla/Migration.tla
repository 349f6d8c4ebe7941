----------------------------- MODULE Migration -----------------------------
(***************************************************************************)
(* The books of the old system, imported: an upload is checked whole and   *)
(* applied whole, while the office already sells.                          *)
(*                                                                         *)
(* An upload is a record of what its sheets say: the cards (customers,     *)
(* suppliers, products), the opening stock, the invoices and the vouchers  *)
(* of both sides.  Amounts are in piastres.  run() reads the documents     *)
(* already imported when it checks, and writes later: two uploads may be   *)
(* checked before either is written, and unique indexes stand between them.*)
(***************************************************************************)
EXTENDS Requests, Functions

CONSTANTS
    Upload,      \* the uploads somebody has at hand, in a table
    Name,        \* customers, suppliers, products and warehouses
    Batch,       \* batches of the opening stock sheets, with their product
    BatchOf,
    Price,       \* of one piece, in a sale of the new system
    TOLERANCE,
    MaxSales,    \* bound on the sales made meanwhile
    MaxRuns      \* bound on the uploads applied

\* An amount may have any sign; a cell left empty where an amount is asked is zero.
InvoiceRow(r) ==
    /\ r.side \in {"customer", "supplier"} /\ r.party \in Name
    /\ {r.sub, r.extra, r.tax, r.total, r.paid} \subseteq Int

VoucherRow(v) == v.side \in {"customer", "supplier"} /\ v.party \in Name /\ v.sum \in Int

StockRow(r) == r.batch \in Batch /\ r.qty \in Int /\ r.cost \in Int

Workbook(f) ==
    /\ IsFiniteSet(f.invoices) /\ \A r \in f.invoices : InvoiceRow(r)
    /\ IsFiniteSet(f.vouchers) /\ \A v \in f.vouchers : VoucherRow(v)
    /\ IsFiniteSet(f.stock) /\ \A r \in f.stock : StockRow(r)

ASSUME MigrationAssumption ==
    /\ BatchOf \in [Batch -> Name] /\ IsFiniteSet(Name) /\ Price \in Nat \ {0}
    /\ TOLERANCE \in Nat /\ MaxSales \in Nat /\ MaxRuns \in Nat
    /\ 0 \notin DOMAIN Upload /\ \A u \in DOMAIN Upload : Workbook(Upload[u])

VARIABLES
    imported,    \* rows with a legacy_ref, as the documents they became
    card,        \* opening balance and is_active of a customer, supplier or product
    store,       \* warehouses
    shelf,       \* quantity and unit_cost of the batches that exist
    ledger,      \* debit less credit of each account
    sold,        \* pieces sold by the new system, on credit
    runs,        \* uploads applied so far
    upload,      \* the run each session carries out; fresh while its check still holds
    restated     \* history: batches whose quantity was asserted again

migrationVars == <<imported, card, store, shelf, ledger, sold, runs, upload, restated>>

-----------------------------------------------------------------------------
(* The chart of accounts *)

DEFAULT_ACCOUNTS ==
    [cash |-> "asset", bank |-> "asset", receivable |-> "asset", inventory |-> "asset",
     payable |-> "liability", vat |-> "liability", capital |-> "equity",
     revenue |-> "revenue", discount |-> "revenue", cogs |-> "expense"]

Account == DOMAIN DEFAULT_ACCOUNTS

cash_or_bank(method) == IF method = "cash" THEN "cash" ELSE "bank"

\* An entry: what it debits to the accounts it names, a credit being negative.
Sides(items) == [a \in Account |-> IF a \in DOMAIN items THEN items[a] ELSE 0]

SumOf(entry) == SumFunctionOnSet(entry, Account)

\* add_entry_no_commit: a side is posted when it is above zero, and a credit (or a
\* debit) below zero is dropped like one of zero.
Kept(amount) == AtLeast(amount, 0)

\* The sides that are kept are two at least, and balance.
Accepted(entry) ==
    /\ Cardinality({a \in Account : entry[a] # 0}) >= 2
    /\ SumOf(entry) = 0

TotalOf(type) == SumFunctionOnSet(ledger, {a \in Account : DEFAULT_ACCOUNTS[a] = type})

NetProfit == -TotalOf("revenue") - TotalOf("expense")

IsBalanced == TotalOf("asset") = -TotalOf("liability") - TotalOf("equity") + NetProfit

-----------------------------------------------------------------------------
(* What the rows post *)

\* _post_invoice: revenue, and no cost: nothing left the shelf.
SaleEntry(r) ==
    Sides([receivable |-> Kept(r.total), discount |-> Kept(r.extra),
           revenue |-> -Kept(r.sub), vat |-> -Kept(r.tax)])

\* _post_purchase: cost, and no inventory.
PurchaseEntry(r) ==
    Sides([cogs |-> Kept(r.sub + r.extra), vat |-> Kept(r.tax), payable |-> -Kept(r.total)])

Control(side) == IF side = "customer" THEN "receivable" ELSE "payable"

\* Money in from a customer, or out to a supplier.
Settled(side, sum, method) ==
    LET in == IF side = "customer" THEN Kept(sum) ELSE -Kept(sum) IN
    [a \in Account |-> CASE a = cash_or_bank(method) -> in [] a = Control(side) -> -in [] OTHER -> 0]

SettledOn(r)  == Settled(r.side, r.paid, r.method)
VoucherEntry(v) == Settled(v.side, v.sum, v.method)

StockValue(f) == SumFunctionOnSet([r \in f.stock |-> r.qty * r.cost], f.stock)

OpeningEntry(f) == Sides([inventory |-> Kept(StockValue(f)), capital |-> -Kept(StockValue(f))])

On(side, rows) == {r \in rows : r.side = side}

\* What each sheet moves on an account: _create_invoices, _create_payments,
\* _create_purchase_invoices, _create_supplier_payments, _post_opening_inventory.
SalesPost(f, a) ==
    LET rows == On("customer", f.invoices) IN
    SumFunctionOnSet([r \in rows |-> SaleEntry(r)[a] + SettledOn(r)[a]], rows)

ReceiptsPost(f, a) ==
    LET rows == On("customer", f.vouchers) IN
    SumFunctionOnSet([v \in rows |-> VoucherEntry(v)[a]], rows)

PurchasesPost(f, a) ==
    LET rows == On("supplier", f.invoices) IN
    SumFunctionOnSet([r \in rows |-> PurchaseEntry(r)[a] + SettledOn(r)[a]], rows)

PaymentsPost(f, a) ==
    LET rows == On("supplier", f.vouchers) IN
    SumFunctionOnSet([v \in rows |-> VoucherEntry(v)[a]], rows)

Posts(f, a) ==
    SalesPost(f, a) + ReceiptsPost(f, a) + PurchasesPost(f, a) + PaymentsPost(f, a)
    + OpeningEntry(f)[a]

\* Every entry is one the ledger takes; a payment and a stock of nothing post none.
AllAccepted(f) ==
    /\ \A r \in On("customer", f.invoices) : Accepted(SaleEntry(r))
    /\ \A r \in On("supplier", f.invoices) : Accepted(PurchaseEntry(r))
    /\ \A r \in f.invoices : r.paid > 0 => Accepted(SettledOn(r))
    /\ \A v \in f.vouchers : Accepted(VoucherEntry(v))
    /\ StockValue(f) > 0 => Accepted(OpeningEntry(f))

-----------------------------------------------------------------------------
(* The check *)

Apart(a, b) == IF a > b THEN a - b ELSE b - a

\* _reject_duplicates, and one row per batch of a warehouse.
NothingTwice(f) ==
    /\ \A r, q \in f.invoices : r.side = q.side /\ r.ref = q.ref => r = q
    /\ \A r, q \in f.vouchers : r.side = q.side /\ r.ref = q.ref => r = q
    /\ \A r, q \in f.cards : r.side = q.side /\ r.name = q.name => r = q
    /\ \A r, q \in f.stock : r.batch = q.batch => r = q

OnCard(f, side, name) ==
    card[side][name].there \/ \E r \in f.cards : r.side = side /\ r.name = name

\* Every sku, customer and supplier a row names is in the file or in the system.
NamesKnown(f) ==
    /\ \A r \in f.invoices : OnCard(f, r.side, r.party) /\ OnCard(f, "product", r.sku)
    /\ \A v \in f.vouchers : OnCard(f, v.side, v.party)
    /\ \A r \in f.stock : OnCard(f, "product", BatchOf[r.batch])

RefsOn(side, rows) == {r.ref : r \in On(side, rows)}

NoneImported(side, f) ==
    /\ RefsOn(side, f.invoices) \cap RefsOn(side, imported.invoices) = {}
    /\ RefsOn(side, f.vouchers) \cap RefsOn(side, imported.vouchers) = {}

\* _reject_already_imported, and _reject_already_imported_purchases.
FreshSales(f)     == NoneImported("customer", f)
FreshPurchases(f) == NoneImported("supplier", f)

\* Fault: the write relies on what the check had read.
Unindexed(f) == TRUE
UniqueRefs(f) == FreshSales(f) /\ FreshPurchases(f)

\* Neither more nor less than its lines, and no more paid than billed.
OfItsLines(r) ==
    /\ r.lines # {} /\ Apart(SumFunctionOnSet([l \in r.lines |-> l], r.lines), r.sub) <= TOLERANCE
    /\ r.paid >= 0 /\ r.paid - r.total <= TOLERANCE

\* A sale subtracts its discount, a purchase adds its shipping.
SaleAgrees(r)     == OfItsLines(r) /\ Apart(r.sub - r.extra + r.tax, r.total) <= TOLERANCE
PurchaseAgrees(r) == OfItsLines(r) /\ Apart(r.sub + r.extra + r.tax, r.total) <= TOLERANCE

\* A cell that is missing where one is required, that is not of its kind, or that
\* repeats the heading of its column.
CellIssue(c) == c.text \in {"odd", "heading"} \/ (c.required /\ c.text \in {"absent", "blank"})

WellTyped(f) == \A c \in f.cells : ~CellIssue(c)

Validated(f) ==
    /\ WellTyped(f) /\ NothingTwice(f) /\ NamesKnown(f) /\ FreshSales(f) /\ FreshPurchases(f)
    /\ \A r \in On("customer", f.invoices) : SaleAgrees(r)
    /\ \A r \in On("supplier", f.invoices) : PurchaseAgrees(r)
    /\ \A r \in f.stock : r.qty >= 0
    /\ \A v \in f.vouchers : v.sum > 0

-----------------------------------------------------------------------------
(* Applying it *)

\* _upsert_warehouses: those the products, stock and sales sheets name.
StoresNamed(f) == {r.store : r \in f.stock \cup On("customer", f.invoices)}

StoresAfter(f) == store \cup (StoresNamed(f) \ {"blank"})

\* A purchase names a warehouse that exists by now; a sale takes any there is.
StoresFound(f) ==
    /\ \A r \in On("supplier", f.invoices) : r.store \in StoresAfter(f) \cup {"blank"}
    /\ f.invoices # {} => StoresAfter(f) # {}

\* is_active left blank is yes; for a supplier that exists it is NULL, which the
\* column refuses.
ActiveIsKnown(f) ==
    \A r \in f.cards : r.active = "blank" => ~(r.side = "supplier" /\ card[r.side][r.name].there)

CardFrom(r) == [there |-> TRUE, opening |-> r.opening, active |-> r.active # "no"]

Upserted(f) ==
    [side \in DOMAIN card |->
        [n \in Name |->
            LET rows == {r \in f.cards : r.side = side /\ r.name = n} IN
            IF rows = {} THEN card[side][n] ELSE CardFrom(CHOOSE r \in rows : TRUE)]]

\* _upsert_opening_stock: an assertion of fact.
Asserted(f) ==
    LET of(b) == {r \in f.stock : r.batch = b} IN
    [b \in DOMAIN shelf \cup {r.batch : r \in f.stock} |->
        IF of(b) = {} THEN shelf[b]
        ELSE LET r == CHOOSE r \in of(b) : TRUE IN [qty |-> r.qty, cost |-> r.cost]]

Applies(f) ==
    StoresFound(f) /\ ActiveIsKnown(f) /\ UniqueRefs(f) /\ AllAccepted(f)

NoUpload == [file |-> 0, fresh |-> FALSE]

Outdated(s) == [r \in Session |-> IF r = s THEN NoUpload ELSE [upload[r] EXCEPT !.fresh = FALSE]]

MigrationInit ==
    /\ imported = [invoices |-> {}, vouchers |-> {}]
    /\ card = [side \in {"customer", "supplier", "product"} |->
                 [n \in Name |-> [there |-> FALSE, opening |-> 0, active |-> FALSE]]]
    /\ store = {}
    /\ shelf = [b \in {} |-> [qty |-> 0, cost |-> 0]]
    /\ ledger = [a \in Account |-> 0]
    /\ sold = 0 /\ runs = 0
    /\ upload = [s \in Session |-> NoUpload]
    /\ restated = {}

\* run() up to the end of _validate; a dry run stops here.
Check(s, u) ==
    /\ upload[s] = NoUpload
    /\ Validated(Upload[u])
    /\ upload' = [upload EXCEPT ![s] = [file |-> u, fresh |-> TRUE]]
    /\ UNCHANGED <<imported, card, store, shelf, ledger, sold, runs, restated>>

\* _apply, in one transaction.
Apply(s) ==
    /\ upload[s] # NoUpload /\ runs < MaxRuns
    /\ runs' = runs + 1
    /\ LET f == Upload[upload[s].file] IN
       /\ Applies(f)
       /\ imported' = [invoices |-> imported.invoices \cup f.invoices,
                       vouchers |-> imported.vouchers \cup f.vouchers]
       /\ card' = Upserted(f)
       /\ store' = StoresAfter(f)
       /\ shelf' = Asserted(f)
       /\ ledger' = [a \in Account |-> ledger[a] + Posts(f, a)]
       /\ restated' = restated \cup {r.batch : r \in {q \in f.stock : q.batch \in DOMAIN shelf}}
    /\ upload' = Outdated(s)
    /\ UNCHANGED sold

\* A dry run, a refusal of the write, a crash: nothing is kept.
AbortUpload(s) ==
    /\ upload[s] # NoUpload
    /\ upload' = [upload EXCEPT ![s] = NoUpload]
    /\ UNCHANGED <<imported, card, store, shelf, ledger, sold, runs, restated>>

\* The new system sells a piece on credit (_post_invoice_entries).
SellPiece(b) ==
    /\ sold < MaxSales
    /\ b \in DOMAIN shelf /\ shelf[b].qty > 0
    /\ sold' = sold + 1
    /\ shelf' = [shelf EXCEPT ![b].qty = @ - 1]
    /\ ledger' = [ledger EXCEPT !["receivable"] = @ + Price, !["revenue"] = @ - Price,
                                !["cogs"] = @ + Kept(shelf[b].cost),
                                !["inventory"] = @ - Kept(shelf[b].cost)]
    /\ UNCHANGED <<imported, card, store, runs, upload, restated>>

MigrationNext ==
    \/ \E s \in Session : Apply(s) \/ AbortUpload(s) \/ \E u \in DOMAIN Upload : Check(s, u)
    \/ \E b \in Batch : SellPiece(b)

MigrationSpec == MigrationInit /\ [][MigrationNext]_migrationVars

-----------------------------------------------------------------------------
(* Properties *)

\* customer_balance and supplier_balance, of what was imported, but for the opening
\* balance of the card, which the ledger never sees.
InvoicedTo(side, n) ==
    LET rows == {r \in On(side, imported.invoices) : r.party = n} IN
    SumFunctionOnSet([r \in rows |-> r.total - r.paid], rows)

PaidBy(side, n) ==
    LET rows == {v \in On(side, imported.vouchers) : v.party = n} IN
    SumFunctionOnSet([v \in rows |-> v.sum], rows)

OwedTo(side) == SumFunctionOnSet([n \in Name |-> InvoicedTo(side, n) - PaidBy(side, n)], Name)

ShelfValue == SumFunctionOnSet([b \in DOMAIN shelf |-> shelf[b].qty * shelf[b].cost], DOMAIN shelf)

\* A header with a total below zero: within TOLERANCE of nothing, the check lets it in.
BelowZero(side) == \E r \in On(side, imported.invoices) : r.total < 0

CostBelowZero == \E b \in DOMAIN shelf : shelf[b].cost < 0

\* A header of amounts above zero whose total is what they add up to, to the piastre.
Exact(r) ==
    /\ {r.sub, r.extra, r.tax, r.total} \subseteq Nat /\ r.sub + r.tax > 0
    /\ IF r.side = "customer" THEN r.total + r.extra = r.sub + r.tax
                              ELSE r.total = r.sub + r.extra + r.tax

\* What the check passed is applied, if nothing was written since (_message: "ready to
\* import"); but for a header that is not exact, a warehouse only a purchase names, and
\* a supplier sent again with is_active blank.
PassedApplies ==
    \A s \in Session : upload[s].fresh =>
        LET f == Upload[upload[s].file] IN
        StoresFound(f) /\ ActiveIsKnown(f) /\ (\A r \in f.invoices : Exact(r)) => Applies(f)

\* The balance sheet balances, the accounts of customers and suppliers are the sum of
\* their statements less the opening balances (unless a total below zero was let in,
\* which the ledger drops and the statement counts), and the inventory is what the
\* shelf is worth unless a count was uploaded again or has a cost below zero: whatever
\* is uploaded, twice or at once, beside the sales.
BooksFollowDocuments ==
    /\ IsBalanced
    /\ ~BelowZero("customer") => ledger["receivable"] = OwedTo("customer") + Price * sold
    /\ ~BelowZero("supplier") => ledger["payable"] = -OwedTo("supplier")
    /\ restated = {} /\ ~CostBelowZero => ledger["inventory"] = ShelfValue
    /\ PassedApplies
    /\ NothingTwice([invoices |-> imported.invoices, vouchers |-> imported.vouchers,
                     cards |-> {}, stock |-> {}])

\* Claim (_reject_already_imported: "Re-uploading a file must not double the books").
InventoryIsTheShelf == ~CostBelowZero => ledger["inventory"] = ShelfValue

=============================================================================
