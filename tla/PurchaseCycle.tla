--------------------------- MODULE PurchaseCycle ---------------------------
(***************************************************************************)
(* Buying from one supplier: the order, the deliveries received against it *)
(* (each a purchase invoice), what goes back, what the till and the        *)
(* vouchers pay, and expenses, which wait at the same till.                *)
(*                                                                         *)
(* A request loads its document and writes later; only the batches are     *)
(* locked.  A column is written when it differs from what was loaded.  A   *)
(* unit costs 1, so a document's total is its units.                       *)
(***************************************************************************)
EXTENDS Requests, Functions

CONSTANTS
    Line,       \* order lines: one product each, received into one batch each
    Ordered,    \* quantities an order may be written with
    Doc,        \* ids of purchase_invoices and expenses: bound on either
    Deliveries, \* what a delivery may list: sequences of <<line, quantity>>
    MaxSold,    \* bound: goods sold
    MaxVoucher, \* bound: supplier payments
    MaxEdits,   \* bound: edits of one invoice
    Trades      \* what a session may do: functions from sessions to operations

ASSUME PurchaseAssumption ==
    /\ IsFiniteSet(Line) /\ Line # {}   \* an order without lines is refused
    /\ Ordered \subseteq [Line -> Nat \ {0}]
    /\ IsFiniteSet(Doc) /\ Doc \subseteq Nat \ {0} /\ {MaxSold, MaxVoucher, MaxEdits} \subseteq Nat
    /\ \A d \in Deliveries : d \in Seq(Line \X (Nat \ {0}))

VARIABLES
    order,      \* the purchase order: status, quantities, how often it was rewritten
    received,   \* received_quantity of its lines
    doc,        \* purchase_invoices and expenses
    returned,   \* purchase_return_lines of an invoice
    vouchers,   \* supplier_payments
    stock,      \* product_batches
    payable,    \* account 2010
    sold,       \* counts the goods sold
    trade,      \* what each session does in this behaviour
    counter,    \* the request each session carries out
    crossed,    \* history: what two requests had loaded at once
    doubled,    \* history: a delivery named an order line twice
    amended     \* history: documents edited or deleted

tradeRows == <<order, received, doc, returned, vouchers, stock, payable, sold>>
tradeVars == <<tradeRows, trade, counter, crossed, doubled, amended>>

PurchaseOrderStatus == {"draft", "sent", "partially_received", "received", "cancelled"}

Nothing == [l \in Line |-> 0]

NoDoc == [kind |-> "none", method |-> "cash", goods |-> Nothing, total |-> 0, paid |-> 0,
          confirmed |-> FALSE, ordered |-> FALSE, rev |-> 0]

ThePO == 0   \* the order, where a document's id is expected

NoDeal == [op |-> "none", id |-> ThePO, order |-> [status |-> "draft", lines |-> Nothing, rev |-> 0],
           got |-> Nothing, doc |-> NoDoc, back |-> Nothing, balance |-> 0]

TradeInit ==
    /\ order \in [status : {"draft"}, lines : Ordered, rev : {0}]
    /\ received = Nothing
    /\ doc = [i \in Doc |-> NoDoc]
    /\ returned = [i \in Doc |-> Nothing]
    /\ vouchers = 0 /\ stock = Nothing /\ payable = 0 /\ sold = 0
    /\ trade \in Trades
    /\ counter = [s \in Session |-> NoDeal]
    /\ crossed = {} /\ doubled = FALSE /\ amended = {}

-----------------------------------------------------------------------------
(* Figures *)

Units(q) == SumFunctionOnSet(q, Line)

Plus(q, r)  == [l \in Line |-> q[l] + r[l]]
Minus(q, r) == [l \in Line |-> q[l] - r[l]]
Fits(q, r)  == \A l \in Line : q[l] <= r[l]

Of(d, l) == SumFunction([k \in DOMAIN d |-> IF d[k][1] = l THEN d[k][2] ELSE 0])

\* What a delivery lists, summed per line.
Listed(d) == [l \in Line |-> Of(d, l)]

\* Fault: only what is outstanding on the whole order is looked at.
WithinOrder(d, lines, got) == Units(Listed(d)) <= Units(Minus(lines, got))
\* receive_order: each listed quantity alone against the outstanding one of its line.
EachFits(d, lines, got) == \A k \in DOMAIN d : d[k][2] <= lines[d[k][1]] - got[d[k][1]]

Added(got, d)   == Plus(got, Listed(d))

StatusAfter(lines, got) == IF Fits(lines, got) THEN "received" ELSE "partially_received"

\* Fault: an edit leaves the goods it replaces in their batches.
PutOnTop(old, new) == Plus(stock, new)
Rebuilt(old, new)  == Plus(Minus(stock, old), new)

Returnable(q, l, back)  == q[l] - back[l]

PaidFull(d, n)  == d.paid + n >= d.total

\* supplier_balance
Balance ==
    SumFunction([i \in Doc |-> IF doc[i].kind = "purchase"
                               THEN doc[i].total - doc[i].paid - Units(returned[i]) ELSE 0])
    - vouchers

UnpaidExpenses ==
    SumFunction([i \in Doc |-> IF doc[i].kind = "expense" THEN doc[i].total - doc[i].paid ELSE 0])

\* A column keeps what another request wrote when this one did not change it.
Written(now, loaded, new) == IF new = loaded THEN now ELSE new

-----------------------------------------------------------------------------
(* Sessions *)

Free(s) == counter[s] = NoDeal

At(s, op) == counter[s].op = op

Deal(s, k) == counter' = [counter EXCEPT ![s] = k]

Loads(s, op, id) ==
    /\ Free(s) /\ op \in trade[s]
    /\ crossed' = IF \E r \in Session \ {s} : ~Free(r) /\ counter[r].id = id
                  THEN crossed \cup {id} ELSE crossed
    /\ UNCHANGED <<tradeRows, trade, doubled, amended>>

Same(rest) == UNCHANGED <<trade, crossed, rest>>

AbortDeal(s) ==
    /\ ~Free(s) /\ Deal(s, NoDeal)
    /\ UNCHANGED <<tradeRows, trade, crossed, doubled, amended>>

-----------------------------------------------------------------------------
(* The order *)

\* Which status each handler asks for.
May(op) ==
    [send    |-> {"draft"}, rewrite |-> {"draft"},
     call_off |-> {"draft", "sent", "partially_received"},
     receive |-> {"sent", "partially_received"}][op]

\* get_order and the look at the status.
LoadOrder(s, op) ==
    /\ order.status \in May(op)
    /\ Loads(s, op, ThePO)
    /\ Deal(s, [NoDeal EXCEPT !.op = op, !.order = order, !.got = received])

\* send_order, and cancel_order under another name.
WriteStatus(s) ==
    /\ counter[s].op \in {"send", "call_off"}
    /\ order' = [order EXCEPT !.status = IF At(s, "send") THEN "sent" ELSE "cancelled"]
    /\ Deal(s, NoDeal)
    /\ UNCHANGED <<received, doc, returned, vouchers, stock, payable, sold>>
    /\ Same(<<doubled, amended>>)

\* update_order: new rows replace the lines.
UpdateOrder(s, lines) ==
    /\ At(s, "rewrite")
    /\ order' = [order EXCEPT !.lines = lines, !.rev = 1]
    /\ received' = Nothing
    /\ Deal(s, NoDeal)
    /\ UNCHANGED <<doc, returned, vouchers, stock, payable, sold>>
    /\ Same(<<doubled, amended>>)

NewDoc == NextId([i \in Doc |-> doc[i].kind], Doc, "none")

\* receive_order, through create_invoice; lines that were rewritten are gone.
ReceiveOrder(s, d, method) ==
    /\ At(s, "receive")
    /\ LET k == counter[s] IN
       /\ EachFits(d, k.order.lines, k.got)
       /\ order.rev = k.order.rev
       /\ NewDoc # 0
       /\ doc' = [doc EXCEPT ![NewDoc] =
                    [NoDoc EXCEPT !.kind = "purchase", !.method = method, !.goods = Listed(d),
                                  !.total = Units(Listed(d)), !.confirmed = method = "credit",
                                  !.ordered = TRUE]]
       /\ received' = [l \in Line |-> Written(received[l], k.got[l], Added(k.got, d)[l])]
       /\ order' = [order EXCEPT !.status =
                      Written(@, k.order.status, StatusAfter(k.order.lines, Added(k.got, d)))]
       /\ doubled' = (doubled \/ \E x, y \in DOMAIN d : x # y /\ d[x][1] = d[y][1])
    /\ stock' = Plus(stock, Listed(d))
    /\ payable' = payable + Units(Listed(d))
    /\ Deal(s, NoDeal)
    /\ UNCHANGED <<returned, vouchers, sold>> /\ Same(amended)

-----------------------------------------------------------------------------
(* Purchase invoices and expenses *)

\* create_expense of one unit of money.
CreateExpense ==
    /\ \E s \in Session : "expense" \in trade[s]
    /\ NewDoc # 0
    /\ doc' = [doc EXCEPT ![NewDoc] = [NoDoc EXCEPT !.kind = "expense", !.total = 2]]
    /\ payable' = payable + 2
    /\ UNCHANGED <<order, received, returned, vouchers, stock, sold, counter>>
    /\ Same(<<doubled, amended>>)

\* get_invoice or get_expense, with what was returned so far.
LoadDoc(s, i, op) ==
    /\ doc[i].kind \in (IF op = "pay" THEN {"purchase", "expense"} ELSE {"purchase"})
    /\ op = "pay" => doc[i].method # "credit" /\ ~doc[i].confirmed
    /\ Loads(s, op, i)
    /\ Deal(s, [NoDeal EXCEPT !.op = op, !.id = i, !.doc = doc[i], !.back = returned[i]])

\* update_invoice of the quantities and the method; returns and payments are not
\* looked at.  It takes back the lines it loaded: beside those another edit has put
\* there since, its own come on top.
UpdateInvoice(s, goods, method) ==
    /\ At(s, "edit")
    /\ LET i == counter[s].id
           old == counter[s].doc IN
       /\ doc[i].kind = "purchase" /\ doc[i].rev < MaxEdits
       /\ Fits(old.goods, stock)
       /\ stock' = Rebuilt(old.goods, goods)
       /\ doc' = [doc EXCEPT ![i] = [doc[i] EXCEPT
                    !.goods = IF doc[i].rev = old.rev THEN goods ELSE Plus(@, goods),
                    !.total = Units(goods), !.rev = @ + 1,
                    !.method = Written(@, old.method, method),
                    !.paid = Written(@, old.paid, 0),
                    !.confirmed = Written(@, old.confirmed, method = "credit")]]
       /\ payable' = payable - doc[i].total + Units(goods)
       /\ amended' = amended \cup {i}
    /\ Deal(s, NoDeal)
    /\ UNCHANGED <<order, received, returned, vouchers, sold>> /\ Same(doubled)

\* delete_invoice: purchase_returns hold on to their invoice.
DeleteInvoice(s) ==
    /\ At(s, "delete")
    /\ LET i == counter[s].id
           old == counter[s].doc IN
       /\ doc[i].kind = "purchase"
       /\ Fits(old.goods, stock) /\ returned[i] = Nothing
       /\ stock' = Minus(stock, old.goods)
       /\ doc' = [doc EXCEPT ![i] = [NoDoc EXCEPT !.kind = "deleted"]]
       /\ payable' = payable - doc[i].total
       /\ amended' = amended \cup {i}
    /\ Deal(s, NoDeal)
    /\ UNCHANGED <<order, received, returned, vouchers, sold>> /\ Same(doubled)

\* create_return of n units of a line: the goods go back, at what was billed.
ReturnGoods(s, l, n) ==
    /\ At(s, "return")
    /\ LET k == counter[s] IN
       /\ n <= Returnable(k.doc.goods, l, k.back)
       /\ doc[k.id].kind = "purchase" /\ stock[l] >= n
       /\ returned' = [returned EXCEPT ![k.id][l] = @ + n]
       /\ stock' = [stock EXCEPT ![l] = @ - n]
       /\ payable' = payable - n
    /\ Deal(s, NoDeal)
    /\ UNCHANGED <<order, received, doc, vouchers, sold>> /\ Same(<<doubled, amended>>)

\* pay_purchase_invoice and pay_expense.
PayDoc(s, n) ==
    /\ At(s, "pay")
    /\ LET i == counter[s].id
           old == counter[s].doc IN
       /\ n <= old.total - old.paid
       /\ doc[i].kind \in {"purchase", "expense"}
       /\ doc' = [doc EXCEPT ![i] = [doc[i] EXCEPT !.paid = old.paid + n,
                                                  !.confirmed = @ \/ PaidFull(old, n)]]
    /\ payable' = payable - n
    /\ Deal(s, NoDeal)
    /\ UNCHANGED <<order, received, returned, vouchers, stock, sold>>
    /\ Same(<<doubled, amended>>)

\* create_payment: the balance is read ...
LoadBalance(s) ==
    /\ Loads(s, "voucher", ThePO)
    /\ Deal(s, [NoDeal EXCEPT !.op = "voucher", !.balance = Balance])

\* ... and the voucher written.
PaySupplier(s, n) ==
    /\ At(s, "voucher")
    /\ n <= counter[s].balance /\ vouchers + n <= MaxVoucher
    /\ vouchers' = vouchers + n
    /\ payable' = payable - n
    /\ Deal(s, NoDeal)
    /\ UNCHANGED <<order, received, doc, returned, stock, sold>> /\ Same(<<doubled, amended>>)

SellGoods(l) ==
    /\ stock[l] > 0 /\ sold < MaxSold
    /\ stock' = [stock EXCEPT ![l] = @ - 1]
    /\ sold' = sold + 1
    /\ UNCHANGED <<order, received, doc, returned, vouchers, payable, counter>>
    /\ Same(<<doubled, amended>>)

-----------------------------------------------------------------------------
TradeNext ==
    \/ CreateExpense
    \/ \E l \in Line : SellGoods(l)
    \/ \E s \in Session :
          \/ AbortDeal(s) \/ WriteStatus(s) \/ DeleteInvoice(s) \/ LoadBalance(s)
          \/ \E op \in {"send", "rewrite", "call_off", "receive"} : LoadOrder(s, op)
          \/ \E lines \in Ordered : UpdateOrder(s, lines)
          \/ \E d \in Deliveries, method \in {"cash", "credit"} : ReceiveOrder(s, d, method)
          \/ \E i \in Doc, op \in {"edit", "delete", "return", "pay"} : LoadDoc(s, i, op)
          \/ \E goods \in Ordered : UpdateInvoice(s, goods, "cash")
          \/ \E l \in Line, n \in 1..2 : ReturnGoods(s, l, n)
          \/ \E n \in 1..2 : PayDoc(s, n)
          \/ \E n \in 1..2 : PaySupplier(s, n)

TradeSpec == TradeInit /\ [][TradeNext]_tradeVars

-----------------------------------------------------------------------------
(* Properties *)

Purchases == {i \in Doc : doc[i].kind = "purchase"}

Invoiced(l) == SumFunction([i \in Doc |-> IF doc[i].ordered THEN doc[i].goods[l] ELSE 0])

\* Rows keep their shape, no batch goes below zero, and only what is paid in full
\* counts as paid, but for edits and two tills at one document.
TradeTypeOK ==
    /\ order.status \in PurchaseOrderStatus
    /\ received \in [Line -> Nat] /\ stock \in [Line -> Nat]
    /\ \A i \in Doc : /\ doc[i].method = "credit" => doc[i].confirmed
                      /\ i \notin crossed /\ doc[i].method = "cash" /\ doc[i].kind # "none"
                         => doc[i].confirmed = (doc[i].paid >= doc[i].total /\ doc[i].total > 0)
    /\ \A s \in Session : counter[s].id \in Doc \cup {ThePO}

\* The order says what its deliveries brought (receive_order: "the order only tracks how
\* much of each line has now arrived"), unless two requests had it, or a delivery was
\* edited or deleted: neither tells the order.
ReceivedAsInvoiced ==
    ThePO \in crossed \/ amended # {}
        \/ \A l \in Line : received[l] = Invoiced(l)

\* No more arrives than was ordered, unless one delivery names a line twice or two
\* deliveries were received at once.
ReceivedWithinOrdered ==
    ThePO \in crossed \/ doubled \/ amended # {}
        \/ \A l \in Line : Invoiced(l) <= order.lines[l]

\* The order is closed when all of it has arrived and not before, for the same cases.
ClosedWhenComplete ==
    ThePO \in crossed \/ (order.status = "received") = Fits(order.lines, received)

\* No more goes back to the supplier than an invoice brought, unless two returns of it,
\* or a return and an edit, ran at once, or it was edited after the return.
ReturnedWithinReceived ==
    \A i \in Doc \ (crossed \cup amended) : Fits(returned[i], doc[i].goods)

\* Goods on the shelf are what the invoices brought less what went back and was sold,
\* however returns, receipts, sales and one edit race; two edits of one invoice both
\* take its first goods back.
ShelfIsAccounted ==
    crossed \cap amended # {}
    \/ Units(stock) + sold = SumFunction([i \in Doc |-> Units(doc[i].goods) - Units(returned[i])])

\* Account 2010 owes what the supplier's statement and the open expenses say, unless an
\* invoice was edited or deleted (its payments stay in the ledger and leave the
\* statement), or two requests had one document.
PayableAgrees ==
    crossed \cap Doc # {} \/ amended # {}
        \/ payable = Balance + UnpaidExpenses

\* A purchase order says what was ordered, what arrived, and whether that is all of it.
OrderIsTrue == TradeTypeOK /\ ReceivedAsInvoiced /\ ReceivedWithinOrdered /\ ClosedWhenComplete

\* The shelf, the invoices, what went back and what is owed are one account.
GoodsAndMoneyAgree == ReturnedWithinReceived /\ ShelfIsAccounted /\ PayableAgrees
=============================================================================
