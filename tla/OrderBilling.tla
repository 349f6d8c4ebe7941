---------------------------- MODULE OrderBilling ----------------------------
(***************************************************************************)
(* What a customer asked for, and the invoice that answers it: orders from *)
(* the portal and quotations.                                              *)
(*                                                                         *)
(* A request loads the paper, looks at its status, and writes another one; *)
(* nothing locks the row.  Billing commits twice: the invoice first        *)
(* (create_invoice), the paper's status and link after.                    *)
(***************************************************************************)
EXTENDS Requests

CONSTANTS
    Paper,      \* ids of customer_orders and of sales_quotations
    Quotation,  \* those that are quotations
    Buyer,      \* the customers
    BuyerFor,   \* the customer a paper is for
    Bill,       \* ids of sales_invoices: bound on the invoices ever issued
    MAX_OPEN_ORDERS,
    Duties      \* what a session may do: functions from sessions to decisions

ASSUME BillingAssumption ==
    /\ Paper \subseteq Nat \ {0} /\ IsFiniteSet(Paper)
    /\ Quotation \subseteq Paper /\ BuyerFor \in [Paper -> Buyer]
    /\ Bill \subseteq Nat \ {0} /\ MAX_OPEN_ORDERS \in Nat \ {0}

VARIABLES
    paper,      \* status of a paper, and the invoice it is linked to
    bill,       \* the paper an invoice was issued for; the ids given and deleted
    expired,    \* quotations past valid_until
    duty,       \* what each session does in this behaviour
    desk,       \* the request each session carries out
    contested,  \* history: papers two requests had loaded at once
    cutShort,   \* history: papers whose link was never written, but the invoice was
    crowded     \* history: customers of whom two requests counted the orders at once

billingVars == <<paper, bill, expired, duty, desk, contested, cutShort, crowded>>

CustomerOrderStatus == {"pending", "confirmed", "invoiced", "cancelled"}

QuotationStatus == {"draft", "converted", "cancelled"}

\* The handlers that decide on a paper: what it may be, what they make of it.
Decisions ==
    [approve  |-> [from |-> {"pending"},              to |-> "confirmed"],
     reject   |-> [from |-> {"pending", "confirmed"}, to |-> "cancelled"],
     withdraw |-> [from |-> {"pending"},              to |-> "cancelled"],
     invoice  |-> [from |-> {"pending", "confirmed"}, to |-> "invoiced"],
     drop     |-> [from |-> {"draft"},                to |-> "cancelled"],
     convert  |-> [from |-> {"draft"},                to |-> "converted"]]

OnQuotations == {"drop", "convert"}

Billing == {"invoice", "convert"}

NoDesk == [op |-> "none", at |-> "idle", paper |-> 0, bill |-> 0]

BillingInit ==
    /\ paper = [p \in Paper |-> [status |-> "none", bill |-> 0]]
    /\ bill = [b \in Bill |-> 0]
    /\ expired = {}
    /\ duty \in Duties
    /\ desk = [s \in Session |-> NoDesk]
    /\ contested = {} /\ cutShort = {} /\ crowded = {}

-----------------------------------------------------------------------------
(* Guards, and what they would be with a plausible slip *)

PendingOf(c) == {p \in Paper \ Quotation : BuyerFor[p] = c /\ paper[p].status = "pending"}

FewEnough(c) == Cardinality(PendingOf(c)) < MAX_OPEN_ORDERS

\* Fault: an order that was billed may be refused.
AllowsLate(p, op) == paper[p].status \in Decisions[op].from \cup {"invoiced", "converted"}
Allows(p, op)     == paper[p].status \in Decisions[op].from

Unlinked(b) == \A p \in Paper : paper[p].bill # b

Loaded(s, p) == desk[s].paper = p

OthersHave(s, p) == \E r \in Session \ {s} : Loaded(r, p) /\ desk[r].at # "count"

\* The invoices that answer a paper and still exist.
BillsOf(p) == {b \in Bill : bill[b] = p}

-----------------------------------------------------------------------------
(* Papers are placed *)

\* place_order: the open orders are counted...
CountOrders(s, p) ==
    /\ desk[s] = NoDesk /\ "place" \in duty[s]
    /\ p \in Paper \ Quotation /\ paper[p].status = "none"
    /\ \A q \in Paper \ Quotation : paper[q].status = "none" => p <= q
    /\ FewEnough(BuyerFor[p])
    /\ desk' = [desk EXCEPT ![s] = [op |-> "place", at |-> "count", paper |-> p, bill |-> 0]]
    /\ UNCHANGED <<paper, bill, expired, contested, cutShort, crowded>>

\* ... and the order is filed, under the next id.
PlaceOrder(s) ==
    /\ desk[s].at = "count"
    /\ LET c == BuyerFor[desk[s].paper]
           free == {p \in Paper \ Quotation : BuyerFor[p] = c /\ paper[p].status = "none"} IN
       /\ free # {}
       /\ \E p \in free : /\ \A q \in free : p <= q
                          /\ paper' = [paper EXCEPT ![p].status = "pending"]
       /\ crowded' = IF \E r \in Session \ {s} : desk[r].at = "count"
                     THEN crowded \cup {c} ELSE crowded
    /\ desk' = [desk EXCEPT ![s] = NoDesk]
    /\ UNCHANGED <<bill, expired, contested, cutShort>>

CreateQuotation(p) ==
    /\ p \in Quotation /\ paper[p].status = "none"
    /\ \E s \in Session : "quote" \in duty[s]
    /\ paper' = [paper EXCEPT ![p].status = "draft"]
    /\ UNCHANGED <<bill, expired, desk, contested, cutShort, crowded>>

\* valid_until passes.
Expire(p) ==
    /\ p \in Quotation \ expired /\ paper[p].status = "draft"
    /\ expired' = expired \cup {p}
    /\ UNCHANGED <<paper, bill, desk, contested, cutShort, crowded>>

-----------------------------------------------------------------------------
(* Papers are decided on *)

\* _get, _own_order or get_quotation, and the look at the status.
LoadPaper(s, p, op) ==
    /\ desk[s] = NoDesk /\ op \in duty[s]
    /\ (p \in Quotation) = (op \in OnQuotations)
    /\ Allows(p, op)
    /\ op = "convert" => p \notin expired
    /\ desk' = [desk EXCEPT ![s] = [op |-> op, at |-> IF op \in Billing THEN "bill" ELSE "write",
                                    paper |-> p, bill |-> 0]]
    /\ contested' = IF OthersHave(s, p) THEN contested \cup {p} ELSE contested
    /\ UNCHANGED <<paper, bill, expired, cutShort, crowded>>

\* create_invoice commits: stock, postings and the invoice.
IssueInvoice(s) ==
    /\ desk[s].at = "bill"
    /\ LET b == NextId(bill, Bill, 0) IN
       /\ b # 0
       /\ bill' = [bill EXCEPT ![b] = desk[s].paper]
       /\ desk' = [desk EXCEPT ![s].bill = b, ![s].at = "write"]
    /\ UNCHANGED <<paper, expired, contested, cutShort, crowded>>

\* The status is written, whatever it is by now, and committed; the invoice linked
\* must still exist.
WriteDecision(s) ==
    /\ desk[s].at = "write"
    /\ LET k == desk[s] IN
       /\ k.op \in Billing => bill[k.bill] = k.paper
       /\ paper' = [paper EXCEPT ![k.paper] =
                      [status |-> Decisions[k.op].to,
                       bill |-> IF k.op \in Billing THEN k.bill ELSE @.bill]]
    /\ desk' = [desk EXCEPT ![s] = NoDesk]
    /\ UNCHANGED <<bill, expired, contested, cutShort, crowded>>

\* A refusal of create_invoice, a crash, a link to a row that is gone.
AbortDesk(s) ==
    /\ desk[s] # NoDesk
    /\ cutShort' = IF desk[s].bill # 0 THEN cutShort \cup {desk[s].paper} ELSE cutShort
    /\ desk' = [desk EXCEPT ![s] = NoDesk]
    /\ UNCHANGED <<paper, bill, expired, contested, crowded>>

\* delete_invoice: a foreign key holds the invoice of a linked paper.
DeleteBill(b) ==
    /\ bill[b] \in Paper /\ Unlinked(b)
    /\ bill' = [bill EXCEPT ![b] = -1]
    /\ UNCHANGED <<paper, expired, desk, contested, cutShort, crowded>>

-----------------------------------------------------------------------------
BillingStep ==
    \/ \E p \in Paper : CreateQuotation(p) \/ Expire(p)
    \/ \E b \in Bill : DeleteBill(b)
    \/ \E s \in Session :
          \/ PlaceOrder(s) \/ IssueInvoice(s) \/ WriteDecision(s) \/ AbortDesk(s)
          \/ \E p \in Paper :
                \/ CountOrders(s, p)
                \/ \E op \in DOMAIN Decisions : LoadPaper(s, p, op)

BillingNext == BillingStep /\ UNCHANGED duty

BillingSpec == BillingInit /\ [][BillingNext]_billingVars

-----------------------------------------------------------------------------
(* Properties *)

\* Papers, invoices and requests keep their shape; a link goes to an invoice
\* issued for that paper.
BillingTypeOK ==
    /\ \A p \in Paper :
          /\ paper[p].status \in {"none"} \cup IF p \in Quotation THEN QuotationStatus
                                               ELSE CustomerOrderStatus
          /\ paper[p].bill \in {0} \cup BillsOf(p)
    /\ \A b \in Bill : bill[b] \in Paper \cup {0, -1}
    /\ \A s \in Session : desk[s].paper \in Paper \cup {0} /\ desk[s].bill \in Bill \cup {0}
    /\ contested \cup cutShort \subseteq Paper /\ crowded \subseteq Buyer

Disturbed(p) == p \in contested \cup cutShort

\* One request of a customer is billed once (to_invoice: "a double-click cannot bill
\* a shop twice for one request"), unless two requests had loaded it, or one died
\* between its two commits.
OneInvoicePerRequest == \A p \in Paper : Cardinality(BillsOf(p)) <= 1 \/ Disturbed(p)

\* A paper says it was billed when there is an invoice for it, and only then; but for
\* the same windows and while the second commit is on its way.
BilledAsItSays ==
    \A p \in Paper :
        \/ Disturbed(p)
        \/ \E s \in Session : Loaded(s, p) /\ desk[s].bill # 0
        \/ (paper[p].status \in {"invoiced", "converted"}) = (BillsOf(p) # {})

\* An answer given to the customer is not taken back, but when two requests had
\* loaded the paper; approval alone may still become a refusal.
AnswerStands ==
    [][\A p \in Paper \ contested :
          /\ paper[p].status \in {"invoiced", "converted", "cancelled"} => paper'[p] = paper[p]
          /\ paper[p].status = "confirmed" => paper'[p].status # "pending"]_billingVars

\* A shop has MAX_OPEN_ORDERS requests waiting at most, unless it sent two at once.
OpenOrdersBounded ==
    \A c \in Buyer \ crowded : Cardinality(PendingOf(c)) <= MAX_OPEN_ORDERS

\* A request of a customer becomes one invoice and says so, whatever two requests do
\* that do not meet on it.
BilledOnce == BillingTypeOK /\ OneInvoicePerRequest /\ BilledAsItSays /\ OpenOrdersBounded
=============================================================================
