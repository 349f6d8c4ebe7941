---------------------------- MODULE Receivables ----------------------------
(***************************************************************************)
(* What one customer owes: invoices, the till, credit notes, the credits   *)
(* they raise, receipts.                                                   *)
(*                                                                         *)
(* A session is one request and one transaction.  Its statements run one   *)
(* at a time between those of other sessions; each sees what is committed  *)
(* when it runs (READ COMMITTED), and a loaded entity keeps the attributes *)
(* it was loaded with.  The last step of a request flushes and commits;    *)
(* its UPDATE of an invoice waits for a session that holds the row.        *)
(*                                                                         *)
(* Money is in the smallest unit.  An invoice sells one product, its lines *)
(* one batch each.  The sums the code asks of the posted credit notes of   *)
(* an invoice are kept in back[i]; the entries of the receivables account  *)
(* are kept by the document they refer to, so that the account and the     *)
(* customer's statement can be compared document by document.  The entries *)
(* of type "sales_invoice" are replaced with the document they bill and    *)
(* are left out.                                                           *)
(*                                                                         *)
(* Every invoice is picked up at the warehouse, so that no trip's stop     *)
(* depends on it; a card payment is a cash payment; the customer starts    *)
(* with no balance and no overdue invoice, and nobody overrides the limit. *)
(***************************************************************************)
EXTENDS Integers, Sequences, FiniteSets, Functions

CONSTANTS
    Session,      \* requests in flight
    Invoice,      \* ids of sales_invoices, in the order they are issued
    Note,         \* ids of sales_returns, in the order they are issued
    Batch,        \* ids of product_batches
    Bill,         \* the documents a client may post or edit an invoice into
    Opening,      \* Opening[i]: the document of an invoice at the start, or None
    CreditLimit,  \* the customer's credit_limit
    Amount,       \* what may be paid at once
    MaxTaken,     \* bound: cash the till takes for one invoice
    Duties,       \* Duties[s]: the operations session s carries out
    None, Deleted

Operation == {"invoice", "update", "delete", "return", "cancel",
              "collect", "receipt", "resolve", "refund"}

Method == {"cash", "credit"}   \* CARD is treated as CASH everywhere

Document == [method : Method, lines : Seq([batch : Batch, n : Nat \ {0}]),
             price : Nat \ {0}, subtotal : Nat, vat : Nat, discount : Nat]

ASSUME DocumentAssumption ==
    /\ Invoice \subseteq Nat /\ IsFiniteSet(Invoice)
    /\ Note \subseteq Nat /\ IsFiniteSet(Note)
    /\ Bill \subseteq Document
    /\ Opening \in [Invoice -> Bill \cup {None}]
    /\ None \notin Bill /\ Deleted \notin Bill /\ None # Deleted
    /\ None \notin Session /\ None \notin Invoice /\ None \notin Note
    /\ CreditLimit \in Nat
    /\ Amount \subseteq Nat \ {0} /\ MaxTaken \in Nat

\* Editing and deleting are a manager's; two managers editing one invoice at
\* the same moment are outside the model.
ASSUME DutyAssumption ==
    /\ Duties \in [Session -> SUBSET Operation]
    /\ \A s, t \in Session : 
          Duties[s] \cap {"update", "delete"} # {} /\ Duties[t] \cap {"update", "delete"} # {}
             => s = t

VARIABLES
    bill,       \* bill[i]: the document, None before it is issued, Deleted after
    paid,       \* paid_amount
    confirmed,  \* payment_confirmed_at is not null
    held,       \* the session that holds the invoice row
    back,       \* sums over the posted credit notes of an invoice
    note,       \* sales_returns
    claimed,    \* the session that holds the credit note's row
    credit,     \* customer_credits, by the note that raised it
    received,   \* sum of customer_payments
    taken,      \* till: cash in, and the entry against the receivable, by invoice
    paidOut,    \* till: cash out, and the entry against the receivable, by credit
    entered,    \* the entries of a credit note and of its cancellation, by note
    req,        \* the request each session carries out
    balance     \* what a session has added up of customer_balance

documents == <<bill, paid, confirmed, back>>
notes     == <<note, credit>>
books     == <<received, taken, paidOut, entered>>
locks     == <<held, claimed>>
vars      == <<documents, notes, books, locks, req, balance>>

NoUnits == [b \in Batch |-> 0]

Nothing == [units |-> NoUnits, sub |-> 0, discount |-> 0, total |-> 0]

Unwritten == [invoice |-> None, status |-> "none", units |-> NoUnits,
              sub |-> 0, discount |-> 0, total |-> 0]

Idle == [op |-> "none", at |-> "idle", invoice |-> None, note |-> None, bill |-> None,
         paid |-> 0, confirmed |-> FALSE, was |-> "none",
         asked |-> 0, left |-> 0, line |-> 1, seen |-> NoUnits, take |-> NoUnits,
         term |-> 1, sum |-> 0, over |-> 0]

Init ==
    /\ bill = Opening
    /\ paid = [i \in Invoice |-> 0]
    /\ confirmed = [i \in Invoice |-> Opening[i] # None /\ Opening[i].method = "credit"]
    /\ held = [i \in Invoice |-> None]
    /\ back = [i \in Invoice |-> Nothing]
    /\ note = [n \in Note |-> Unwritten]
    /\ claimed = [n \in Note |-> None]
    /\ credit = [n \in Note |-> [state |-> "none", amount |-> 0]]
    /\ received = 0
    /\ taken = [i \in Invoice |-> 0]
    /\ paidOut = [n \in Note |-> 0]
    /\ entered = [n \in Note |-> 0]
    /\ req = [s \in Session |-> Idle]
    /\ balance = [s \in Session |-> 0]

-----------------------------------------------------------------------------
(* Figures *)

Total(d) == d.subtotal + d.vat - d.discount

Live(i) == bill[i] \in Bill

\* quantize(TWO_PLACES, ROUND_HALF_UP) of a quotient of naturals
RoundHalfUp(a, b) == (2 * a + b) \div (2 * b)

Lesser(a, b) == IF a <= b THEN a ELSE b
Greater(a, b) == IF a >= b THEN a ELSE b

\* Fault: each note rounds its own share, as if nothing had been returned before.
DiscountShareAlone(d, prior, sub) ==
    IF d.discount = 0 \/ d.subtotal = 0 THEN 0
    ELSE RoundHalfUp(d.discount * sub, d.subtotal)

\* _returned_discount_share: what the discount comes to on the goods returned
\* up to and including these, less what earlier notes took of it.
DiscountShare(d, prior, sub) ==
    IF d.discount = 0 \/ d.subtotal = 0 THEN 0
    ELSE LET target == RoundHalfUp(d.discount * (prior.sub + sub), d.subtotal)
         IN  Greater(Lesser(target, d.discount) - prior.discount, 0)

\* The tax on returned goods: the invoice's own rate, rounded on each note.
TaxShare(d, sub) ==
    IF d.vat = 0 \/ d.subtotal = 0 THEN 0 ELSE RoundHalfUp(sub * d.vat, d.subtotal)

\* What the invoice's columns add to the balance; one being edited has been
\* flushed as zero, but for a paid_amount that was zero when it was loaded.
Owing(s, i) ==
    IF req[s].op = "update" /\ req[s].invoice = i
    THEN IF req[s].paid = 0 THEN -paid[i] ELSE 0
    ELSE Total(bill[i]) - paid[i]

\* What has been credited back, and what has been paid out again.
Returned == SumFunction([i \in Invoice |-> back[i].total])

PaidBack ==
    SumFunction([n \in Note |-> IF credit[n].state = "refunded" THEN credit[n].amount ELSE 0])

\* customer_balance, SELECT by SELECT.
BalanceTerm(s, k) ==
    CASE k = 1 -> SumFunction([i \in Invoice |-> IF Live(i) THEN Owing(s, i) ELSE 0])
      [] k = 2 -> -Returned
      [] k = 3 -> -received
      [] k = 4 -> PaidBack

\* The next id of a sequence, among those the instance has left.
IsNext(x, unused) == x \in unused /\ \A y \in unused : x <= y

-----------------------------------------------------------------------------
(* The life of a request. *)

Doing(s, op, at) == req[s].op = op /\ req[s].at = at

Start(s, op) == req[s].at = "idle" /\ op \in Duties[s]

Goes(s, r) == req' = [req EXCEPT ![s] = r]

Release(s) ==
    /\ held' = [i \in Invoice |-> IF held[i] = s THEN None ELSE held[i]]
    /\ claimed' = [n \in Note |-> IF claimed[n] = s THEN None ELSE claimed[n]]

\* The commit, or the rollback, ends the request.
End(s) == Release(s) /\ Goes(s, Idle) /\ balance' = [balance EXCEPT ![s] = 0]

\* A validation refuses the request, the connection drops, the server dies.
Abort(s) ==
    /\ req[s].at # "idle"
    /\ End(s)
    /\ UNCHANGED <<documents, notes, books>>

\* An invoice row may be updated: nobody else has locked it.
Writable(s, i) == held[i] \in {None, s}

ReadBalance(s) ==
    /\ req[s].at = "balance"
    /\ LET k == req[s].term IN
       /\ balance' = [balance EXCEPT ![s] = @ + BalanceTerm(s, k)]
       /\ Goes(s, [req[s] EXCEPT !.term = k + 1, !.at = IF k = 4 THEN "post" ELSE "balance"])
    /\ UNCHANGED <<documents, notes, books, locks>>

\* Fault: the invoice being issued is left out of the comparison.
WithinLimitBefore(s, d) == d.method = "credit" => balance[s] <= CreditLimit

\* _check_credit_limit, of a request that does not ask for an override.
WithinLimit(s, d) == d.method = "credit" => balance[s] + Total(d) <= CreditLimit

AfterPricing(d) == IF d.method = "credit" THEN "balance" ELSE "post"

-----------------------------------------------------------------------------
(* create_invoice, update_invoice, delete_invoice *)

BeginInvoice(s) ==
    /\ Start(s, "invoice")
    /\ \E d \in Bill :
          Goes(s, [Idle EXCEPT !.op = "invoice", !.bill = d, !.at = AfterPricing(d)])
    /\ UNCHANGED <<documents, notes, books, locks, balance>>

PostInvoice(s) ==
    /\ Doing(s, "invoice", "post")
    /\ WithinLimit(s, req[s].bill)
    /\ \E i \in Invoice :
          /\ IsNext(i, {j \in Invoice : bill[j] = None})
          /\ bill' = [bill EXCEPT ![i] = req[s].bill]
          /\ confirmed' = [confirmed EXCEPT ![i] = req[s].bill.method = "credit"]
    /\ End(s)
    /\ UNCHANGED <<paid, back, notes, books>>

\* Load the invoice, its paid_amount and its confirmation.
Load(s, op, i) == [Idle EXCEPT !.op = op, !.invoice = i,
                               !.paid = paid[i], !.confirmed = confirmed[i]]

BeginEdit(s) ==
    /\ \E i \in {j \in Invoice : Live(j)} :
          \/ /\ Start(s, "update")
             /\ \E d \in Bill :
                   Goes(s, [Load(s, "update", i) EXCEPT !.bill = d, !.at = "count"])
          \/ /\ Start(s, "delete")
             /\ Goes(s, [Load(s, "delete", i) EXCEPT !.at = "count"])
    /\ UNCHANGED <<documents, notes, books, locks, balance>>

\* Fault: the returns are not counted.
CountReturnsSkipped(s) ==
    /\ req[s].at = "count"
    /\ Goes(s, [req[s] EXCEPT !.at = IF req[s].op = "update" THEN "reset" ELSE "post"])
    /\ UNCHANGED <<documents, notes, books, locks, balance>>

\* SELECT count(*) of the posted returns: neither may be done over one.
CountReturns(s) ==
    /\ req[s].at = "count"
    /\ \A n \in Note : ~(note[n].invoice = req[s].invoice /\ note[n].status = "posted")
    /\ Goes(s, [req[s] EXCEPT !.at = IF req[s].op = "update" THEN "reset" ELSE "post"])
    /\ UNCHANGED <<documents, notes, books, locks, balance>>

\* The zeroed columns are flushed, which takes the row.
ResetInvoice(s) ==
    /\ Doing(s, "update", "reset")
    /\ Live(req[s].invoice) /\ Writable(s, req[s].invoice)
    /\ held' = [held EXCEPT ![req[s].invoice] = s]
    /\ Goes(s, [req[s] EXCEPT !.at = AfterPricing(req[s].bill)])
    /\ UNCHANGED <<documents, notes, books, claimed, balance>>

\* An attribute set to the value it was loaded with is not written.
RepostInvoice(s) ==
    /\ Doing(s, "update", "post")
    /\ WithinLimit(s, req[s].bill)
    /\ LET i == req[s].invoice
           r == req[s]
       IN  /\ bill' = [bill EXCEPT ![i] = r.bill]
           /\ paid' = [paid EXCEPT ![i] = IF r.paid = 0 THEN @ ELSE 0]
           /\ confirmed' = [confirmed EXCEPT ![i] =
                               r.bill.method = "credit" \/ (@ /\ ~r.confirmed)]
    /\ End(s)
    /\ UNCHANGED <<back, notes, books>>

\* The foreign keys of sales_returns and customer_credits refuse the DELETE
\* while any note of the invoice exists, cancelled ones included.
DeleteInvoice(s) ==
    /\ Doing(s, "delete", "post")
    /\ LET i == req[s].invoice
       IN  /\ Live(i) /\ Writable(s, i)
           /\ \A n \in Note : note[n].invoice # i
           /\ bill' = [bill EXCEPT ![i] = Deleted]
           /\ paid' = [paid EXCEPT ![i] = 0]
           /\ confirmed' = [confirmed EXCEPT ![i] = FALSE]
    /\ End(s)
    /\ UNCHANGED <<back, notes, books>>

-----------------------------------------------------------------------------
(* create_return *)

\* Fault: the invoice is loaded without locking its row.
BeginReturnUnlocked(s) ==
    /\ Start(s, "return")
    /\ \E i \in {j \in Invoice : Live(j)} : \E q \in 1..bill[i].subtotal \div bill[i].price :
          Goes(s, [Load(s, "return", i) EXCEPT !.at = "lines", !.asked = q, !.left = q,
                                               !.seen = back[i].units])
    /\ UNCHANGED <<documents, notes, books, locks, balance>>

\* The invoice row is locked, then loaded, and the quantities already returned
\* are read.
BeginReturn(s) ==
    /\ Start(s, "return")
    /\ \E i \in {j \in Invoice : Live(j) /\ held[j] = None} :
          /\ held' = [held EXCEPT ![i] = s]
          /\ \E q \in 1..bill[i].subtotal \div bill[i].price :
                Goes(s, [Load(s, "return", i) EXCEPT !.at = "lines", !.asked = q, !.left = q,
                                                     !.seen = back[i].units])
    /\ UNCHANGED <<documents, notes, books, claimed, balance>>

\* Fault: a line gives back all it may, whatever is left to give back.
ReturnLineWhole(s) ==
    /\ Doing(s, "return", "lines")
    /\ LET r  == req[s]
           ls == bill[r.invoice].lines
       IN  /\ r.left > 0 /\ r.line <= Len(ls)
           /\ LET b    == ls[r.line].batch
                  take == Greater(ls[r.line].n - r.seen[b], 0)
              IN  Goes(s, [r EXCEPT !.line = @ + 1, !.left = @ - take,
                                    !.seen[b] = @ + take, !.take[b] = @ + take])
    /\ UNCHANGED <<documents, notes, books, locks, balance>>

\* One invoice line gives back to its batch what it may.
ReturnLine(s) ==
    /\ Doing(s, "return", "lines")
    /\ LET r  == req[s]
           ls == bill[r.invoice].lines
       IN  /\ r.left > 0 /\ r.line <= Len(ls)
           /\ LET b    == ls[r.line].batch
                  take == Greater(Lesser(ls[r.line].n - r.seen[b], r.left), 0)
              IN  Goes(s, [r EXCEPT !.line = @ + 1, !.left = @ - take,
                                    !.seen[b] = @ + take, !.take[b] = @ + take])
    /\ UNCHANGED <<documents, notes, books, locks, balance>>

\* The note's discount, from the notes posted when it is asked for.
PriceReturn(s) ==
    /\ Doing(s, "return", "lines")
    /\ req[s].left = 0
    /\ LET d == bill[req[s].invoice] IN
       Goes(s, [req[s] EXCEPT !.at = "weigh",
                !.sum = DiscountShare(d, back[req[s].invoice], req[s].asked * d.price)])
    /\ UNCHANGED <<documents, notes, books, locks, balance>>

NoteTotal(s) ==
    LET d   == bill[req[s].invoice]
        sub == req[s].asked * d.price
    IN  sub + TaxShare(d, sub) - req[s].sum

\* Fault: only this note is weighed, not the ones before it.
WeighReturnAlone(s) ==
    /\ Doing(s, "return", "weigh")
    /\ Goes(s, [req[s] EXCEPT !.at = "post",
                !.over = req[s].paid - (Total(bill[req[s].invoice]) - NoteTotal(s))])
    /\ UNCHANGED <<documents, notes, books, locks, balance>>

\* What the customer has now paid too much, the note included.
WeighReturn(s) ==
    /\ Doing(s, "return", "weigh")
    /\ LET i == req[s].invoice IN
       Goes(s, [req[s] EXCEPT !.at = "post",
                !.over = req[s].paid - (Total(bill[i]) - (back[i].total + NoteTotal(s)))])
    /\ UNCHANGED <<documents, notes, books, locks, balance>>

Added(sums, n, sign) ==
    [units    |-> [b \in Batch |-> sums.units[b] + sign * n.units[b]],
     sub      |-> sums.sub + sign * n.sub,
     discount |-> sums.discount + sign * n.discount,
     total    |-> sums.total + sign * n.total]

PostReturn(s) ==
    /\ Doing(s, "return", "post")
    /\ \E n \in Note :
          /\ IsNext(n, {m \in Note : note[m].status = "none"})
          /\ LET i == req[s].invoice
                 x == [invoice |-> i, status |-> "posted", units |-> req[s].take,
                       sub |-> req[s].asked * bill[i].price,
                       discount |-> req[s].sum, total |-> NoteTotal(s)]
             IN  /\ note' = [note EXCEPT ![n] = x]
                 /\ back' = [back EXCEPT ![i] = Added(@, x, 1)]
                 /\ entered' = [entered EXCEPT ![n] = @ + x.total]
          /\ credit' = IF req[s].over > 0
                       THEN [credit EXCEPT ![n] = [state |-> "pending", amount |-> req[s].over]]
                       ELSE credit
    /\ End(s)
    /\ UNCHANGED <<bill, paid, confirmed, received, taken, paidOut>>

-----------------------------------------------------------------------------
(* cancel_return *)

\* The note's row is locked before its status is read.
BeginCancel(s) ==
    /\ Start(s, "cancel")
    /\ \E n \in Note :
          /\ claimed[n] = None
          /\ note[n].status = "posted"
          /\ claimed' = [claimed EXCEPT ![n] = s]
          /\ Goes(s, [Idle EXCEPT !.op = "cancel", !.note = n, !.at = "credit"])
    /\ UNCHANGED <<documents, notes, books, held, balance>>

\* Fault: a credit already paid out does not stop the cancellation.
ReadCreditAny(s) ==
    /\ Doing(s, "cancel", "credit")
    /\ Goes(s, [req[s] EXCEPT !.at = "post", !.was = credit[req[s].note].state])
    /\ UNCHANGED <<documents, notes, books, locks, balance>>

\* The credit the note raised is loaded: once paid out it stands.
ReadCredit(s) ==
    /\ Doing(s, "cancel", "credit")
    /\ credit[req[s].note].state # "refunded"
    /\ Goes(s, [req[s] EXCEPT !.at = "post", !.was = credit[req[s].note].state])
    /\ UNCHANGED <<documents, notes, books, locks, balance>>

CancelNote(s) ==
    /\ Doing(s, "cancel", "post")
    /\ LET n == req[s].note
           x == note[n]
       IN  /\ note' = [note EXCEPT ![n].status = "cancelled"]
           /\ back' = [back EXCEPT ![x.invoice] = Added(@, x, -1)]
           /\ entered' = [entered EXCEPT ![n] = @ - x.total]
           /\ credit' = [credit EXCEPT ![n].state =
                            IF req[s].was = "none" THEN @ ELSE "deleted"]
    /\ End(s)
    /\ UNCHANGED <<bill, paid, confirmed, received, taken, paidOut>>

-----------------------------------------------------------------------------
(* resolve_customer_credit, refund_customer_credit *)

BeginResolve(s) ==
    /\ Start(s, "resolve")
    /\ \E n \in Note :
          /\ credit[n].state = "pending"
          /\ Goes(s, [Idle EXCEPT !.op = "resolve", !.note = n, !.at = "post"])
    /\ UNCHANGED <<documents, notes, books, locks, balance>>

\* The UPDATE of a row that has been deleted fails the request.
ResolveCredit(s) ==
    /\ Doing(s, "resolve", "post")
    /\ credit[req[s].note].state # "deleted"
    /\ \E r \in {"awaiting_refund", "credited"} :
          credit' = [credit EXCEPT ![req[s].note].state = r]
    /\ End(s)
    /\ UNCHANGED <<documents, note, books>>

BeginRefund(s) ==
    /\ Start(s, "refund")
    /\ \E n \in Note :
          /\ credit[n].state = "awaiting_refund"
          /\ Goes(s, [Idle EXCEPT !.op = "refund", !.note = n, !.at = "post"])
    /\ UNCHANGED <<documents, notes, books, locks, balance>>

RefundCredit(s) ==
    /\ Doing(s, "refund", "post")
    /\ LET n == req[s].note
       IN  /\ credit[n].state # "deleted"
           /\ credit' = [credit EXCEPT ![n].state = "refunded"]
           /\ paidOut' = [paidOut EXCEPT ![n] = @ + credit[n].amount]
    /\ End(s)
    /\ UNCHANGED <<documents, note, received, taken, entered>>

-----------------------------------------------------------------------------
(* collect_payment, create_payment *)

BeginCollect(s) ==
    /\ Start(s, "collect")
    /\ \E i \in {j \in Invoice : Live(j)} :
          /\ bill[i].method = "cash" /\ ~confirmed[i]
          /\ Goes(s, [Load(s, "collect", i) EXCEPT !.bill = bill[i], !.at = "returned"])
    /\ UNCHANGED <<documents, notes, books, locks, balance>>

\* sum is net_billed: the invoice as loaded, less what has been credited back.
ReadReturned(s) ==
    /\ Doing(s, "collect", "returned")
    /\ Goes(s, [req[s] EXCEPT !.at = "post",
                              !.sum = Total(req[s].bill) - back[req[s].invoice].total])
    /\ UNCHANGED <<documents, notes, books, locks, balance>>

\* Fault: paid_amount is set to the amount just taken.
CollectPaymentAnew(s) ==
    /\ Doing(s, "collect", "post")
    /\ LET i == req[s].invoice
       IN  /\ Live(i) /\ Writable(s, i)
           /\ \E amount \in Amount :
                 /\ amount <= req[s].sum - req[s].paid
                 /\ taken[i] + amount <= MaxTaken
                 /\ paid' = [paid EXCEPT ![i] = amount]
                 /\ confirmed' = [confirmed EXCEPT ![i] = @ \/ amount >= req[s].sum]
                 /\ taken' = [taken EXCEPT ![i] = @ + amount]
    /\ End(s)
    /\ UNCHANGED <<bill, back, notes, received, paidOut, entered>>

CollectPayment(s) ==
    /\ Doing(s, "collect", "post")
    /\ LET i == req[s].invoice
       IN  /\ Live(i) /\ Writable(s, i)
           /\ \E amount \in Amount :
                 /\ amount <= req[s].sum - req[s].paid
                 /\ taken[i] + amount <= MaxTaken
                 /\ paid' = [paid EXCEPT ![i] = req[s].paid + amount]
                 /\ confirmed' = [confirmed EXCEPT ![i] = @ \/ req[s].paid + amount >= req[s].sum]
                 /\ taken' = [taken EXCEPT ![i] = @ + amount]
    /\ End(s)
    /\ UNCHANGED <<bill, back, notes, received, paidOut, entered>>

BeginReceipt(s) ==
    /\ Start(s, "receipt")
    /\ Goes(s, [Idle EXCEPT !.op = "receipt", !.at = "balance"])
    /\ UNCHANGED <<documents, notes, books, locks, balance>>

CreatePayment(s) ==
    /\ Doing(s, "receipt", "post")
    /\ \E amount \in Amount : amount <= balance[s] /\ received' = received + amount
    /\ End(s)
    /\ UNCHANGED <<documents, notes, taken, paidOut, entered>>

-----------------------------------------------------------------------------

Step(s) ==
    \/ ReadBalance(s)
    \/ BeginInvoice(s) \/ PostInvoice(s)
    \/ BeginEdit(s) \/ CountReturns(s) \/ ResetInvoice(s)
    \/ RepostInvoice(s) \/ DeleteInvoice(s)
    \/ BeginReturn(s) \/ ReturnLine(s) \/ PriceReturn(s) \/ WeighReturn(s) \/ PostReturn(s)
    \/ BeginCancel(s) \/ ReadCredit(s) \/ CancelNote(s)
    \/ BeginResolve(s) \/ ResolveCredit(s)
    \/ BeginRefund(s) \/ RefundCredit(s)
    \/ BeginCollect(s) \/ ReadReturned(s) \/ CollectPayment(s)
    \/ BeginReceipt(s) \/ CreatePayment(s)
    \/ Abort(s)

Next == \E s \in Session : Step(s)

Spec == Init /\ [][Next]_vars

-----------------------------------------------------------------------------
(* Properties *)

Units == [Batch -> Int]

Sums == [units : Units, sub : Int, discount : Int, total : Int]

Written == [invoice : Invoice \cup {None}, status : {"none", "posted", "cancelled"},
            units : [Batch -> Nat], sub : Int, discount : Int, total : Int]

CreditState == {"none", "pending", "awaiting_refund", "refunded", "credited", "deleted"}

Place == {"idle", "balance", "post", "count", "reset", "lines", "weigh", "credit", "returned"}

Carried == [op : Operation \cup {"none"}, at : Place, invoice : Invoice \cup {None},
            note : Note \cup {None}, bill : Bill \cup {None}, paid : Nat,
            confirmed : BOOLEAN, was : CreditState, asked : Nat, left : Nat, line : Nat \ {0},
            seen : Units, take : [Batch -> Nat], term : Nat, sum : Int, over : Int]

\* Every variable has its type (balance, a sum over documents, has none here):
\* no clerk pays or collects a negative amount, and a return gives back no more
\* than was asked.
TypeOK ==
    /\ bill \in [Invoice -> Bill \cup {None, Deleted}]
    /\ paid \in [Invoice -> Nat]
    /\ confirmed \in [Invoice -> BOOLEAN]
    /\ held \in [Invoice -> Session \cup {None}]
    /\ back \in [Invoice -> Sums]
    /\ note \in [Note -> Written]
    /\ claimed \in [Note -> Session \cup {None}]
    /\ credit \in [Note -> [state : CreditState, amount : Nat]]
    /\ received \in Nat
    /\ taken \in [Invoice -> Nat]
    /\ paidOut \in [Note -> Nat]
    /\ entered \in [Note -> Int]
    /\ req \in [Session -> Carried]

\* create_return: no batch takes back more of an invoice than one of its lines
\* sold, whatever returns and cancellations run beside it.
ReturnedWithinSold ==
    \A i \in Invoice, b \in Batch :
        back[i].units[b] > 0 =>
            /\ Live(i)
            /\ \E k \in DOMAIN bill[i].lines :
                  bill[i].lines[k].batch = b /\ back[i].units[b] <= bill[i].lines[k].n

\* create_return: when everything sold has come back, by however many notes and
\* with whichever of them cancelled and posted again, the customer has been
\* credited exactly what the invoice billed.
FullReturnCreditsWhatWasBilled ==
    \A i \in Invoice :
        Live(i) /\ back[i].sub = bill[i].subtotal => back[i].total = Total(bill[i])

\* customer_balance: the receivables account and the statement agree, document
\* by document, on what was collected, credited back and paid out.
StatementAgrees ==
    /\ \A i \in Invoice : taken[i] = IF Live(i) THEN paid[i] ELSE 0
    /\ \A n \in Note :
          /\ entered[n] = IF note[n].status = "posted" THEN note[n].total ELSE 0
          /\ paidOut[n] = IF credit[n].state = "refunded" THEN credit[n].amount ELSE 0

\* cancel_return: a note whose credit was paid out in cash stands.
RefundStands == \A n \in Note : paidOut[n] > 0 => note[n].status = "posted"

\* What an invoice has been paid above what it is worth net of returns.
Overpaid(i) == paid[i] - (Total(bill[i]) - back[i].total)

\* A credit the notes of an invoice have raised and that still stands, paid out
\* or not.
Stands(n, i) == note[n].invoice = i /\ credit[n].state \notin {"none", "deleted"}

Credited(i) == SumFunction([n \in Note |-> IF Stands(n, i) THEN credit[n].amount ELSE 0])

\* create_return, collect_payment: money a customer has paid too much on an
\* invoice is recorded as a credit to decide on.
OverpaymentIsOwed == \A i \in Invoice : Live(i) => Overpaid(i) <= Credited(i)

\* create_return: the credits of an invoice never exceed what was overpaid.
CreditsWithinOverpayment ==
    \A i \in Invoice : Live(i) => Credited(i) <= Greater(Overpaid(i), 0)

Due(i) == IF Live(i) THEN Total(bill[i]) - paid[i] ELSE 0

Balance == SumFunction([i \in Invoice |-> Due(i)]) - Returned - received + PaidBack

\* _check_credit_limit: an invoice on credit is never issued that takes the
\* balance beyond the limit.
WithinCreditLimit ==
    [][\A i \in Invoice :
           bill[i] = None /\ bill'[i] # None /\ bill'[i].method = "credit"
               => Balance' <= CreditLimit]_vars

\* update_invoice, delete_invoice: the document of an invoice with a posted
\* return never changes.
ReturnsFreezeInvoice ==
    [][\A n \in Note : note[n].status = "posted" =>
           bill'[note[n].invoice] = bill[note[n].invoice]]_vars
=============================================================================
