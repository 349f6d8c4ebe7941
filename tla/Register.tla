------------------------------ MODULE Register ------------------------------
(***************************************************************************)
(* The register of regulated goods, per customer.  A register is a set of  *)
(* pointers to invoice lines: it owns no figure.  The sale that writes the *)
(* lines files them under the customer's open register, in its own         *)
(* transaction; closing a register opens the next.                         *)
(*                                                                         *)
(* Every request reads the register before it writes, and none locks it.   *)
(* Quantities are in thousandths, of one product.                          *)
(***************************************************************************)
EXTENDS Requests, Functions

CONSTANTS
    Client,     \* customers
    Record,     \* ids of rationed_records
    Invoice,    \* ids of sales_invoices
    Line,       \* ids of sales_invoice_lines: bound on the lines ever written
    Split,      \* how a sale may be split over batches: quantities of its lines
    Rate,       \* tax rates
    Tasks       \* what a session may do: functions from sessions to requests

ASSUME RegisterAssumption ==
    /\ Client \cup Record \cup Invoice \cup Line \subseteq Nat \ {0} /\ IsFiniteSet(Line)
    /\ \A q \in Split : q \in Seq(Nat \ {0})

VARIABLES
    record,     \* customer of a register, and whether it is open
    printed,    \* the rows of its taxes: a rate, and which writing put it there
    line,       \* invoice and quantity of a line; invoice 0 before, -1 after
    filed,      \* the register a line is filed under, 0 when it is not
    invoice,    \* customer of an invoice, and what came back on posted returns
    clerk,      \* the request each session carries out
    task,       \* what each session does in this behaviour
    late        \* history: registers closed or taxed while another request held them

registerVars == <<record, printed, line, filed, invoice, clerk, task, late>>

NoClerk == [op |-> "idle", client |-> 0, record |-> 0, target |-> 0, rows |-> <<>>, held |-> {}]

GoneLine == [invoice |-> -1, qty |-> 0]

NoInvoice == [client |-> 0, returned |-> 0]

NoRecord == [client |-> 0, at |-> "none"]

RegisterInit ==
    /\ record = [r \in Record |-> NoRecord]
    /\ printed = [r \in Record |-> {}]
    /\ line = [l \in Line |-> [invoice |-> 0, qty |-> 0]]
    /\ filed = [l \in Line |-> 0]
    /\ invoice = [i \in Invoice |-> NoInvoice]
    /\ clerk = [s \in Session |-> NoClerk]
    /\ task \in Tasks
    /\ late = {}

-----------------------------------------------------------------------------
(* Reading the register *)

OpenOf(c) == {r \in Record : record[r] = [client |-> c, at |-> "open"]}

LinesOf(i) == {l \in Line : line[l].invoice = i}

FiledIn(r) == {l \in Line : filed[l] = r}

SoldOn(ls) == SumFunctionOnSet([l \in Line |-> line[l].qty], ls)

\* quantize of a quotient, to the even neighbour at a tie
HalfEven(a, b) ==
    LET q == a \div b IN
    IF 2 * (a % b) > b \/ (2 * (a % b) = b /\ q % 2 = 1) THEN q + 1 ELSE q

\* Fault: the whole credit is taken off every line.
ShareWhole(l, ls) == invoice[line[l].invoice].returned

\* A return names a product of an invoice, not a line: its credit is shared by quantity
\* over the lines of that invoice this register holds.
ShareOf(l, ls) == HalfEven(invoice[line[l].invoice].returned * line[l].qty, SoldOn(ls))

\* What the declaration says of a line.
NetOf(l) ==
    LET ls == FiledIn(filed[l]) \cap LinesOf(line[l].invoice) IN
    AtLeast(line[l].qty - ShareOf(l, ls), 0)

-----------------------------------------------------------------------------
(* Sales and their corrections *)

NoneOpenFor(c)    == OpenOf(c) = {}

\* _open_record: the register the request had found, or a new one, which the partial
\* unique index refuses when there is an open one by now.
Settles(s, r) ==
    IF clerk[s].record # 0 THEN r = clerk[s].record
    ELSE NoneOpenFor(clerk[s].client) /\ r = NextId(record, Record, NoRecord)

Opened(r, c) ==
    IF record[r] = NoRecord THEN [record EXCEPT ![r] = [client |-> c, at |-> "open"]] ELSE record

SeenOpen(c) == IF OpenOf(c) = {} THEN 0 ELSE CHOOSE r \in OpenOf(c) : TRUE

\* The ids the next n lines get.
NextLines(n) ==
    LET free == {l \in Line : line[l].invoice = 0} IN
    {l \in free : Cardinality({m \in free : m <= l}) <= n}

\* create_invoice and update_invoice: the lines are built, the register is looked up.
\* An invoice with posted returns is not edited.
BuildSale(s, i, c, rows) ==
    /\ clerk[s] = NoClerk /\ (IF invoice[i] = NoInvoice THEN "create" ELSE "edit") \in task[s]
    /\ invoice[i] = NoInvoice \/ (invoice[i].client > 0 /\ invoice[i].returned = 0)
    /\ \A j \in Invoice : j < i => invoice[j] # NoInvoice
    /\ clerk' = [clerk EXCEPT ![s] = [op |-> IF invoice[i] = NoInvoice THEN "create" ELSE "edit",
                                      client |-> c, record |-> SeenOpen(c), target |-> i,
                                      rows |-> rows, held |-> LinesOf(i)]]
    /\ UNCHANGED <<record, printed, line, filed, invoice, late>>

\* tag_lines, and the commit.  An edit drops the lines it had loaded; the pointers to
\* them go too (ON DELETE CASCADE).
FileSale(s, r) ==
    LET k == clerk[s]
        new == NextLines(Len(k.rows))
        nth(l) == Cardinality({m \in new : m <= l}) IN
    /\ k.op \in {"create", "edit"}
    /\ k.op = "create" => invoice[k.target] = NoInvoice
    /\ k.op = "edit" => invoice[k.target].client > 0
    /\ Cardinality(new) = Len(k.rows) /\ Settles(s, r)
    /\ record' = Opened(r, k.client)
    /\ line' = [l \in Line |-> CASE l \in new -> [invoice |-> k.target, qty |-> k.rows[nth(l)]]
                                 [] l \in k.held -> GoneLine
                                 [] OTHER -> line[l]]
    /\ filed' = [l \in Line |-> IF l \in new THEN r ELSE IF l \in k.held THEN 0 ELSE filed[l]]
    /\ invoice' = [invoice EXCEPT ![k.target].client = k.client]
    /\ clerk' = [clerk EXCEPT ![s] = NoClerk]
    /\ UNCHANGED <<printed, late>>

\* delete_invoice
DeleteSale(i) ==
    /\ \E s \in Session : "delete" \in task[s]
    /\ invoice[i].client > 0 /\ invoice[i].returned = 0
    /\ invoice' = [invoice EXCEPT ![i].client = -1]
    /\ line' = [l \in Line |-> IF l \in LinesOf(i) THEN GoneLine ELSE line[l]]
    /\ filed' = [l \in Line |-> IF l \in LinesOf(i) THEN 0 ELSE filed[l]]
    /\ UNCHANGED <<record, printed, clerk, late>>

\* A return of one thousandth is posted, or cancelled.
PostReturn(i, by) ==
    /\ \E s \in Session : "return" \in task[s]
    /\ invoice[i].client > 0
    /\ invoice[i].returned + by \in 0..SoldOn(LinesOf(i))
    /\ invoice' = [invoice EXCEPT ![i].returned = @ + by]
    /\ UNCHANGED <<record, printed, line, filed, clerk, late>>

-----------------------------------------------------------------------------
(* The register's own requests *)

\* register_for: looking at it opens it.
ViewRegister(c) ==
    LET r == NextId(record, Record, NoRecord) IN
    /\ NoneOpenFor(c) /\ r # 0
    /\ record' = Opened(r, c)
    /\ UNCHANGED <<printed, line, filed, invoice, clerk, late>>

\* Fault: a closed register may be worked on.
IsAny(r)  == record[r].at # "none"
IsOpen(r) == record[r].at = "open"

\* untag, set_taxes and close: the register is read as open, and set_taxes deletes the
\* rows it finds...
LoadRegister(s, op, r, l, rates) ==
    /\ clerk[s] = NoClerk /\ op \in task[s] /\ IsOpen(r)
    /\ op = "untag" => filed[l] = r
    /\ op = "close" => FiledIn(r) # {}
    /\ clerk' = [clerk EXCEPT ![s] = [op |-> op, client |-> record[r].client, record |-> r,
                                      target |-> l, rows |-> rates, held |-> printed[r]]]
    /\ UNCHANGED <<record, printed, line, filed, invoice, late>>

\* ... and written later.
Untag(s) ==
    /\ clerk[s].op = "untag"
    /\ filed' = [filed EXCEPT ![clerk[s].target] = 0]
    /\ clerk' = [clerk EXCEPT ![s] = NoClerk]
    /\ UNCHANGED <<record, printed, line, invoice, late>>

Touched(s, rs) ==
    {r \in rs : \E t \in Session \ {s} : clerk[t].record = r}

\* A writing of taxes of a register that nobody holds a row of.
NextWriting(r) ==
    LET choosing == {s \in Session : clerk[s].op = "taxes" /\ clerk[s].record = r}
        used == {row[2] : row \in printed[r] \cup UNION {clerk[s].held : s \in choosing}} IN
    CHOOSE n \in 1..(Cardinality(used) + 1) : n \notin used

ReplaceTaxes(s, r) == (printed[r] \ clerk[s].held) \cup {<<t, NextWriting(r)>> : t \in clerk[s].rows}

SetTaxes(s) ==
    /\ clerk[s].op = "taxes"
    /\ printed' = [printed EXCEPT ![clerk[s].record] = ReplaceTaxes(s, clerk[s].record)]
    /\ late' = late \cup Touched(s, {clerk[s].record})
    /\ clerk' = [clerk EXCEPT ![s] = NoClerk]
    /\ UNCHANGED <<record, line, filed, invoice>>

\* The next register is the open one, or a new one; _carry_taxes_forward replaces its
\* taxes unless there are none to carry.
CloseRegister(s) ==
    LET k == clerk[s]
        r == k.record
        others == OpenOf(k.client) \ {r}
        next == IF others = {} THEN NextId(record, Record, NoRecord)
                ELSE CHOOSE n \in others : TRUE IN
    /\ k.op = "close" /\ next # 0
    /\ record' = [record EXCEPT ![r].at = "closed", ![next] = [client |-> k.client, at |-> "open"]]
    /\ printed' = IF printed[r] = {} THEN printed
                  ELSE [printed EXCEPT ![next] = {<<row[1], NextWriting(next)>> : row \in printed[r]}]
    /\ late' = late \cup Touched(s, {r, next})
    /\ clerk' = [clerk EXCEPT ![s] = NoClerk]
    /\ UNCHANGED <<line, filed, invoice>>

\* A refusal, a unique index, a crash: the whole request is undone, the sale with it.
AbortClerk(s) ==
    /\ clerk[s] # NoClerk
    /\ clerk' = [clerk EXCEPT ![s] = NoClerk]
    /\ UNCHANGED <<record, printed, line, filed, invoice, late>>

RegisterStep ==
    \/ \E c \in Client : ViewRegister(c)
    \/ \E i \in Invoice : DeleteSale(i) \/ PostReturn(i, 1) \/ PostReturn(i, -1)
    \/ \E s \in Session :
          \/ Untag(s) \/ SetTaxes(s) \/ CloseRegister(s) \/ AbortClerk(s)
          \/ \E r \in Record :
                \/ FileSale(s, r) \/ LoadRegister(s, "close", r, 0, {})
                \/ \E l \in Line : LoadRegister(s, "untag", r, l, {})
                \/ \E t \in SUBSET Rate : LoadRegister(s, "taxes", r, 0, t)
          \/ \E i \in Invoice, c \in Client, q \in Split : BuildSale(s, i, c, q)

RegisterNext == RegisterStep /\ UNCHANGED task

RegisterSpec == RegisterInit /\ [][RegisterNext]_registerVars

-----------------------------------------------------------------------------
(* Properties *)

OneOpenRegister == \A c \in Client : Cardinality(OpenOf(c)) <= 1

Distance(a, b) == IF a > b THEN a - b ELSE b - a

\* What a register declares of an invoice filed whole is what the shop kept, but for
\* the rounding of the shares.
NetsAddUp ==
    \A r \in Record, i \in Invoice :
        LET ls == LinesOf(i) IN
        ls # {} /\ ls \subseteq FiledIn(r) =>
            2 * Distance(SumFunction([l \in ls |-> NetOf(l)]),
                         AtLeast(SoldOn(ls) - invoice[i].returned, 0)) <= Cardinality(ls)

\* No tax is printed twice, unless two requests chose the taxes at once.
TaxesOnce == \A r \in Record \ late : \A a, b \in printed[r] : a[1] = b[1] => a = b

\* A customer accumulates in one register at a time, a line that is gone is declared
\* nowhere, and the declaration follows sales, returns and their corrections.
RegisterFollows ==
    /\ OneOpenRegister /\ NetsAddUp /\ TaxesOnce
    /\ \A l \in Line : filed[l] # 0 => line[l].invoice \in Invoice /\ record[filed[l]].at # "none"

\* What was declared stands: a closed register gains nothing, keeps its taxes, and loses
\* only the lines of an invoice that was corrected or deleted; unless a request held it
\* when it was closed (untag: "the paper and the system disagreeing").
Declared ==
    \A r \in Record \ late :
       record[r].at = "closed" =>
          /\ record'[r].at = "closed" /\ printed'[r] = printed[r]
          /\ FiledIn(r)' \subseteq FiledIn(r)
          /\ \A l \in FiledIn(r) \ FiledIn(r)' : line'[l].invoice = -1

DeclaredStands == [][Declared]_registerVars

=============================================================================
