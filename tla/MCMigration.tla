---------------------------- MODULE MCMigration ----------------------------
EXTENDS Migration

Cell(text)  == [required |-> TRUE, text |-> text]
Spare(text) == [required |-> FALSE, text |-> text]

Blank == [cells |-> {Cell("good"), Spare("blank")}, invoices |-> {}, vouchers |-> {}, cards |-> {}, stock |-> {}]

Shop(opening)       == [side |-> "customer", name |-> "n", opening |-> opening, active |-> "yes"]
Factory(active)     == [side |-> "supplier", name |-> "n", opening |-> 0, active |-> active]
Goods               == [side |-> "product", name |-> "n", opening |-> 0, active |-> "blank"]
Sale(total)         == [side |-> "customer", ref |-> 1, party |-> "n", sku |-> "n", sub |-> 10,
                        extra |-> 2, tax |-> 1, total |-> total, paid |-> 4, method |-> "cash",
                        lines |-> {10}, store |-> "old"]
Waived              == [Sale(-1) EXCEPT !.ref = 3, !.extra = 11, !.paid = 0]
Nothing             == [Sale(0) EXCEPT !.ref = 4, !.sub = 0, !.extra = 0, !.tax = 0, !.paid = 0,
                                       !.lines = {0}]
Purchase(where)     == [side |-> "supplier", ref |-> 1, party |-> "n", sku |-> "n", sub |-> 6,
                        extra |-> 1, tax |-> 1, total |-> 8, paid |-> 3, method |-> "card",
                        lines |-> {4, 3}, store |-> where]
Voucher(side)       == [side |-> side, ref |-> 1, party |-> "n", sum |-> 2, method |-> "bank"]
Count(qty, cost)    == [batch |-> 1, store |-> "old", qty |-> qty, cost |-> cost]

\* The whole history; the count alone, and counted again; each side's papers alone, in
\* a warehouse nobody knows, by a supplier whose card is sent again; a header that is
\* one piastre off, one piastre below zero, or all zeros; a cost below zero; cells left
\* blank or misspelt.
MCUpload ==
    <<[Blank EXCEPT !.cards = {Shop(5), Factory("yes"), Goods}, !.stock = {Count(2, 3)},
                    !.invoices = {Sale(9), Purchase("blank")}, !.vouchers = {Voucher("customer")}],
      [Blank EXCEPT !.cards = {Goods}, !.stock = {Count(2, 3)}],
      [Blank EXCEPT !.stock = {Count(3, 3)}],
      [Blank EXCEPT !.cards = {Shop(0)}, !.invoices = {Sale(9)}],
      [Blank EXCEPT !.cards = {Factory("blank")}, !.invoices = {Purchase("new")}],
      [Blank EXCEPT !.cards = {Factory("blank")}, !.vouchers = {Voucher("supplier")}],
      [Blank EXCEPT !.cards = {Shop(0)}, !.invoices = {[Sale(10) EXCEPT !.ref = 2]}],
      [Blank EXCEPT !.cards = {Shop(0)}, !.vouchers = {Voucher("customer")}],
      [Blank EXCEPT !.cards = {Shop(0), Goods}, !.invoices = {Waived}, !.stock = {Count(1, -3)}],
      [Blank EXCEPT !.cards = {Shop(0)}, !.invoices = {Nothing}],
      [Blank EXCEPT !.cards = {Goods}, !.cells = {Cell("blank")}],
      [Blank EXCEPT !.cards = {Goods}, !.cells = {Spare("odd")}]>>
MCBatchOf == [b \in {1} |-> "n"]
=============================================================================
