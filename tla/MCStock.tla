------------------------------ MODULE MCStock ------------------------------
(***************************************************************************)
(* Small instances of the stock: two products in the main warehouse        *)
(* (shelves 1 and 2) and the first of them in a second warehouse (shelf    *)
(* 3), where transfers put goods; shelf 0 is an empty product.             *)
(***************************************************************************)
EXTENDS StockRequests, TLC

SessionSymmetry == Permutations(Session)

Line(sh, n) == [shelf |-> sh, n |-> n]
Of(b, n) == [batch |-> b, n |-> n]

\* Batch 1 expires after batch 2 although it was received first; batch 5 has
\* expired; batches 6 and 7 are yet to be received and to be transferred; batch
\* 8 is empty.
MCBatch == 1..8
MCExpiry == <<9, 7, 8, 7, 4, 9, 9, 8>>
MCToday == 5
MCRowsOf == [sh \in 0..3 |-> <<{8}, {1, 2, 5}, {3, 6}, {4, 7}>>[sh + 1]]
MCTwin == [b \in MCBatch |-> IF b \in {1, 2} THEN <<7, 4>>[b] ELSE b]
MCOpening == <<2, 1, 2, 1, 1, 0, 0, 0>>
MCPresent == {1, 2, 3, 4, 5, 8}

\* Sales that meet each other and a write-off that is undone.
Sales == { CreateInvoice(<<Line(1, 2)>>),
           CreateInvoice(<<Line(2, 1)>>),
           CreateInvoice(<<Line(1, 1), Line(2, 1)>>),
           CreateInvoice(<<Line(2, 1), Line(1, 2)>>),
           CreateInvoice(<<Line(1, 1), Line(1, 1)>>),
           CancelAdjustment(<<Of(1, 1)>>) }

\* Every handler but cancel_adjustment; the goods transferred from shelf 1 go to
\* a warehouse where nobody else receives the same batch.
Locked == { CreateInvoice(<<Line(1, 2), Line(2, 1)>>),
            UpdateInvoice(<<Of(2, 1)>>, <<Line(1, 2)>>),
            DeleteInvoice(<<Of(3, 1), Of(1, 1)>>),
            CreateReturn(<<Of(2, 1)>>),
            CancelReturn(<<Of(3, 2), Of(2, 1)>>),
            CreateAdjustment(<<Of(5, 1), Of(1, 1)>>),
            PostStocktake(<<Of(1, -1), Of(2, 0), Of(3, 1)>>),
            ReceiveStock(Of(6, 1)),
            CreatePurchase(<<Of(6, 1), Of(2, 1)>>),
            UpdatePurchase(<<Of(2, 1)>>, <<Of(6, 2)>>),
            DeletePurchase(<<Of(3, 2)>>),
            ReturnPurchase(<<Of(1, 1)>>),
            TransferStock(Line(1, 1)),
            TransferStock(Line(1, 2)) }

\* A write-off is undone while the batch is sold from.
WriteOffUndone == { CancelAdjustment(<<Of(1, 1)>>), CreateInvoice(<<Line(1, 2)>>) }
=============================================================================
