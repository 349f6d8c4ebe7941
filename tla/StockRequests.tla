--------------------------- MODULE StockRequests ---------------------------
(***************************************************************************)
(* The handlers that move stock, each as the list of statements it runs    *)
(* against product_batches (see BatchStock), and the promise the requests  *)
(* keep together: ShelfLedger.                                             *)
(*                                                                         *)
(* A shelf is a (product, warehouse) pair; shelves are numbered in the     *)
(* order of sorted(pairs).  The lines of an existing document are          *)
(* [batch, n] records: the batch the goods came from and how many.         *)
(***************************************************************************)
EXTENDS BatchStock, SequencesExt

CONSTANT RowsOf   \* RowsOf[sh]: the batches of a shelf

Shelf == DOMAIN RowsOf

\* A batch lies on one shelf, and a statement asks for the rows of one.
ASSUME ShelfAssumption ==
    /\ \A sh \in Shelf : RowsOf[sh] \subseteq Batch /\ IsFiniteSet(RowsOf[sh])
    /\ \A sh, sg \in Shelf : sh # sg => RowsOf[sh] \cap RowsOf[sg] = {}
    /\ \A r \in Request : \A i \in 1..Len(r.steps) :
          \E sh \in Shelf : r.steps[i].rows \subseteq RowsOf[sh]

LockShelf(sh) == [op |-> "lock", rows |-> RowsOf[sh], n |-> 0]
Take(line)    == [op |-> "take", rows |-> RowsOf[line.shelf], n |-> line.n]
PutBack(line)     == [op |-> "change", rows |-> {line.batch}, n |-> line.n]
TakeOut(line)  == [op |-> "change", rows |-> {line.batch}, n |-> -line.n]
Receive(line) == [op |-> "receive", rows |-> {line.batch}, n |-> line.n]

Each(F(_), lines) == [i \in DOMAIN lines |-> F(lines[i])]

Locking(steps) == [preload |-> {}, steps |-> steps]

\* Fault: the shelves are locked in the order the lines were typed.
LockAsTyped(lines) == Each(LockShelf, [i \in DOMAIN lines |-> lines[i].shelf])

\* lock_batches_in_order: one statement per shelf, ascending.
LockInOrder(lines) ==
    Each(LockShelf, SetToSortSeq({lines[i].shelf : i \in DOMAIN lines}, LAMBDA x, y : x < y))

\* _build_lines: every lock the invoice needs, then each line in the order typed.
BuildLines(lines) == LockInOrder(lines) \o Each(Take, lines)

-----------------------------------------------------------------------------
(* Sales *)

CreateInvoice(lines) == Locking(BuildLines(lines))

UpdateInvoice(old, lines) == Locking(Each(PutBack, old) \o BuildLines(lines))

DeleteInvoice(old) == Locking(Each(PutBack, old))

CreateReturn(lines) == Locking(Each(PutBack, lines))

CancelReturn(lines) ==
    Locking(Each(TakeOut, SortSeq(lines, LAMBDA x, y : x.batch < y.batch)))

-----------------------------------------------------------------------------
(* Warehouse *)

ReceiveStock(line) == Locking(<<Receive(line)>>)

TransferStock(line) ==
    Locking(<<[op |-> "move", rows |-> RowsOf[line.shelf], n |-> line.n]>>)

CreateAdjustment(lines) == Locking(Each(TakeOut, lines))

CancelAdjustment(lines) ==
    [preload |-> {lines[i].batch : i \in DOMAIN lines}, steps |-> Each(PutBack, lines)]

\* A variance is counted minus expected; lines that agree are skipped.
PostStocktake(variances) ==
    Locking(Each(PutBack, SelectSeq(variances, LAMBDA l : l.n # 0)))

-----------------------------------------------------------------------------
(* Purchases *)

CreatePurchase(lines) == Locking(Each(Receive, lines))

UpdatePurchase(old, lines) == Locking(Each(TakeOut, old) \o Each(Receive, lines))

DeletePurchase(old) == Locking(Each(TakeOut, old))

ReturnPurchase(lines) == Locking(Each(TakeOut, lines))

-----------------------------------------------------------------------------
(* The promise. *)

OnHand(f) == [sh \in Shelf |-> SumFunctionOnSet(f, RowsOf[sh])]

\* What one statement of a request does to each shelf.
NetOf(step) ==
    [sh \in Shelf |->
        IF step.rows \cap RowsOf[sh] # {}
        THEN IF step.op \in {"take", "move"} THEN -step.n ELSE step.n
        ELSE IF step.op = "move" /\ \E b \in step.rows : Twin[b] \in RowsOf[sh]
             THEN step.n
             ELSE 0]

Net(r) ==
    [sh \in Shelf |-> SumFunction([i \in DOMAIN r.steps |-> NetOf(r.steps[i])[sh]])]

Movements == {Net(r) : r \in Request}

FirstOnHand == OnHand(Opening)

Ledger == INSTANCE ShelfLedger WITH
            onhand <- OnHand(qty),
            First <- FirstOnHand,
            Document <- Movements

\* The requests together implement the ledger: every commit moves each shelf by
\* exactly what the document's lines say, whatever ran beside it, and a request
\* that fails moves nothing.
ImplementsLedger == Ledger!Spec

=============================================================================
