--------------------------- MODULE StockDocuments ---------------------------
(***************************************************************************)
(* What corrects the stock of one warehouse: write-offs, their             *)
(* cancellation, and physical counts.                                      *)
(*                                                                         *)
(* `books` is what product_batches says, `shelf` what stands there; goods  *)
(* also vanish unseen.  A count lists what the books held when it was      *)
(* opened, is filled in as the aisles are walked, and posts the            *)
(* differences as deltas.  The documents are read without a lock; the      *)
(* batches under one, but a cancellation has read its batch before and     *)
(* writes back what it read.                                               *)
(***************************************************************************)
EXTENDS Requests, Functions

CONSTANTS
    Lot,        \* ids of the product_batches of the warehouse
    Held,       \* what the books and the shelf hold at first
    CostOf,     \* unit_cost of a batch, 0 when unknown
    WriteOff,   \* ids of stock_adjustments: bound on the write-offs ever made
    Count,      \* ids of stocktakes: bound on the counts ever opened
    MaxMoves,   \* bound: goods sold and goods that vanish
    Tasks       \* what a session may do: functions from sessions to operations

ASSUME StockDocumentsAssumption ==
    /\ IsFiniteSet(Lot) /\ Held \in [Lot -> Nat] /\ CostOf \in [Lot -> Nat]
    /\ WriteOff \subseteq Nat \ {0} /\ Count \subseteq Nat \ {0} /\ MaxMoves \in Nat

VARIABLES
    books, shelf,
    inventory,  \* account 1200, in what the batches cost
    loss,       \* accounts 5030 and 5040
    writeOff,   \* stock_adjustments
    count,      \* stocktakes
    chore,      \* what each session does in this behaviour
    clerk,      \* the request each session carries out
    moves,      \* counts sales and losses
    missing,    \* history: what books and shelf differed by when a line was counted
    shifted,    \* history: the lines whose batch moved between opening and counting
    applied,    \* history: how often a count or a write-off changed the stock back
    muddled,    \* history: documents that two requests had loaded at once
    overwritten \* history: what cancellations overwrote in a batch

stockRows == <<books, shelf, inventory, loss, writeOff, count>>
docVars   == <<stockRows, chore, clerk, moves, missing, shifted, applied, muddled,
               overwritten>>

AdjustmentStatus == {"none", "posted", "cancelled"}

StocktakeStatus == {"none", "counting", "posted", "cancelled"}

NotOnSheet == -1
NotCounted == -2

NoWriteOff == [status |-> "none", lot |-> CHOOSE b \in Lot : TRUE, n |-> 0]

NoCount == [status  |-> "none",
            expected |-> [b \in Lot |-> NotOnSheet],
            counted  |-> [b \in Lot |-> NotCounted]]

NoChore == [op |-> "none", id |-> 0, seen |-> 0, sheet |-> NoCount]

DocInit ==
    /\ books = Held /\ shelf = Held
    /\ inventory = 0 /\ loss = 0
    /\ writeOff = [a \in WriteOff |-> NoWriteOff]
    /\ count = [c \in Count |-> NoCount]
    /\ chore \in Tasks
    /\ clerk = [s \in Session |-> NoChore]
    /\ moves = 0
    /\ missing = [c \in Count |-> [b \in Lot |-> 0]]
    /\ shifted = [c \in Count |-> {}]
    /\ applied = [d \in Count \cup {-a : a \in WriteOff} |-> 0]
    /\ muddled = {}
    /\ overwritten = [b \in Lot |-> 0]

-----------------------------------------------------------------------------
(* Figures *)

Variance(k, b) ==
    IF k.expected[b] = NotOnSheet \/ k.counted[b] = NotCounted THEN 0
    ELSE k.counted[b] - k.expected[b]

CountedLines(k) == {b \in Lot : k.expected[b] # NotOnSheet /\ k.counted[b] # NotCounted}

ValueOf(k) == SumFunction([b \in Lot |-> Variance(k, b) * CostOf[b]])

\* Fault: the count overwrites the books.
AsCounted(k, b) == IF Variance(k, b) = 0 THEN books[b] ELSE k.counted[b]
Settled(k, b)   == books[b] + Variance(k, b)

\* Fault: a shortage and a surplus are both booked as a surplus.
Gross(k)    == SumFunction([b \in Lot |-> AtLeast(Variance(k, b), -Variance(k, b)) * CostOf[b]])
NetValue(k) == ValueOf(k)

\* Fault: any document may be acted upon.
WhateverStatus(table, id, status) == table[id].status # "none"
HasStatus(table, id, status)      == table[id].status = status

Enough(b, n)      == n <= books[b] /\ n <= shelf[b]

NoneOpen    == \A c \in Count : count[c].status # "counting"

-----------------------------------------------------------------------------
(* Sessions *)

Idle(s) == clerk[s] = NoChore

Does(s, op) == clerk[s].op = op

Put(s, k) == clerk' = [clerk EXCEPT ![s] = k]

\* Two requests hold the same document (counts by id, write-offs by its negation).
Muddle(s, id) ==
    muddled' = IF \E r \in Session \ {s} : clerk[r].op # "none" /\ clerk[r].id = id
               THEN muddled \cup {id} ELSE muddled

AbortChore(s) ==
    /\ ~Idle(s) /\ Put(s, NoChore)
    /\ UNCHANGED <<stockRows, moves, missing, shifted, applied, muddled, overwritten>>

-----------------------------------------------------------------------------
(* Goods *)

\* A sale: goods leave the shelf and the books together, at cost.
Sell(b) ==
    /\ moves < MaxMoves /\ books[b] > 0 /\ shelf[b] > 0
    /\ moves' = moves + 1
    /\ books' = [books EXCEPT ![b] = @ - 1]
    /\ shelf' = [shelf EXCEPT ![b] = @ - 1]
    /\ inventory' = inventory - CostOf[b]
    /\ UNCHANGED <<loss, writeOff, count, clerk, missing, shifted, applied, muddled,
                   overwritten>>

\* Goods vanish, or are found behind the shelf.
Vanish(b) ==
    /\ moves < MaxMoves /\ shelf[b] > 0
    /\ moves' = moves + 1
    /\ shelf' = [shelf EXCEPT ![b] = @ - 1]
    /\ UNCHANGED <<books, inventory, loss, writeOff, count, clerk, missing, shifted, applied,
                   muddled, overwritten>>

-----------------------------------------------------------------------------
(* Write-offs *)

\* create_adjustment, of one batch; the broken goods are thrown away.
CreateAdjustment(b, n) ==
    /\ \E s \in Session : "writeoff" \in chore[s]
    /\ LET a == NextId([x \in WriteOff |-> writeOff[x].status], WriteOff, "none") IN
       /\ a # 0 /\ Enough(b, n)
       /\ writeOff' = [writeOff EXCEPT ![a] = [status |-> "posted", lot |-> b, n |-> n]]
    /\ books' = [books EXCEPT ![b] = @ - n]
    /\ shelf' = [shelf EXCEPT ![b] = @ - n]
    /\ inventory' = inventory - n * CostOf[b]
    /\ loss' = loss + n * CostOf[b]
    /\ UNCHANGED <<count, clerk, moves, missing, shifted, applied, muddled,
                   overwritten>>

\* get_adjustment, which loads the batch with the lines, and the look at its status.
LoadAdjustment(s, a) ==
    /\ Idle(s) /\ "undo" \in chore[s]
    /\ HasStatus(writeOff, a, "posted")
    /\ Put(s, [NoChore EXCEPT !.op = "undo", !.id = -a, !.seen = books[writeOff[a].lot]])
    /\ Muddle(s, -a)
    /\ UNCHANGED <<stockRows, moves, missing, shifted, applied, overwritten>>

\* cancel_adjustment: the batch is locked but not read again, so the goods go back on top
\* of what was loaded; the entry is mirrored.
CancelAdjustment(s) ==
    /\ Does(s, "undo")
    /\ LET a == -clerk[s].id
           w == writeOff[a] IN
       /\ books' = [books EXCEPT ![w.lot] = clerk[s].seen + w.n]
       /\ overwritten' = [overwritten EXCEPT ![w.lot] = @ + (books[w.lot] - clerk[s].seen)]
       /\ shelf' = [shelf EXCEPT ![w.lot] = @ + w.n]
       /\ inventory' = inventory + w.n * CostOf[w.lot]
       /\ loss' = loss - w.n * CostOf[w.lot]
       /\ writeOff' = [writeOff EXCEPT ![a].status = "cancelled"]
       /\ applied' = [applied EXCEPT ![-a] = @ + 1]
    /\ Put(s, NoChore)
    /\ UNCHANGED <<count, moves, missing, shifted, muddled>>

-----------------------------------------------------------------------------
(* Counts *)

\* open_stocktake: no other count is open ...
LookForOpen(s) ==
    /\ Idle(s) /\ "open" \in chore[s]
    /\ NoneOpen
    /\ Put(s, [NoChore EXCEPT !.op = "open"])
    /\ UNCHANGED <<stockRows, moves, missing, shifted, applied, muddled, overwritten>>

\* ... and the batches that hold stock are listed with it.
OpenStocktake(s) ==
    /\ Does(s, "open")
    /\ LET c == NextId([x \in Count |-> count[x].status], Count, "none") IN
       /\ c # 0
       /\ \E b \in Lot : books[b] > 0
       /\ count' = [count EXCEPT ![c] =
                      [status   |-> "counting",
                       expected |-> [b \in Lot |-> IF books[b] > 0 THEN books[b] ELSE NotOnSheet],
                       counted  |-> NoCount.counted]]
       /\ muddled' = IF \E r \in Session \ {s} : Does(r, "open")
                     THEN muddled \cup Count ELSE muddled
    /\ Put(s, NoChore)
    /\ UNCHANGED <<books, shelf, inventory, loss, writeOff, moves, missing, shifted, applied,
                   overwritten>>

\* get_stocktake, and the look at its status.
LoadStocktake(s, c, op) ==
    /\ Idle(s) /\ op \in chore[s]
    /\ HasStatus(count, c, "counting")
    /\ op = "post" => CountedLines(count[c]) # {}
    /\ Put(s, [op |-> op, id |-> c, seen |-> 0, sheet |-> count[c]])
    /\ Muddle(s, c)
    /\ UNCHANGED <<stockRows, moves, missing, shifted, applied, overwritten>>

\* save_counts, of one line: what stands on the shelf is written down.
SaveCounts(s, b) ==
    /\ Does(s, "count")
    /\ LET c == clerk[s].id IN
       /\ count[c].expected[b] # NotOnSheet
       /\ count' = [count EXCEPT ![c].counted[b] = shelf[b]]
       /\ missing' = [missing EXCEPT ![c][b] = books[b] - shelf[b]]
       /\ shifted' = [shifted EXCEPT ![c] = IF books[b] = count[c].expected[b]
                                            THEN @ \ {b} ELSE @ \cup {b}]
    /\ Put(s, NoChore)
    /\ UNCHANGED <<books, shelf, inventory, loss, writeOff, moves, applied, muddled,
                   overwritten>>

\* post_stocktake: the variances of the sheet that was loaded, one netted entry.
PostStocktake(s) ==
    /\ Does(s, "post")
    /\ LET c == clerk[s].id
           k == clerk[s].sheet IN
       /\ \A b \in Lot : Settled(k, b) >= 0
       /\ books' = [b \in Lot |-> Settled(k, b)]
       /\ inventory' = inventory + NetValue(k)
       /\ loss' = loss - NetValue(k)
       /\ count' = [count EXCEPT ![c].status = "posted"]
       /\ applied' = [applied EXCEPT ![c] = @ + 1]
    /\ Put(s, NoChore)
    /\ UNCHANGED <<shelf, writeOff, moves, missing, shifted, muddled, overwritten>>

CancelStocktake(s) ==
    /\ Does(s, "abandon")
    /\ count' = [count EXCEPT ![clerk[s].id].status = "cancelled"]
    /\ Put(s, NoChore)
    /\ UNCHANGED <<books, shelf, inventory, loss, writeOff, moves, missing, shifted, applied,
                   muddled, overwritten>>

-----------------------------------------------------------------------------
DocStep ==
    \/ \E b \in Lot : Sell(b) \/ Vanish(b) \/ \E n \in 1..2 : CreateAdjustment(b, n)
    \/ \E s \in Session :
          \/ AbortChore(s) \/ CancelAdjustment(s) \/ LookForOpen(s) \/ OpenStocktake(s)
          \/ PostStocktake(s) \/ CancelStocktake(s)
          \/ \E a \in WriteOff : LoadAdjustment(s, a)
          \/ \E c \in Count, op \in {"count", "post", "abandon"} : LoadStocktake(s, c, op)
          \/ \E b \in Lot : SaveCounts(s, b)

DocNext == DocStep /\ UNCHANGED chore

DocSpec == DocInit /\ [][DocNext]_docVars

-----------------------------------------------------------------------------
(* Properties *)

\* Every table keeps its shape, and no batch goes below zero.
DocTypeOK ==
    /\ books \in [Lot -> Nat] /\ shelf \in [Lot -> Nat]
    /\ \A a \in WriteOff : writeOff[a].status \in AdjustmentStatus
    /\ \A c \in Count : /\ count[c].status \in StocktakeStatus
                        /\ count[c].counted \in [Lot -> Nat \cup {NotCounted}]
    /\ \A s \in Session : clerk[s].id \in Count \cup {0} \cup {-a : a \in WriteOff}

\* Account 1200 follows the books through sales, write-offs and counts, however they race
\* (post_stocktake: "against stock and the ledger, atomically"); it strays by what the
\* cancellation of a write-off overwrote, to the piece, because the batch it locks was
\* loaded before, and by nothing else.
InventoryFollowsBooks ==
    inventory =
      SumFunction([b \in Lot |-> (books[b] + overwritten[b] - Held[b]) * CostOf[b]])

\* A count is applied once if it was posted and not at all if it was abandoned
\* (cancel_stocktake: "a count only touches stock when posted"), a write-off is given
\* back once if cancelled; unless two requests had loaded the document at once.
AppliedAsItSays ==
    /\ \A c \in Count \ muddled : applied[c] = 1 <=> count[c].status = "posted"
    /\ \A a \in WriteOff : -a \notin muddled =>
          (applied[-a] = 1 <=> writeOff[a].status = "cancelled")

\* Two sheets of one warehouse are open only if two requests looked at once
\* (open_stocktake: "the second to post would undo the first").
OneOpenCount ==
    Count \cap muddled = {} => Cardinality({c \in Count : count[c].status = "counting"}) <= 1

\* Posting takes the difference a line was counted with off the books, and leaves what
\* moved since (post_stocktake: "a delta preserves those movements"); unless the batch
\* moved before it was counted, or two requests had the sheet.
CountCorrects ==
    [][\A c \in Count \ muddled, b \in Lot :
          count[c].status = "counting" /\ count'[c].status = "posted"
          /\ b \in CountedLines(count[c]) \ shifted[c]
          => books'[b] - shelf'[b] = books[b] - shelf[b] - missing[c][b]]_docVars

\* Posting leaves the batches nobody counted alone ("an unvisited shelf is not a
\* shortfall"), even if they were on the sheet.
UnvisitedAlone ==
    [][\A c \in Count \ muddled, b \in Lot :
          count[c].status = "counting" /\ count'[c].status = "posted"
          /\ b \notin CountedLines(count[c]) => books'[b] = books[b]]_docVars

\* Write-offs and counts are documents: applied as they say, one count at a time.
DocumentsAreSound == DocTypeOK /\ AppliedAsItSays /\ OneOpenCount

\* Posting a count changes what was counted, by what was missing, and nothing else.
CountIsADelta == CountCorrects /\ UnvisitedAlone
=============================================================================
