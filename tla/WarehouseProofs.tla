--------------------------- MODULE WarehouseProofs ---------------------------
(***************************************************************************)
(* Proofs about the three components the warehouse runs: write-offs and    *)
(* physical counts, the settlement of the vans' rounds, and purchases.     *)
(*                                                                         *)
(* Each reads its rows without a lock, so a request acts on what it loaded *)
(* earlier.  The argument is the same three times: a row that two requests *)
(* never had at once (it is not in `muddled`, `raced` or `crossed`) still  *)
(* stands as its one holder loaded it, and on such rows every figure a     *)
(* request writes is the figure of now.                                    *)
(***************************************************************************)
EXTENDS StockDocuments, Rounds, PurchaseCycle, SumLemmas

-----------------------------------------------------------------------------
(*                 I.  Write-offs and physical counts                      *)

(* The inductive invariant *)

DocOp   == {"none", "undo", "open", "count", "post", "abandon"}
OnSheet == {"count", "post", "abandon"}   \* operations that loaded a count

Paper == {-a : a \in WriteOff}   \* the names of the write-offs among the documents

Sheets == [status   : StocktakeStatus,
           expected : [Lot -> Nat \cup {NotOnSheet}],
           counted  : [Lot -> Nat \cup {NotCounted}]]

Notes == [status : AdjustmentStatus, lot : Lot \cup {NoWriteOff.lot}, n : Nat]

Chores == [op : DocOp, id : Int, seen : Nat, sheet : Sheets]

DocTables ==
    /\ books \in [Lot -> Nat] /\ shelf \in [Lot -> Nat]
    /\ inventory \in Int /\ loss \in Int
    /\ writeOff \in [WriteOff -> Notes]
    /\ count \in [Count -> Sheets]
    /\ clerk \in [Session -> Chores]
    /\ missing \in [Count -> [Lot -> Int]]
    /\ shifted \in [Count -> SUBSET Lot]
    /\ applied \in [Count \cup Paper -> Nat]
    /\ muddled \in SUBSET (Count \cup Paper)
    /\ overwritten \in [Lot -> Int]

\* A request has the document its operation needs, and a write-off is of a batch.
Filed ==
    /\ \A s \in Session :
          /\ clerk[s].op \in {"none", "open"} => clerk[s].id = 0
          /\ clerk[s].op \in OnSheet => /\ clerk[s].id \in Count
                                        /\ count[clerk[s].id].status # "none"
          /\ clerk[s].op = "undo" => /\ -clerk[s].id \in WriteOff
                                     /\ writeOff[-clerk[s].id].status # "none"
    /\ \A a \in WriteOff : writeOff[a].status # "none" => writeOff[a].lot \in Lot

\* A document two requests hold is a muddled one.
Alone ==
    \A s, r \in Session :
       /\ s # r /\ clerk[s].op # "none" /\ clerk[r].op # "none"
       /\ clerk[s].id = clerk[r].id /\ clerk[s].id # 0
       => clerk[s].id \in muddled

\* A document one request holds still stands as that request loaded it.
StillSo ==
    \A s \in Session : clerk[s].id \notin muddled =>
       /\ clerk[s].op \in OnSheet => /\ count[clerk[s].id].status = "counting"
                                     /\ clerk[s].sheet = count[clerk[s].id]
       /\ clerk[s].op = "undo" => writeOff[-clerk[s].id].status = "posted"

\* How often a document that was never muddled moved stock, from its status.
AppliedExactly ==
    /\ \A c \in Count : c \notin muddled =>
          applied[c] = IF count[c].status = "posted" THEN 1 ELSE 0
    /\ \A a \in WriteOff : -a \notin muddled =>
          applied[-a] = IF writeOff[a].status = "cancelled" THEN 1 ELSE 0

\* A line counted of a batch that had not moved is off by what is missing.
LinesTell ==
    \A c \in Count, b \in Lot :
       b \in CountedLines(count[c]) \ shifted[c]
       => count[c].counted[b] - count[c].expected[b] = -missing[c][b]

\* Until two requests open at once, who looked finds it still so.
LookedAlone ==
    Count \cap muddled = {} =>
       /\ (\E s \in Session : clerk[s].op = "open") => NoneOpen
       /\ \A c, d \in Count : count[c].status = "counting" /\ count[d].status = "counting"
                              => c = d

DocIInv == /\ DocTables /\ Filed /\ Alone /\ StillSo /\ AppliedExactly
           /\ LinesTell /\ LookedAlone /\ InventoryFollowsBooks

-----------------------------------------------------------------------------
(* Lemmas *)

\* The next id of a table is one of a row that is not taken.
LEMMA NextFree ==
    ASSUME NEW table, NEW ids \in SUBSET Nat, NEW free, NextId(table, ids, free) # 0
    PROVE  NextId(table, ids, free) \in ids /\ table[NextId(table, ids, free)] = free
  <1> DEFINE Untaken == {i \in ids : table[i] = free}
  <1>1. Untaken # {} /\ Untaken \in SUBSET Nat
    BY DEF NextId
  <1>2. \E i \in Untaken : \A j \in Untaken : ~ (j < i)
    <2> HIDE DEF Untaken
    <2> QED BY <1>1, LeastNatural
  <1>3. \E i \in ids : table[i] = free /\ \A j \in ids : j < i => table[j] # free
    BY <1>2
  <1> QED BY <1>3 DEF NextId

\* A blank sheet and an idle request are rows like any other.
LEMMA Blanks == NoCount \in Sheets /\ NoChore \in Chores /\ NoWriteOff \in Notes
  <1>1. NoCount \in Sheets
    BY DEF NoCount, Sheets, StocktakeStatus
  <1>2. NoChore \in Chores
    BY <1>1 DEF NoChore, Chores, DocOp
  <1>3. NoWriteOff \in Notes
    BY DEF NoWriteOff, Notes, AdjustmentStatus
  <1> QED BY <1>1, <1>2, <1>3

\* Counts have ids above zero, write-offs names below: no document is both, none is 0.
LEMMA Names ==
    /\ \A c \in Count : c \in Nat /\ c # 0 /\ c \notin Paper
    /\ \A a \in WriteOff : a \in Nat /\ a # 0 /\ -a \in Paper /\ -a \notin Count /\ -(-a) = a
    /\ 0 \notin Count \cup Paper
  <1>1. \A i \in Count \cup WriteOff : i \in Nat /\ i # 0
    BY StockDocumentsAssumption
  <1>2. \A a \in WriteOff : -a \in Paper
    BY DEF Paper
  <1>3. \A d \in Paper : d \in Int /\ d < 0
    BY <1>1 DEF Paper
  <1> QED BY <1>1, <1>2, <1>3

-----------------------------------------------------------------------------
(* Account 1200 *)

Booked(held) == SumFunction([b \in Lot |-> (held[b] - Held[b]) * CostOf[b]])

\* What one batch is worth changes with its quantity.
LEMMA WorthOf ==
    ASSUME NEW x \in Int, NEW h \in Int, NEW c \in Int, NEW d \in Int,
           NEW y \in Int, y = x + d
    PROVE  /\ (x - h) * c \in Int /\ d * c \in Int
           /\ (y - h) * c = (x - h) * c + d * c
  OBVIOUS

\* Costs and opening quantities are numbers.
LEMMA Figures == \A b \in Lot : CostOf[b] \in Int /\ Held[b] \in Int
  BY StockDocumentsAssumption

\* What account 1200 has of books `k` in which `o` was overwritten.
Accounts(k, o) == SumFunction([b \in Lot |-> (k[b] + o[b] - Held[b]) * CostOf[b]])

\* Account 1200 is compared with the books and what was overwritten in them.
LEMMA Accounted ==
    ASSUME NEW k \in [Lot -> Int], NEW o \in [Lot -> Int], NEW x \in [Lot -> Int],
           \A b \in Lot : x[b] = k[b] + o[b]
    PROVE  Booked(x) = Accounts(k, o)
  <1>1. \A b \in Lot : (x[b] - Held[b]) * CostOf[b] = (k[b] + o[b] - Held[b]) * CostOf[b]
    <2> SUFFICES ASSUME NEW b \in Lot
                 PROVE  (x[b] - Held[b]) * CostOf[b] = (k[b] + o[b] - Held[b]) * CostOf[b]
      OBVIOUS
    <2>1. PICK m \in Int : m = x[b] - Held[b]
      BY Figures
    <2>2. m = k[b] + o[b] - Held[b]
      BY <2>1, Figures
    <2> QED BY <2>1, <2>2
  <1>2.   [b \in Lot |-> (x[b] - Held[b]) * CostOf[b]]
        = [b \in Lot |-> (k[b] + o[b] - Held[b]) * CostOf[b]]
    BY <1>1
  <1> QED BY <1>2 DEF Booked, Accounts

\* When one batch moves, the books' worth moves by as much, at cost.
LEMMA OneMoves ==
    ASSUME NEW x \in [Lot -> Int], NEW y \in [Lot -> Int], NEW b \in Lot, NEW d \in Int,
           y[b] = x[b] + d, SameTerms(x, y, Lot \ {b})
    PROVE  Booked(y) = Booked(x) + d * CostOf[b]
  <1>1. PICK f : f = [l \in Lot |-> (x[l] - Held[l]) * CostOf[l]]
    OBVIOUS
  <1>2. PICK g : g = [l \in Lot |-> (y[l] - Held[l]) * CostOf[l]]
    OBVIOUS
  <1>3. Whole(f, Lot) /\ Whole(g, Lot)
    BY <1>1, <1>2, Figures DEF Whole
  <1>4. SameTerms(f, g, Lot \ {b})
    BY <1>1, <1>2 DEF SameTerms
  <1>5. g[b] = f[b] + d * CostOf[b] /\ d * CostOf[b] \in Int
    BY <1>1, <1>2, Figures, WorthOf
  <1>6. IsFiniteSet(Lot)
    BY StockDocumentsAssumption
  <1>7. Booked(x) = SumFunctionOnSet(f, Lot) /\ Booked(y) = SumFunctionOnSet(g, Lot)
    BY <1>1, <1>2 DEF Booked, SumFunction
  <1>8. SumFunctionOnSet(g, Lot) = SumFunctionOnSet(f, Lot) + (g[b] - f[b])
    BY <1>3, <1>4, <1>6, SumChange
  <1>9. SumFunctionOnSet(f, Lot) \in Int /\ f[b] \in Int /\ g[b] \in Int
    BY <1>3, <1>6, SumInt DEF Whole
  <1> QED BY <1>5, <1>7, <1>8, <1>9

\* When every batch moves by a variance, the books' worth moves by the value of the sheet.
LEMMA AllMove ==
    ASSUME NEW x \in [Lot -> Int], NEW y \in [Lot -> Int], NEW k \in Sheets,
           \A b \in Lot : y[b] = x[b] + Variance(k, b)
    PROVE  Booked(y) = Booked(x) + NetValue(k) /\ NetValue(k) \in Int
  <1>1. PICK f : f = [l \in Lot |-> (x[l] - Held[l]) * CostOf[l]]
    OBVIOUS
  <1>2. PICK g : g = [l \in Lot |-> Variance(k, l) * CostOf[l]]
    OBVIOUS
  <1>3. PICK h : h = [l \in Lot |-> (y[l] - Held[l]) * CostOf[l]]
    OBVIOUS
  <1>4. \A l \in Lot : Variance(k, l) \in Int
    BY DEF Variance, Sheets, NotOnSheet, NotCounted
  <1>5. Whole(f, Lot) /\ Whole(g, Lot) /\ Adds(f, g, h, Lot)
    <2> SUFFICES ASSUME NEW l \in Lot
                 PROVE  f[l] \in Int /\ g[l] \in Int /\ h[l] = f[l] + g[l]
      BY DEF Whole, Adds
    <2>1. h[l] = (y[l] - Held[l]) * CostOf[l]
      BY <1>3
    <2>2. y[l] = x[l] + Variance(k, l)
      OBVIOUS
    <2>3. f[l] = (x[l] - Held[l]) * CostOf[l] /\ g[l] = Variance(k, l) * CostOf[l]
      BY <1>1, <1>2
    <2>4. x[l] \in Int /\ y[l] \in Int /\ CostOf[l] \in Int /\ Held[l] \in Int
      BY Figures
    <2>5. PICK v \in Int : v = Variance(k, l)
      BY <1>4
    <2> QED BY <2>1, <2>2, <2>3, <2>4, <2>5, WorthOf
  <1>6. /\ Booked(x) = SumFunctionOnSet(f, Lot) /\ Booked(y) = SumFunctionOnSet(h, Lot)
        /\ NetValue(k) = SumFunctionOnSet(g, Lot)
    BY <1>1, <1>2, <1>3 DEF Booked, SumFunction, NetValue, ValueOf
  <1>7. IsFiniteSet(Lot)
    BY StockDocumentsAssumption
  <1>8. SumFunctionOnSet(h, Lot) = SumFunctionOnSet(f, Lot) + SumFunctionOnSet(g, Lot)
    BY <1>5, <1>7, SumAdd
  <1>9. SumFunctionOnSet(g, Lot) \in Int
    BY <1>5, <1>7, SumInt
  <1> QED BY <1>6, <1>8, <1>9

-----------------------------------------------------------------------------
(* Every step keeps the invariant *)

LEMMA InitDocIInv == DocInit => DocIInv
  <1> SUFFICES ASSUME DocInit
               PROVE  DocIInv
    OBVIOUS
  <1>1. DocTables
    BY Blanks, StockDocumentsAssumption DEF DocInit, DocTables, Paper
  <1>2. \A s \in Session : clerk[s] = NoChore
    BY DEF DocInit
  <1>3. Filed /\ Alone /\ StillSo
    BY <1>2 DEF Filed, Alone, StillSo, NoChore, OnSheet, DocInit, NoWriteOff
  <1>4. AppliedExactly
    BY DEF AppliedExactly, DocInit, NoCount, NoWriteOff
  <1>5. LinesTell
    BY DEF LinesTell, DocInit, NoCount, CountedLines
  <1>6. LookedAlone
    BY <1>2 DEF LookedAlone, DocInit, NoCount, NoChore
  <1>7. InventoryFollowsBooks
    <2>1. PICK f : f = [b \in Lot |-> (books[b] + overwritten[b] - Held[b]) * CostOf[b]]
      OBVIOUS
    <2>2. SameTerms(f, [b \in Lot |-> 0], Lot)
      <3>1. \A b \in Lot : f[b] = (Held[b] + 0 - Held[b]) * CostOf[b]
        BY <2>1 DEF DocInit
      <3>2. \A b \in Lot : f[b] = 0
        BY <3>1, Figures
      <3> QED BY <3>2 DEF SameTerms
    <2>3. SumFunctionOnSet(f, Lot) = 0
      BY <2>2, SumZero, StockDocumentsAssumption
    <2> QED BY <2>1, <2>3 DEF InventoryFollowsBooks, SumFunction, DocInit
  <1> QED BY <1>1, <1>3, <1>4, <1>5, <1>6, <1>7 DEF DocIInv

\* A step that leaves every document and every request alone: goods alone move.
LEMMA GoodsAlone ==
    ASSUME DocIInv, DocTables', UNCHANGED <<writeOff, count, clerk, missing, shifted, applied, muddled>>,
           InventoryFollowsBooks'
    PROVE  DocIInv'
  <1>1. Filed' /\ Alone' /\ StillSo' /\ AppliedExactly'
    BY DEF DocIInv, Filed, Alone, StillSo, AppliedExactly
  <1>2. LinesTell' /\ LookedAlone'
    BY DEF DocIInv, LinesTell, CountedLines, LookedAlone, NoneOpen
  <1> QED BY <1>1, <1>2 DEF DocIInv

\* The books' worth, with what was overwritten, and account 1200 move together: when one
\* batch does ...
LEMMA BookOne ==
    ASSUME DocIInv, NEW b \in Lot, NEW d \in Int,
           books' \in [Lot -> Nat], overwritten' \in [Lot -> Int],
           books'[b] + overwritten'[b] = books[b] + overwritten[b] + d,
           \A l \in Lot \ {b} : books'[l] = books[l] /\ overwritten'[l] = overwritten[l],
           inventory' = inventory + d * CostOf[b]
    PROVE  InventoryFollowsBooks'
  <1>1. /\ books \in [Lot -> Int] /\ overwritten \in [Lot -> Int]
        /\ books' \in [Lot -> Int] /\ overwritten' \in [Lot -> Int]
    BY DEF DocIInv, DocTables
  <1>2. PICK x : x = [l \in Lot |-> books[l] + overwritten[l]]
    OBVIOUS
  <1>3. PICK y : y = [l \in Lot |-> books'[l] + overwritten'[l]]
    OBVIOUS
  <1>4. /\ x \in [Lot -> Int] /\ y \in [Lot -> Int]
        /\ \A l \in Lot : x[l] = books[l] + overwritten[l] /\ y[l] = books'[l] + overwritten'[l]
    BY <1>1, <1>2, <1>3
  <1>5. y[b] = x[b] + d /\ SameTerms(x, y, Lot \ {b})
    BY <1>4 DEF SameTerms
  <1>6. Booked(y) = Booked(x) + d * CostOf[b]
    BY <1>4, <1>5, OneMoves
  <1>7. Booked(x) = Accounts(books, overwritten)
    BY <1>1, <1>4, Accounted
  <1>8. Booked(y) = Accounts(books', overwritten')
    BY <1>1, <1>4, Accounted
  <1>9. inventory = Booked(x)
    BY <1>7 DEF DocIInv, InventoryFollowsBooks, Accounts
  <1> QED BY <1>6, <1>8, <1>9 DEF InventoryFollowsBooks, Accounts

\* ... and when every batch moves by the variance of a sheet.
LEMMA BookAll ==
    ASSUME DocIInv, NEW k \in Sheets, books' \in [Lot -> Nat], UNCHANGED overwritten,
           \A l \in Lot : books'[l] = books[l] + Variance(k, l),
           inventory' = inventory + NetValue(k)
    PROVE  InventoryFollowsBooks' /\ NetValue(k) \in Int
  <1>1. /\ books \in [Lot -> Int] /\ overwritten \in [Lot -> Int]
        /\ books' \in [Lot -> Int] /\ overwritten' = overwritten
    BY DEF DocIInv, DocTables
  <1>2. PICK x : x = [l \in Lot |-> books[l] + overwritten[l]]
    OBVIOUS
  <1>3. PICK y : y = [l \in Lot |-> books'[l] + overwritten[l]]
    OBVIOUS
  <1>4. /\ x \in [Lot -> Int] /\ y \in [Lot -> Int]
        /\ \A l \in Lot : x[l] = books[l] + overwritten[l] /\ y[l] = books'[l] + overwritten[l]
    BY <1>1, <1>2, <1>3
  <1>5. \A l \in Lot : Variance(k, l) \in Int
    BY DEF Variance, Sheets, NotOnSheet, NotCounted
  <1>6. \A l \in Lot : y[l] = x[l] + Variance(k, l)
    BY <1>1, <1>4, <1>5
  <1>7. Booked(y) = Booked(x) + NetValue(k) /\ NetValue(k) \in Int
    BY <1>4, <1>6, AllMove
  <1>8. Booked(x) = Accounts(books, overwritten)
    BY <1>1, <1>4, Accounted
  <1>9. Booked(y) = Accounts(books', overwritten)
    BY <1>1, <1>4, Accounted
  <1>10. inventory = Booked(x)
    BY <1>8 DEF DocIInv, InventoryFollowsBooks, Accounts
  <1> QED BY <1>1, <1>7, <1>9, <1>10 DEF InventoryFollowsBooks, Accounts

LEMMA SellKeeps ==
    ASSUME DocIInv, NEW b \in Lot, Sell(b)
    PROVE  DocIInv'
  <1>1. books[b] \in Nat /\ shelf[b] \in Nat /\ inventory \in Int /\ CostOf[b] \in Int
    BY Figures DEF DocIInv, DocTables
  <1>2. /\ books[b] - 1 \in Nat /\ shelf[b] - 1 \in Nat
        /\ books[b] - 1 = books[b] + (-1)
        /\ inventory - CostOf[b] = inventory + (-1) * CostOf[b]
        /\ inventory - CostOf[b] \in Int
    BY <1>1 DEF Sell
  <1>3. /\ books'[b] = books[b] + (-1) /\ \A l \in Lot \ {b} : books'[l] = books[l]
        /\ inventory' = inventory + (-1) * CostOf[b] /\ overwritten' = overwritten
    BY <1>2 DEF Sell, DocIInv, DocTables
  <1>4. DocTables'
    <2>1. books' \in [Lot -> Nat] /\ shelf' \in [Lot -> Nat] /\ inventory' \in Int
      BY <1>2 DEF Sell, DocIInv, DocTables
    <2>2. UNCHANGED <<loss, writeOff, count, clerk, missing, shifted, applied, muddled, overwritten>>
      BY DEF Sell
    <2> QED BY <2>1, <2>2 DEF DocIInv, DocTables
  <1>5. InventoryFollowsBooks'
    <2>1. books[b] \in Nat /\ overwritten[b] \in Int
      BY DEF DocIInv, DocTables
    <2>2. books'[b] + overwritten'[b] = books[b] + overwritten[b] + (-1)
      BY <1>3, <2>1
    <2> QED BY <1>3, <1>4, <2>2, BookOne DEF DocTables
  <1> QED BY <1>4, <1>5, GoodsAlone DEF Sell

LEMMA VanishKeeps ==
    ASSUME DocIInv, NEW b \in Lot, Vanish(b)
    PROVE  DocIInv'
  <1>1. DocTables'
    BY DEF Vanish, DocIInv, DocTables
  <1>2. InventoryFollowsBooks'
    BY DEF Vanish, DocIInv, InventoryFollowsBooks
  <1> QED BY <1>1, <1>2, GoodsAlone DEF Vanish

LEMMA CreateAdjustmentKeeps ==
    ASSUME DocIInv, NEW b \in Lot, NEW n \in 1..2, CreateAdjustment(b, n)
    PROVE  DocIInv'
  <1>1. PICK a \in WriteOff :
          /\ writeOff[a].status = "none"
          /\ writeOff' = [writeOff EXCEPT ![a] = [status |-> "posted", lot |-> b, n |-> n]]
    <2> DEFINE free == NextId([x \in WriteOff |-> writeOff[x].status], WriteOff, "none")
    <2>1. free # 0 /\ writeOff' = [writeOff EXCEPT ![free] = [status |-> "posted", lot |-> b, n |-> n]]
      BY DEF CreateAdjustment
    <2>2. WriteOff \in SUBSET Nat
      BY StockDocumentsAssumption
    <2>3. free \in WriteOff /\ [x \in WriteOff |-> writeOff[x].status][free] = "none"
      BY <2>1, <2>2, NextFree
    <2> QED BY <2>1, <2>3
  <1>2. n <= books[b] /\ n <= shelf[b] /\ n \in Nat
    BY DEF CreateAdjustment, Enough
  <1>3. [status |-> "posted", lot |-> b, n |-> n] \in Notes
    BY <1>2 DEF Notes, AdjustmentStatus
  <1>4. n * CostOf[b] \in Int /\ -n * CostOf[b] = (-n) * CostOf[b]
    BY <1>2, Figures
  <1>5. /\ books'[b] = books[b] + (-n) /\ \A l \in Lot \ {b} : books'[l] = books[l]
        /\ inventory' = inventory + (-n) * CostOf[b] /\ overwritten' = overwritten
    BY <1>2, <1>4, Figures DEF CreateAdjustment, DocIInv, DocTables
  <1>6. DocTables'
    <2>1. /\ books[b] - n \in Nat /\ shelf[b] - n \in Nat
          /\ inventory - n * CostOf[b] \in Int /\ loss + n * CostOf[b] \in Int
      BY <1>2, <1>4 DEF DocIInv, DocTables
    <2>2. writeOff' \in [WriteOff -> Notes]
      BY <1>1, <1>3 DEF DocIInv, DocTables
    <2>3. books' \in [Lot -> Nat] /\ shelf' \in [Lot -> Nat] /\ inventory' \in Int /\ loss' \in Int
      BY <2>1 DEF CreateAdjustment, DocIInv, DocTables
    <2>4. UNCHANGED <<count, clerk, missing, shifted, applied, muddled, overwritten>>
      BY DEF CreateAdjustment
    <2> QED BY <2>2, <2>3, <2>4 DEF DocIInv, DocTables
  <1>7. InventoryFollowsBooks'
    <2>1. PICK d \in Int : d = -n
      BY <1>2
    <2>2. books'[b] = books[b] + d /\ inventory' = inventory + d * CostOf[b]
      BY <1>5, <2>1
    <2>3. books' \in [Lot -> Nat] /\ overwritten' \in [Lot -> Int]
      BY <1>6 DEF DocTables
    <2>4. books[b] \in Nat /\ overwritten[b] \in Int
      BY DEF DocIInv, DocTables
    <2>5. books'[b] + overwritten'[b] = books[b] + overwritten[b] + d
      BY <1>5, <2>2, <2>4
    <2> QED BY <1>5, <2>2, <2>3, <2>5, BookOne
  <1>8. Filed'
    <2>1. UNCHANGED <<count, clerk>>
      BY DEF CreateAdjustment
    <2>2. \A x \in WriteOff : x # a => writeOff'[x] = writeOff[x]
      BY <1>1 DEF DocIInv, DocTables
    <2>3. writeOff'[a].status = "posted" /\ writeOff'[a].lot = b
      BY <1>1 DEF DocIInv, DocTables
    <2> QED BY <2>1, <2>2, <2>3 DEF DocIInv, Filed
  <1>9. Alone' /\ LinesTell' /\ LookedAlone'
    BY DEF CreateAdjustment, DocIInv, Alone, LinesTell, CountedLines, LookedAlone, NoneOpen
  <1>10. StillSo' /\ AppliedExactly'
    <2>1. UNCHANGED <<count, clerk, applied, muddled>>
      BY DEF CreateAdjustment
    <2>2. \A x \in WriteOff : x # a => writeOff'[x] = writeOff[x]
      BY <1>1 DEF DocIInv, DocTables
    <2>3. writeOff'[a].status = "posted"
      BY <1>1 DEF DocIInv, DocTables
    <2> QED BY <1>1, <2>1, <2>2, <2>3 DEF DocIInv, StillSo, AppliedExactly, Filed
  <1> QED BY <1>6, <1>7, <1>8, <1>9, <1>10 DEF DocIInv

\* A request that ends holds nothing, and nobody else's hold changes.
LEMMA ChoreEnds ==
    ASSUME DocIInv, NEW s \in Session, Put(s, NoChore), muddled \subseteq muddled'
    PROVE  /\ clerk' \in [Session -> Chores]
           /\ clerk'[s].op = "none" /\ clerk'[s].id = 0
           /\ \A r \in Session : r # s => clerk'[r] = clerk[r]
           /\ Alone'
  <1>1. clerk \in [Session -> Chores]
    BY DEF DocIInv, DocTables
  <1>2. clerk'[s] = NoChore /\ \A r \in Session : r # s => clerk'[r] = clerk[r]
    BY <1>1 DEF Put
  <1>3. clerk' \in [Session -> Chores]
    BY <1>1, Blanks DEF Put
  <1>4. clerk'[s].op = "none" /\ clerk'[s].id = 0
    BY <1>2 DEF NoChore
  <1>5. Alone'
    BY <1>2, <1>4 DEF DocIInv, Alone
  <1> QED BY <1>2, <1>3, <1>4, <1>5

\* A request that loads a document holds it, muddled if somebody else does too.
LEMMA ChoreLoads ==
    ASSUME DocIInv, NEW s \in Session, Idle(s), NEW k \in Chores, Put(s, k),
           k.id \in Count \cup Paper, Muddle(s, k.id)
    PROVE  /\ clerk' \in [Session -> Chores]
           /\ clerk'[s] = k
           /\ \A r \in Session : r # s => clerk'[r] = clerk[r]
           /\ Alone'
           /\ muddled \subseteq muddled' /\ muddled' \in SUBSET (Count \cup Paper)
  <1>1. clerk \in [Session -> Chores] /\ muddled \in SUBSET (Count \cup Paper)
    BY DEF DocIInv, DocTables
  <1>2. clerk'[s] = k /\ \A r \in Session : r # s => clerk'[r] = clerk[r]
    BY <1>1 DEF Put
  <1>3. clerk' \in [Session -> Chores]
    BY <1>1 DEF Put
  <1>4. /\ muddled \subseteq muddled' /\ muddled' \in SUBSET (Count \cup Paper)
        /\ (\E r \in Session \ {s} : clerk[r].op # "none" /\ clerk[r].id = k.id)
              => k.id \in muddled'
    BY <1>1 DEF Muddle
  <1>5. Alone'
    BY <1>2, <1>4 DEF DocIInv, Alone
  <1> QED BY <1>2, <1>3, <1>4, <1>5

\* A step of one request that changes no document.
LEMMA RequestAlone ==
    ASSUME DocIInv, UNCHANGED <<stockRows, moves, missing, shifted, applied, overwritten>>,
           NEW s \in Session, clerk' \in [Session -> Chores],
           \A r \in Session : r # s => clerk'[r] = clerk[r],
           muddled \subseteq muddled', muddled' \in SUBSET (Count \cup Paper)
    PROVE  DocTables' /\ AppliedExactly' /\ LinesTell' /\ InventoryFollowsBooks'
  <1>1. DocTables'
    BY DEF DocIInv, DocTables, stockRows
  <1>2. AppliedExactly'
    BY DEF DocIInv, AppliedExactly, stockRows
  <1>3. LinesTell'
    BY DEF DocIInv, LinesTell, CountedLines, stockRows
  <1>4. InventoryFollowsBooks'
    BY DEF DocIInv, InventoryFollowsBooks, stockRows
  <1> QED BY <1>1, <1>2, <1>3, <1>4

LEMMA AbortKeeps ==
    ASSUME DocIInv, NEW s \in Session, AbortChore(s)
    PROVE  DocIInv'
  <1>1. UNCHANGED <<stockRows, moves, missing, shifted, applied, muddled,
                    overwritten>> /\ Put(s, NoChore)
    BY DEF AbortChore
  <1>2. /\ clerk' \in [Session -> Chores] /\ Alone'
        /\ clerk'[s].op = "none" /\ clerk'[s].id = 0
        /\ \A r \in Session : r # s => clerk'[r] = clerk[r]
    BY <1>1, ChoreEnds
  <1>3. DocTables' /\ AppliedExactly' /\ LinesTell' /\ InventoryFollowsBooks'
    BY <1>1, <1>2, RequestAlone DEF DocIInv, DocTables
  <1>4. Filed' /\ StillSo'
    BY <1>1, <1>2 DEF DocIInv, Filed, StillSo, OnSheet, stockRows
  <1>5. LookedAlone'
    BY <1>1, <1>2 DEF DocIInv, LookedAlone, NoneOpen, stockRows
  <1> QED BY <1>2, <1>3, <1>4, <1>5 DEF DocIInv

LEMMA LoadAdjustmentKeeps ==
    ASSUME DocIInv, NEW s \in Session, NEW a \in WriteOff, LoadAdjustment(s, a)
    PROVE  DocIInv'
  <1>0. PICK n \in Nat : n = books[writeOff[a].lot]
    BY DEF LoadAdjustment, HasStatus, DocIInv, DocTables, Filed
  <1>1. PICK k : k = [NoChore EXCEPT !.op = "undo", !.id = -a, !.seen = n]
    OBVIOUS
  <1>2. k = [op |-> "undo", id |-> -a, seen |-> n, sheet |-> NoCount]
    BY <1>1 DEF NoChore
  <1>3. -a \in Int /\ -a \in Paper /\ -a \notin Count /\ -(-a) = a
    BY Names
  <1>4. k \in Chores /\ k.op = "undo" /\ k.id = -a /\ k.id \in Paper /\ k.id \notin Count /\ -k.id = a
    BY <1>2, <1>3, Blanks DEF Chores, DocOp
  <1>5. /\ UNCHANGED <<stockRows, moves, missing, shifted, applied, overwritten>>
        /\ Put(s, k) /\ Idle(s) /\ Muddle(s, k.id) /\ writeOff[a].status = "posted"
    BY <1>0, <1>1, <1>4 DEF LoadAdjustment, HasStatus
  <1>6. /\ clerk' \in [Session -> Chores] /\ Alone' /\ clerk'[s] = k
        /\ \A r \in Session : r # s => clerk'[r] = clerk[r]
        /\ muddled \subseteq muddled' /\ muddled' \in SUBSET (Count \cup Paper)
    BY <1>4, <1>5, ChoreLoads
  <1>7. DocTables' /\ AppliedExactly' /\ LinesTell' /\ InventoryFollowsBooks'
    BY <1>5, <1>6, RequestAlone
  <1>8. Filed' /\ StillSo'
    BY <1>4, <1>5, <1>6 DEF DocIInv, Filed, StillSo, OnSheet, stockRows
  <1>9. LookedAlone'
    BY <1>4, <1>5, <1>6 DEF DocIInv, LookedAlone, NoneOpen, stockRows
  <1> QED BY <1>6, <1>7, <1>8, <1>9 DEF DocIInv

LEMMA LoadStocktakeKeeps ==
    ASSUME DocIInv, NEW s \in Session, NEW c \in Count, NEW op \in {"count", "post", "abandon"},
           LoadStocktake(s, c, op)
    PROVE  DocIInv'
  <1>1. PICK k : k = [op |-> op, id |-> c, seen |-> 0, sheet |-> count[c]]
    OBVIOUS
  <1>2. k \in Chores /\ k.op = op /\ k.id = c /\ k.sheet = count[c]
    BY <1>1, Names DEF DocIInv, DocTables, Chores, DocOp
  <1>3. /\ UNCHANGED <<stockRows, moves, missing, shifted, applied, overwritten>>
        /\ Put(s, k) /\ Idle(s) /\ Muddle(s, k.id) /\ count[c].status = "counting"
    BY <1>1, <1>2 DEF LoadStocktake, HasStatus
  <1>4. /\ clerk' \in [Session -> Chores] /\ Alone' /\ clerk'[s] = k
        /\ \A r \in Session : r # s => clerk'[r] = clerk[r]
        /\ muddled \subseteq muddled' /\ muddled' \in SUBSET (Count \cup Paper)
    BY <1>2, <1>3, ChoreLoads
  <1>5. DocTables' /\ AppliedExactly' /\ LinesTell' /\ InventoryFollowsBooks'
    BY <1>3, <1>4, RequestAlone
  <1>6. Filed' /\ StillSo'
    BY <1>2, <1>3, <1>4 DEF DocIInv, Filed, StillSo, OnSheet, stockRows
  <1>7. LookedAlone'
    BY <1>2, <1>3, <1>4 DEF DocIInv, LookedAlone, NoneOpen, stockRows
  <1> QED BY <1>4, <1>5, <1>6, <1>7 DEF DocIInv

LEMMA LookForOpenKeeps ==
    ASSUME DocIInv, NEW s \in Session, LookForOpen(s)
    PROVE  DocIInv'
  <1>1. PICK k : k = [NoChore EXCEPT !.op = "open"]
    OBVIOUS
  <1>2. k \in Chores /\ k.op = "open" /\ k.id = 0
    BY <1>1, Blanks DEF NoChore, Chores, DocOp
  <1>3. UNCHANGED <<stockRows, moves, missing, shifted, applied, muddled,
                    overwritten>> /\ Put(s, k) /\ NoneOpen
    BY <1>1 DEF LookForOpen
  <1>4. clerk \in [Session -> Chores] /\ muddled \in SUBSET (Count \cup Paper)
    BY DEF DocIInv, DocTables
  <1>5. /\ clerk' \in [Session -> Chores] /\ clerk'[s] = k
        /\ \A r \in Session : r # s => clerk'[r] = clerk[r]
    BY <1>2, <1>3, <1>4 DEF Put
  <1>6. DocTables' /\ AppliedExactly' /\ LinesTell' /\ InventoryFollowsBooks'
    BY <1>3, <1>4, <1>5, RequestAlone
  <1>7. Filed' /\ StillSo' /\ Alone'
    BY <1>2, <1>3, <1>5 DEF DocIInv, Filed, StillSo, Alone, OnSheet, stockRows
  <1>8. LookedAlone'
    BY <1>3 DEF DocIInv, LookedAlone, NoneOpen, stockRows
  <1> QED BY <1>6, <1>7, <1>8 DEF DocIInv

LEMMA CancelAdjustmentKeeps ==
    ASSUME DocIInv, NEW s \in Session, CancelAdjustment(s)
    PROVE  DocIInv'
  <1>1. PICK a \in WriteOff : /\ a = -clerk[s].id /\ clerk[s].id = -a
                              /\ writeOff[a].status # "none" /\ writeOff[a].lot \in Lot
    <2>1. clerk[s].op = "undo" /\ clerk[s].id \in Int
      BY DEF CancelAdjustment, Does, DocIInv, DocTables, Chores
    <2> QED BY <2>1 DEF DocIInv, Filed
  <1>2. PICK b \in Lot, n \in Nat, h \in Nat :
           b = writeOff[a].lot /\ n = writeOff[a].n /\ h = clerk[s].seen
    <2>1. clerk[s].seen \in Nat
      BY DEF DocIInv, DocTables, Chores
    <2>2. writeOff[a].n \in Nat
      BY <1>1 DEF DocIInv, DocTables, Notes
    <2> QED BY <1>1, <2>1, <2>2
  <1>3. /\ books' = [books EXCEPT ![b] = h + n]
        /\ overwritten' = [overwritten EXCEPT ![b] = overwritten[b] + (books[b] - h)]
        /\ shelf' = [shelf EXCEPT ![b] = shelf[b] + n]
        /\ inventory' = inventory + n * CostOf[b]
        /\ loss' = loss - n * CostOf[b]
        /\ writeOff' = [writeOff EXCEPT ![a].status = "cancelled"]
        /\ applied' = [applied EXCEPT ![-a] = applied[-a] + 1]
        /\ Put(s, NoChore)
        /\ UNCHANGED <<count, moves, missing, shifted, muddled>>
    BY <1>1, <1>2 DEF CancelAdjustment
  <1>4. n * CostOf[b] \in Int
    BY <1>2, Figures
  <1>5. /\ clerk' \in [Session -> Chores] /\ Alone'
        /\ clerk'[s].op = "none" /\ clerk'[s].id = 0
        /\ \A r \in Session : r # s => clerk'[r] = clerk[r]
    BY <1>3, ChoreEnds
  <1>6. /\ writeOff' \in [WriteOff -> Notes]
        /\ writeOff'[a].status = "cancelled" /\ writeOff'[a].lot = writeOff[a].lot
        /\ \A x \in WriteOff : x # a => writeOff'[x] = writeOff[x]
    BY <1>3 DEF DocIInv, DocTables, Notes, AdjustmentStatus
  <1>7. /\ applied' \in [Count \cup Paper -> Nat]
        /\ applied'[-a] = applied[-a] + 1
        /\ \A d \in Count \cup Paper : d # -a => applied'[d] = applied[d]
    BY <1>3, Names DEF DocIInv, DocTables
  <1>8. DocTables'
    <2>1. books' \in [Lot -> Nat] /\ shelf' \in [Lot -> Nat] /\ overwritten' \in [Lot -> Int]
      BY <1>3 DEF DocIInv, DocTables
    <2>2. inventory' \in Int /\ loss' \in Int
      BY <1>3, <1>4 DEF DocIInv, DocTables
    <2> QED BY <1>3, <1>5, <1>6, <1>7, <2>1, <2>2 DEF DocIInv, DocTables
  <1>9. InventoryFollowsBooks'
    <2>1. /\ books'[b] = h + n /\ overwritten'[b] = overwritten[b] + (books[b] - h)
          /\ \A l \in Lot \ {b} : books'[l] = books[l] /\ overwritten'[l] = overwritten[l]
      BY <1>3 DEF DocIInv, DocTables
    <2>2. books[b] \in Nat /\ overwritten[b] \in Int /\ n \in Int
      BY DEF DocIInv, DocTables
    <2>3. books'[b] + overwritten'[b] = books[b] + overwritten[b] + n
      BY <2>1, <2>2
    <2> QED BY <1>3, <1>8, <2>1, <2>2, <2>3, BookOne DEF DocTables
  <1>10. Filed'
    <2>1. \A x \in WriteOff : /\ writeOff[x].status # "none" => writeOff'[x].status # "none"
                             /\ writeOff'[x].status # "none" => writeOff'[x].lot \in Lot
      BY <1>1, <1>6 DEF DocIInv, Filed
    <2>2. ASSUME NEW r \in Session
          PROVE  /\ clerk'[r].op \in {"none", "open"} => clerk'[r].id = 0
                 /\ clerk'[r].op \in OnSheet => /\ clerk'[r].id \in Count
                                               /\ count'[clerk'[r].id].status # "none"
                 /\ clerk'[r].op = "undo" => /\ -clerk'[r].id \in WriteOff
                                            /\ writeOff'[-clerk'[r].id].status # "none"
      <3>1. CASE r = s
        BY <1>5, <3>1 DEF OnSheet
      <3>2. CASE r # s
        BY <1>3, <1>5, <2>1, <3>2 DEF DocIInv, Filed
      <3> QED BY <3>1, <3>2
    <2> QED BY <2>1, <2>2 DEF Filed
  <1>11. StillSo'
    <2> SUFFICES ASSUME NEW r \in Session, clerk'[r].id \notin muddled'
                 PROVE  /\ clerk'[r].op \in OnSheet =>
                              /\ count'[clerk'[r].id].status = "counting"
                              /\ clerk'[r].sheet = count'[clerk'[r].id]
                        /\ clerk'[r].op = "undo" => writeOff'[-clerk'[r].id].status = "posted"
      BY DEF StillSo
    <2>1. CASE r = s
      BY <1>5, <2>1 DEF OnSheet
    <2>2. CASE r # s
      <3>1. clerk'[r] = clerk[r] /\ clerk[r].id \notin muddled
        BY <1>3, <1>5, <2>2
      <3>2. clerk[r].op \in OnSheet => /\ count[clerk[r].id].status = "counting"
                                       /\ clerk[r].sheet = count[clerk[r].id]
        BY <3>1 DEF DocIInv, StillSo
      <3>3. clerk[r].op = "undo" => /\ -clerk[r].id \in WriteOff
                                    /\ writeOff[-clerk[r].id].status = "posted"
        BY <3>1 DEF DocIInv, StillSo, Filed
      <3>4. clerk[r].op = "undo" => -clerk[r].id # a
        <4>1. clerk[s].op # "none" /\ clerk[s].id # 0
          <5>1. clerk[s].op # "none"
            BY DEF CancelAdjustment, Does
          <5>2. a \in Nat /\ a # 0 /\ -a # 0
            BY Names
          <5> QED BY <1>1, <5>1, <5>2
        <4>2. clerk[r].op = "undo" => clerk[r].id # clerk[s].id
          BY <2>2, <3>1, <4>1 DEF DocIInv, Alone
        <4>3. clerk[r].id \in Int
          BY DEF DocIInv, DocTables, Chores
        <4> QED BY <1>1, <4>2, <4>3
      <3> QED BY <1>3, <1>6, <3>1, <3>2, <3>3, <3>4
    <2> QED BY <2>1, <2>2
  <1>12. AppliedExactly'
    <2>1. \A c \in Count : c \notin muddled' =>
             applied'[c] = IF count'[c].status = "posted" THEN 1 ELSE 0
      BY <1>3, <1>7, Names DEF DocIInv, AppliedExactly
    <2>2. ASSUME NEW x \in WriteOff, -x \notin muddled'
          PROVE  applied'[-x] = IF writeOff'[x].status = "cancelled" THEN 1 ELSE 0
      <3>1. applied[-x] = IF writeOff[x].status = "cancelled" THEN 1 ELSE 0
        BY <1>3, <2>2 DEF DocIInv, AppliedExactly
      <3>2. CASE x = a
        <4>1. clerk[s].op = "undo" /\ clerk[s].id \notin muddled /\ -clerk[s].id = a
          BY <1>1, <1>3, <2>2, <3>2 DEF CancelAdjustment, Does
        <4>2. writeOff[a].status = "posted"
          BY <4>1 DEF DocIInv, StillSo
        <4> QED BY <1>6, <1>7, <3>1, <3>2, <4>2, SMTT(30)
      <3>3. CASE x # a
        <4>1. -x # -a /\ -x \in Paper
          BY <3>3, Names
        <4> QED BY <1>6, <1>7, <3>1, <3>3, <4>1
      <3> QED BY <3>2, <3>3
    <2> QED BY <2>1, <2>2 DEF AppliedExactly
  <1>13. LinesTell'
    BY <1>3 DEF DocIInv, LinesTell, CountedLines
  <1>14. LookedAlone'
    BY <1>3, <1>5 DEF DocIInv, LookedAlone, NoneOpen
  <1> QED BY <1>5, <1>8, <1>9, <1>10, <1>11, <1>12, <1>13, <1>14 DEF DocIInv

\* A request that holds a count holds one that was opened.
LEMMA HoldsCount ==
    ASSUME DocIInv, NEW s \in Session, clerk[s].op \in OnSheet
    PROVE  clerk[s].id \in Count /\ count[clerk[s].id].status # "none" /\ clerk[s].sheet \in Sheets
  BY DEF DocIInv, DocTables, Filed, Chores

\* A step that changes one count, by the request that holds it, leaves the others' alone.
LEMMA OthersStand ==
    ASSUME DocIInv, NEW s \in Session, clerk[s].op \in OnSheet, NEW c \in Count, clerk[s].id = c,
           clerk'[s].op = "none", clerk'[s].id = 0,
           \A r \in Session : r # s => clerk'[r] = clerk[r],
           UNCHANGED <<writeOff, muddled>>,
           \A x \in Count : x # c => count'[x] = count[x],
           count'[c].status # "none"
    PROVE  Filed' /\ StillSo'
  <1>1. ASSUME NEW r \in Session
        PROVE  /\ clerk'[r].op \in {"none", "open"} => clerk'[r].id = 0
               /\ clerk'[r].op \in OnSheet => /\ clerk'[r].id \in Count
                                              /\ count'[clerk'[r].id].status # "none"
               /\ clerk'[r].op = "undo" => /\ -clerk'[r].id \in WriteOff
                                           /\ writeOff'[-clerk'[r].id].status # "none"
    <2>1. CASE r = s
      BY <2>1 DEF OnSheet
    <2>2. CASE r # s
      BY <2>2 DEF DocIInv, Filed
    <2> QED BY <2>1, <2>2
  <1>2. ASSUME NEW r \in Session, clerk'[r].id \notin muddled'
        PROVE  /\ clerk'[r].op \in OnSheet => /\ count'[clerk'[r].id].status = "counting"
                                              /\ clerk'[r].sheet = count'[clerk'[r].id]
               /\ clerk'[r].op = "undo" => writeOff'[-clerk'[r].id].status = "posted"
    <2>1. CASE r = s
      BY <2>1 DEF OnSheet
    <2>2. CASE r # s
      <3>1. clerk'[r] = clerk[r] /\ clerk[r].id \notin muddled
        BY <1>2, <2>2
      <3>2. clerk[r].op \in OnSheet => clerk[r].id # c
        BY <2>2, <3>1, Names DEF DocIInv, Alone, OnSheet
      <3>3. clerk[r].op \in OnSheet => clerk[r].id \in Count
        BY DEF DocIInv, Filed
      <3>4. /\ clerk[r].op \in OnSheet => /\ count[clerk[r].id].status = "counting"
                                          /\ clerk[r].sheet = count[clerk[r].id]
            /\ clerk[r].op = "undo" => writeOff[-clerk[r].id].status = "posted"
        BY <3>1 DEF DocIInv, StillSo
      <3> QED BY <3>1, <3>2, <3>3, <3>4
    <2> QED BY <2>1, <2>2
  <1>3. \A x \in WriteOff : writeOff'[x].status # "none" => writeOff'[x].lot \in Lot
    BY DEF DocIInv, Filed
  <1>4. Filed'
    BY <1>1, <1>3 DEF Filed
  <1> QED BY <1>2, <1>4 DEF StillSo

LEMMA CancelStocktakeKeeps ==
    ASSUME DocIInv, NEW s \in Session, CancelStocktake(s)
    PROVE  DocIInv'
  <1>1. clerk[s].op \in OnSheet /\ Put(s, NoChore)
    BY DEF CancelStocktake, Does, OnSheet
  <1>2. PICK c \in Count : c = clerk[s].id
    BY <1>1, HoldsCount
  <1>3. /\ UNCHANGED <<books, shelf, inventory, loss, writeOff, moves, missing, shifted, applied,
                       muddled, overwritten>>
        /\ count' = [count EXCEPT ![c].status = "cancelled"]
    BY <1>2 DEF CancelStocktake
  <1>4. /\ count' \in [Count -> Sheets]
        /\ count'[c].status = "cancelled"
        /\ count'[c].counted = count[c].counted /\ count'[c].expected = count[c].expected
        /\ \A x \in Count : x # c => count'[x] = count[x]
    BY <1>3 DEF DocIInv, DocTables, Sheets, StocktakeStatus
  <1>5. /\ clerk' \in [Session -> Chores] /\ Alone'
        /\ clerk'[s].op = "none" /\ clerk'[s].id = 0
        /\ \A r \in Session : r # s => clerk'[r] = clerk[r]
    BY <1>1, <1>3, ChoreEnds
  <1>6. DocTables'
    BY <1>3, <1>4, <1>5 DEF DocIInv, DocTables
  <1>7. Filed' /\ StillSo'
    BY <1>1, <1>2, <1>3, <1>4, <1>5, OthersStand
  <1>8. AppliedExactly'
    <2>1. ASSUME c \notin muddled
          PROVE  count[c].status = "counting"
      BY <1>1, <1>2, <2>1 DEF DocIInv, StillSo
    <2>2. \A x \in Count : x \notin muddled' =>
             applied'[x] = IF count'[x].status = "posted" THEN 1 ELSE 0
      BY <1>3, <1>4, <2>1 DEF DocIInv, AppliedExactly
    <2> QED BY <1>3, <2>2 DEF DocIInv, AppliedExactly
  <1>9. LinesTell'
    BY <1>3, <1>4 DEF DocIInv, LinesTell, CountedLines
  <1>10. LookedAlone'
    BY <1>3, <1>4, <1>5 DEF DocIInv, LookedAlone, NoneOpen
  <1>11. InventoryFollowsBooks'
    BY <1>3 DEF DocIInv, InventoryFollowsBooks
  <1> QED BY <1>5, <1>6, <1>7, <1>8, <1>9, <1>10, <1>11 DEF DocIInv

LEMMA SaveCountsKeeps ==
    ASSUME DocIInv, NEW s \in Session, NEW b \in Lot, SaveCounts(s, b)
    PROVE  DocIInv'
  <1>1. clerk[s].op \in OnSheet /\ Put(s, NoChore)
    BY DEF SaveCounts, Does, OnSheet
  <1>2. PICK c \in Count : c = clerk[s].id
    BY <1>1, HoldsCount
  <1>3. /\ UNCHANGED <<books, shelf, inventory, loss, writeOff, moves, applied, muddled,
                       overwritten>>
        /\ count[c].expected[b] # NotOnSheet
        /\ count' = [count EXCEPT ![c].counted[b] = shelf[b]]
        /\ missing' = [missing EXCEPT ![c][b] = books[b] - shelf[b]]
        /\ shifted' = [shifted EXCEPT ![c] = IF books[b] = count[c].expected[b]
                                             THEN shifted[c] \ {b} ELSE shifted[c] \cup {b}]
    BY <1>2 DEF SaveCounts
  <1>4. books[b] \in Nat /\ shelf[b] \in Nat /\ count[c] \in Sheets
    BY DEF DocIInv, DocTables
  <1>5. /\ count' \in [Count -> Sheets]
        /\ count'[c].status = count[c].status
        /\ count'[c].expected = count[c].expected
        /\ count'[c].counted[b] = shelf[b]
        /\ \A l \in Lot : l # b => count'[c].counted[l] = count[c].counted[l]
        /\ \A x \in Count : x # c => count'[x] = count[x]
    <2>1. PICK was \in [Lot -> Nat \cup {NotCounted}] : was = count[c].counted
      BY <1>4 DEF Sheets
    <2>2. PICK now : now = [was EXCEPT ![b] = shelf[b]]
      OBVIOUS
    <2>3. /\ now \in [Lot -> Nat \cup {NotCounted}] /\ now[b] = shelf[b]
          /\ \A l \in Lot : l # b => now[l] = was[l]
      BY <1>4, <2>1, <2>2
    <2>4. count' = [count EXCEPT ![c] = [count[c] EXCEPT !.counted = now]]
      BY <1>3, <2>1, <2>2
    <2>5. [count[c] EXCEPT !.counted = now] \in Sheets
      BY <1>4, <2>3 DEF Sheets
    <2>6. /\ count'[c] = [count[c] EXCEPT !.counted = now]
          /\ \A x \in Count : x # c => count'[x] = count[x]
          /\ count' \in [Count -> Sheets]
      BY <2>4, <2>5 DEF DocIInv, DocTables
    <2>7. /\ count'[c].status = count[c].status /\ count'[c].expected = count[c].expected
          /\ count'[c].counted = now
      BY <1>4, <2>6 DEF Sheets
    <2> QED BY <2>1, <2>3, <2>6, <2>7
  <1>6. /\ missing' \in [Count -> [Lot -> Int]]
        /\ missing'[c][b] = books[b] - shelf[b]
        /\ \A x \in Count, l \in Lot : x # c \/ l # b => missing'[x][l] = missing[x][l]
    <2>1. books[b] - shelf[b] \in Int /\ missing[c] \in [Lot -> Int]
      BY <1>4 DEF DocIInv, DocTables
    <2> QED BY <1>3, <2>1 DEF DocIInv, DocTables
  <1>7. /\ shifted' \in [Count -> SUBSET Lot]
        /\ b \notin shifted'[c] => books[b] = count[c].expected[b]
        /\ \A x \in Count, l \in Lot : x # c \/ l # b => (l \in shifted'[x] <=> l \in shifted[x])
    BY <1>3 DEF DocIInv, DocTables
  <1>8. /\ clerk' \in [Session -> Chores] /\ Alone'
        /\ clerk'[s].op = "none" /\ clerk'[s].id = 0
        /\ \A r \in Session : r # s => clerk'[r] = clerk[r]
    BY <1>1, <1>3, ChoreEnds
  <1>9. DocTables'
    BY <1>3, <1>5, <1>6, <1>7, <1>8 DEF DocIInv, DocTables
  <1>10. Filed' /\ StillSo'
    <2>1. count'[c].status # "none"
      BY <1>1, <1>2, <1>5, HoldsCount
    <2> QED BY <1>1, <1>2, <1>3, <1>5, <1>8, <2>1, OthersStand
  <1>11. \A x \in Count : count'[x].status = count[x].status
    BY <1>5
  <1>12. AppliedExactly'
    BY <1>3, <1>11 DEF DocIInv, AppliedExactly
  <1>13. LinesTell'
    <2> SUFFICES ASSUME NEW x \in Count, NEW l \in Lot,
                        l \in CountedLines(count'[x]) \ shifted'[x]
                 PROVE  count'[x].counted[l] - count'[x].expected[l] = -missing'[x][l]
      BY DEF LinesTell, CountedLines
    <2>1. CASE x = c /\ l = b
      <3>1. books[b] = count[c].expected[b]
        BY <1>7, <2>1
      <3> QED BY <1>4, <1>5, <1>6, <2>1, <3>1
    <2>2. CASE x # c \/ l # b
      <3>1. /\ count'[x].counted[l] = count[x].counted[l] /\ count'[x].expected[l] = count[x].expected[l]
            /\ missing'[x][l] = missing[x][l] /\ l \notin shifted[x]
        BY <1>5, <1>6, <1>7, <2>2
      <3>2. l \in CountedLines(count[x])
        BY <3>1 DEF CountedLines
      <3> QED BY <3>1, <3>2 DEF DocIInv, LinesTell
    <2> QED BY <2>1, <2>2
  <1>14. LookedAlone'
    BY <1>3, <1>8, <1>11 DEF DocIInv, LookedAlone, NoneOpen
  <1>15. InventoryFollowsBooks'
    BY <1>3 DEF DocIInv, InventoryFollowsBooks
  <1> QED BY <1>8, <1>9, <1>10, <1>12, <1>13, <1>14, <1>15 DEF DocIInv

\* What posting a sheet does, batch by batch: the facts its two theorems need.
LEMMA Posts ==
    ASSUME DocIInv, NEW s \in Session, PostStocktake(s)
    PROVE  /\ clerk[s].op \in OnSheet /\ clerk[s].id \in Count /\ clerk[s].sheet \in Sheets
           /\ \A b \in Lot : books'[b] = books[b] + Variance(clerk[s].sheet, b)
           /\ books' \in [Lot -> Nat]
           /\ count' = [count EXCEPT ![clerk[s].id].status = "posted"]
  <1>1. clerk[s].op \in OnSheet
    BY DEF PostStocktake, Does, OnSheet
  <1>2. PICK k \in Sheets : k = clerk[s].sheet
    BY <1>1, HoldsCount
  <1>3. \A b \in Lot : Variance(k, b) \in Int
    BY DEF Variance, Sheets, NotOnSheet, NotCounted
  <1>4. /\ \A b \in Lot : Settled(k, b) >= 0
        /\ books' = [b \in Lot |-> Settled(k, b)]
        /\ count' = [count EXCEPT ![clerk[s].id].status = "posted"]
    BY <1>2 DEF PostStocktake
  <1>5. \A b \in Lot : Settled(k, b) = books[b] + Variance(k, b) /\ books[b] \in Nat
    BY DEF Settled, DocIInv, DocTables
  <1>6. \A b \in Lot : Settled(k, b) \in Nat
    BY <1>3, <1>4, <1>5
  <1> QED BY <1>1, <1>2, <1>4, <1>5, <1>6, HoldsCount

LEMMA PostStocktakeKeeps ==
    ASSUME DocIInv, NEW s \in Session, PostStocktake(s)
    PROVE  DocIInv'
  <1>1. /\ clerk[s].op \in OnSheet /\ Put(s, NoChore) /\ books' \in [Lot -> Nat]
        /\ UNCHANGED <<shelf, writeOff, moves, missing, shifted, muddled, overwritten>>
    BY Posts DEF PostStocktake
  <1>2. PICK c \in Count, k \in Sheets : c = clerk[s].id /\ k = clerk[s].sheet
    BY Posts
  <1>3. /\ \A b \in Lot : books'[b] = books[b] + Variance(k, b)
        /\ count' = [count EXCEPT ![c].status = "posted"]
    BY <1>2, Posts
  <1>4. /\ inventory' = inventory + NetValue(k) /\ loss' = loss - NetValue(k)
        /\ applied' = [applied EXCEPT ![c] = applied[c] + 1]
    BY <1>2 DEF PostStocktake
  <1>5. /\ count' \in [Count -> Sheets]
        /\ count'[c].status = "posted"
        /\ count'[c].counted = count[c].counted /\ count'[c].expected = count[c].expected
        /\ \A x \in Count : x # c => count'[x] = count[x]
    BY <1>3 DEF DocIInv, DocTables, Sheets, StocktakeStatus
  <1>6. /\ clerk' \in [Session -> Chores] /\ Alone'
        /\ clerk'[s].op = "none" /\ clerk'[s].id = 0
        /\ \A r \in Session : r # s => clerk'[r] = clerk[r]
    BY <1>1, ChoreEnds
  <1>9. InventoryFollowsBooks' /\ NetValue(k) \in Int
    BY <1>1, <1>3, <1>4, BookAll
  <1>10. /\ applied' \in [Count \cup Paper -> Nat]
         /\ applied'[c] = applied[c] + 1
         /\ \A d \in Count \cup Paper : d # c => applied'[d] = applied[d]
    BY <1>4 DEF DocIInv, DocTables
  <1>11. DocTables'
    <2>1. inventory' \in Int /\ loss' \in Int
      BY <1>4, <1>9 DEF DocIInv, DocTables
    <2> QED BY <1>1, <1>5, <1>6, <1>10, <2>1 DEF DocIInv, DocTables
  <1>12. Filed' /\ StillSo'
    BY <1>1, <1>2, <1>5, <1>6, OthersStand
  <1>13. AppliedExactly'
    <2>1. ASSUME c \notin muddled
          PROVE  count[c].status = "counting"
      BY <1>1, <1>2, <2>1 DEF DocIInv, StillSo
    <2>2. ASSUME NEW d \in Count, d \notin muddled'
          PROVE  applied'[d] = IF count'[d].status = "posted" THEN 1 ELSE 0
      <3>1. d \notin muddled /\ applied[d] = IF count[d].status = "posted" THEN 1 ELSE 0
        BY <1>1, <2>2 DEF DocIInv, AppliedExactly
      <3>2. CASE d = c
        BY <1>5, <1>10, <2>1, <3>1, <3>2
      <3>3. CASE d # c
        BY <1>5, <1>10, <3>1, <3>3
      <3> QED BY <3>2, <3>3
    <2>3. ASSUME NEW a \in WriteOff, -a \notin muddled'
          PROVE  applied'[-a] = IF writeOff'[a].status = "cancelled" THEN 1 ELSE 0
      <3>1. -a \in Count \cup Paper /\ -a # c
        BY Names
      <3> QED BY <1>1, <1>10, <2>3, <3>1 DEF DocIInv, AppliedExactly
    <2> QED BY <2>2, <2>3 DEF AppliedExactly
  <1>14. LinesTell'
    BY <1>1, <1>5 DEF DocIInv, LinesTell, CountedLines
  <1>15. LookedAlone'
    BY <1>1, <1>5, <1>6 DEF DocIInv, LookedAlone, NoneOpen
  <1> QED BY <1>6, <1>9, <1>11, <1>12, <1>13, <1>14, <1>15 DEF DocIInv

LEMMA OpenStocktakeKeeps ==
    ASSUME DocIInv, NEW s \in Session, OpenStocktake(s)
    PROVE  DocIInv'
  <1>1. PICK k : k = [status   |-> "counting",
                       expected |-> [b \in Lot |-> IF books[b] > 0 THEN books[b] ELSE NotOnSheet],
                       counted  |-> NoCount.counted]
    OBVIOUS
  <1>2. PICK c \in Count : count[c].status = "none" /\ count' = [count EXCEPT ![c] = k]
    <2> DEFINE free == NextId([x \in Count |-> count[x].status], Count, "none")
    <2>1. free # 0 /\ count' = [count EXCEPT ![free] = k]
      BY <1>1 DEF OpenStocktake
    <2>2. Count \in SUBSET Nat
      BY StockDocumentsAssumption
    <2>3. free \in Count /\ [x \in Count |-> count[x].status][free] = "none"
      BY <2>1, <2>2, NextFree
    <2> QED BY <2>1, <2>3
  <1>3. PICK e : e = [b \in Lot |-> IF books[b] > 0 THEN books[b] ELSE NotOnSheet]
    OBVIOUS
  <1>4. e \in [Lot -> Nat \cup {NotOnSheet}]
    BY <1>3 DEF DocIInv, DocTables
  <1>5. k = [status |-> "counting", expected |-> e, counted |-> [b \in Lot |-> NotCounted]]
    BY <1>1, <1>3 DEF NoCount
  <1>6. k \in Sheets /\ k.status = "counting" /\ CountedLines(k) = {}
    BY <1>4, <1>5 DEF Sheets, StocktakeStatus, CountedLines
  <1>7. /\ count' \in [Count -> Sheets] /\ count'[c] = k
        /\ \A x \in Count : x # c => count'[x] = count[x]
    BY <1>2, <1>6 DEF DocIInv, DocTables
  <1>8. /\ UNCHANGED <<books, shelf, inventory, loss, writeOff, moves, missing, shifted, applied,
                       overwritten>>
        /\ Put(s, NoChore) /\ clerk[s].op = "open"
        /\ muddled' = IF \E r \in Session \ {s} : Does(r, "open") THEN muddled \cup Count ELSE muddled
    BY DEF OpenStocktake, Does
  <1>9. muddled \subseteq muddled' /\ muddled' \in SUBSET (Count \cup Paper)
    BY <1>8 DEF DocIInv, DocTables
  <1>10. /\ clerk' \in [Session -> Chores] /\ Alone'
         /\ clerk'[s].op = "none" /\ clerk'[s].id = 0
         /\ \A r \in Session : r # s => clerk'[r] = clerk[r]
    BY <1>8, <1>9, ChoreEnds
  <1>11. DocTables'
    BY <1>7, <1>8, <1>9, <1>10 DEF DocIInv, DocTables
  <1>12. ASSUME NEW r \in Session, clerk'[r].op \in OnSheet
         PROVE  /\ clerk'[r] = clerk[r] /\ clerk[r].id \in Count
                /\ count'[clerk[r].id] = count[clerk[r].id] /\ count[clerk[r].id].status # "none"
    <2>1. r # s
      BY <1>10, <1>12 DEF OnSheet
    <2>2. clerk'[r] = clerk[r]
      BY <1>10, <2>1
    <2>3. clerk[r].id \in Count /\ count[clerk[r].id].status # "none"
      BY <1>12, <2>2, HoldsCount
    <2> QED BY <1>2, <1>7, <2>2, <2>3
  <1>13. Filed'
    <2>1. ASSUME NEW r \in Session
          PROVE  /\ clerk'[r].op \in {"none", "open"} => clerk'[r].id = 0
                 /\ clerk'[r].op = "undo" => /\ -clerk'[r].id \in WriteOff
                                             /\ writeOff'[-clerk'[r].id].status # "none"
      BY <1>8, <1>10 DEF DocIInv, Filed
    <2> QED BY <1>8, <1>12, <2>1 DEF DocIInv, Filed
  <1>14. StillSo'
    <2>1. ASSUME NEW r \in Session, clerk'[r].id \notin muddled'
          PROVE  clerk'[r].op = "undo" => writeOff'[-clerk'[r].id].status = "posted"
      BY <1>8, <1>9, <1>10, <2>1 DEF DocIInv, StillSo
    <2> QED BY <1>9, <1>12, <2>1 DEF DocIInv, StillSo
  <1>15. AppliedExactly'
    BY <1>2, <1>6, <1>7, <1>8, <1>9 DEF DocIInv, AppliedExactly
  <1>16. LinesTell'
    <2> SUFFICES ASSUME NEW x \in Count, NEW l \in Lot,
                        l \in CountedLines(count'[x]) \ shifted'[x]
                 PROVE  count'[x].counted[l] - count'[x].expected[l] = -missing'[x][l]
      BY DEF LinesTell, CountedLines
    <2>1. x # c
      BY <1>6, <1>7
    <2> QED BY <1>7, <1>8, <2>1 DEF DocIInv, LinesTell
  <1>17. LookedAlone'
    <2> SUFFICES ASSUME Count \cap muddled' = {}
                 PROVE  /\ \A r \in Session : clerk'[r].op # "open"
                        /\ \A x, d \in Count : count'[x].status = "counting"
                                               /\ count'[d].status = "counting" => x = d
      BY DEF LookedAlone, NoneOpen
    <2>1. ~ \E r \in Session \ {s} : Does(r, "open")
      BY <1>8
    <2>2. NoneOpen
      BY <1>8, <1>9 DEF DocIInv, LookedAlone
    <2>3. \A r \in Session : clerk'[r].op # "open"
      BY <1>10, <2>1 DEF Does
    <2>4. \A x \in Count : x # c => count'[x].status # "counting"
      BY <1>7, <2>2 DEF NoneOpen
    <2> QED BY <2>3, <2>4
  <1>18. InventoryFollowsBooks'
    BY <1>8 DEF DocIInv, InventoryFollowsBooks
  <1> QED BY <1>10, <1>11, <1>13, <1>14, <1>15, <1>16, <1>17, <1>18 DEF DocIInv

LEMMA StutterKeeps ==
    ASSUME DocIInv, UNCHANGED docVars
    PROVE  DocIInv'
  <1>1. UNCHANGED <<writeOff, count, clerk, missing, shifted, applied, muddled>>
    BY DEF docVars, stockRows
  <1>2. DocTables'
    BY DEF DocIInv, DocTables, docVars, stockRows
  <1>3. InventoryFollowsBooks'
    BY DEF DocIInv, InventoryFollowsBooks, docVars, stockRows
  <1> QED BY <1>1, <1>2, <1>3, GoodsAlone

LEMMA DocStepKeeps ==
    ASSUME DocIInv, DocStep
    PROVE  DocIInv'
  <1>1. ASSUME NEW b \in Lot, Sell(b) \/ Vanish(b) \/ \E n \in 1..2 : CreateAdjustment(b, n)
        PROVE  DocIInv'
    BY <1>1, SellKeeps, VanishKeeps, CreateAdjustmentKeeps
  <1>2. ASSUME NEW s \in Session,
               \/ AbortChore(s) \/ CancelAdjustment(s) \/ LookForOpen(s) \/ OpenStocktake(s)
               \/ PostStocktake(s) \/ CancelStocktake(s)
        PROVE  DocIInv'
    BY <1>2, AbortKeeps, CancelAdjustmentKeeps, LookForOpenKeeps, OpenStocktakeKeeps,
       PostStocktakeKeeps, CancelStocktakeKeeps
  <1>3. ASSUME NEW s \in Session,
               \/ \E a \in WriteOff : LoadAdjustment(s, a)
               \/ \E c \in Count, op \in {"count", "post", "abandon"} : LoadStocktake(s, c, op)
               \/ \E b \in Lot : SaveCounts(s, b)
        PROVE  DocIInv'
    BY <1>3, LoadAdjustmentKeeps, LoadStocktakeKeeps, SaveCountsKeeps
  <1> QED BY <1>1, <1>2, <1>3 DEF DocStep

LEMMA DocInvariance == DocSpec => []DocIInv
  <1>1. DocIInv /\ [DocNext]_docVars => DocIInv'
    BY DocStepKeeps, StutterKeeps DEF DocNext
  <1> QED BY <1>1, InitDocIInv, PTL DEF DocSpec

-----------------------------------------------------------------------------
(* The documents *)

\* Whatever requests race: a count posted once moved stock once and an abandoned one never,
\* a write-off cancelled gave its goods back once, unless two requests had loaded the
\* document at once; and one sheet is open, unless two requests opened at once.
\* (post_stocktake, cancel_stocktake, cancel_adjustment and open_stocktake of stock_service.)
THEOREM DocumentsStaySound == DocSpec => []DocumentsAreSound
  <1>1. ASSUME DocIInv
        PROVE  DocTypeOK
    <2>1. \A s \in Session : clerk[s].id \in Count \cup {0} \cup {-a : a \in WriteOff}
      <3> SUFFICES ASSUME NEW s \in Session
                   PROVE  clerk[s].id \in Count \cup {0} \cup Paper
        BY DEF Paper
      <3>1. clerk[s].op \in DocOp /\ clerk[s].id \in Int
        BY <1>1 DEF DocIInv, DocTables, Chores
      <3>2. CASE clerk[s].op = "undo"
        <4>1. PICK a \in WriteOff : a = -clerk[s].id
          BY <1>1, <3>2 DEF DocIInv, Filed
        <4> QED BY <3>1, <4>1, Names
      <3>3. CASE clerk[s].op # "undo"
        BY <1>1, <3>1, <3>3 DEF DocIInv, Filed, DocOp, OnSheet
      <3> QED BY <3>2, <3>3
    <2>2. \A c \in Count : /\ count[c].status \in StocktakeStatus
                           /\ count[c].counted \in [Lot -> Nat \cup {NotCounted}]
      BY <1>1 DEF DocIInv, DocTables, Sheets
    <2>3. \A a \in WriteOff : writeOff[a].status \in AdjustmentStatus
      BY <1>1 DEF DocIInv, DocTables, Notes
    <2> QED BY <1>1, <2>1, <2>2, <2>3 DEF DocTypeOK, DocIInv, DocTables
  <1>2. ASSUME DocIInv
        PROVE  AppliedAsItSays
    BY <1>2 DEF AppliedAsItSays, DocIInv, AppliedExactly
  <1>3. ASSUME DocIInv
        PROVE  OneOpenCount
    <2> DEFINE open == {c \in Count : count[c].status = "counting"}
    <2> SUFFICES ASSUME Count \cap muddled = {}
                 PROVE  Cardinality(open) <= 1
      BY DEF OneOpenCount
    <2>1. \A c, d \in open : c = d
      BY <1>3 DEF DocIInv, LookedAlone
    <2> HIDE DEF open
    <2>2. CASE open = {}
      BY <2>2, FS_EmptySet
    <2>3. CASE open # {}
      <3>1. PICK c : open = {c}
        BY <2>1, <2>3
      <3> QED BY <3>1, FS_Singleton
    <2> QED BY <2>2, <2>3
  <1>4. DocIInv => DocumentsAreSound
    BY <1>1, <1>2, <1>3 DEF DocumentsAreSound
  <1> QED BY <1>4, DocInvariance, PTL

\* Account 1200 strays from what the goods on the books cost by what cancellations of
\* write-offs overwrote, to the piece, and by nothing else: whatever sales, write-offs,
\* cancellations and postings race, twice-applied ones included, the entry and the batches
\* are one commit, and only cancel_adjustment writes back a quantity it had loaded before
\* it locked the batch (create_adjustment, get_adjustment, post_stocktake).
THEOREM InventoryAlwaysFollows == DocSpec => []InventoryFollowsBooks
  <1>1. DocIInv => InventoryFollowsBooks
    BY DEF DocIInv
  <1> QED BY <1>1, DocInvariance, PTL

\* The step that posts a count nobody else had: who took it, and from which sheet.
LEMMA PostedBy ==
    ASSUME DocIInv, DocStep, NEW c \in Count, c \notin muddled,
           count[c].status = "counting", count'[c].status = "posted"
    PROVE  UNCHANGED shelf /\ \A b \in Lot : books'[b] = books[b] + Variance(count[c], b)
  <1>1. ASSUME NEW s \in Session, OpenStocktake(s)
        PROVE  FALSE
    <2> DEFINE free == NextId([x \in Count |-> count[x].status], Count, "none")
    <2>1. PICK k : k.status = "counting" /\ count' = [count EXCEPT ![free] = k]
      BY <1>1 DEF OpenStocktake
    <2> HIDE DEF free
    <2> QED BY <2>1 DEF DocIInv, DocTables
  <1>2. ASSUME NEW s \in Session, CancelStocktake(s)
        PROVE  FALSE
    BY <1>2 DEF CancelStocktake, DocIInv, DocTables, Sheets
  <1>3. ASSUME NEW s \in Session, NEW b \in Lot, SaveCounts(s, b)
        PROVE  FALSE
    <2>1. PICK d : count' = [count EXCEPT ![d].counted[b] = shelf[b]]
      BY <1>3, SMTT(30) DEF SaveCounts
    <2> QED BY <2>1 DEF DocIInv, DocTables, Sheets
  <1>4. PICK s \in Session : PostStocktake(s)
    BY <1>1, <1>2, <1>3 DEF DocStep, Sell, Vanish, CreateAdjustment, AbortChore, CancelAdjustment,
       LookForOpen, LoadAdjustment, LoadStocktake, stockRows
  <1>5. clerk[s].id = c
    <2>1. count' = [count EXCEPT ![clerk[s].id].status = "posted"] /\ clerk[s].id \in Count
      BY <1>4, Posts
    <2> QED BY <2>1 DEF DocIInv, DocTables
  <1>6. clerk[s].sheet = count[c]
    BY <1>4, <1>5, Posts DEF DocIInv, StillSo
  <1> QED BY <1>4, <1>6, Posts DEF PostStocktake

\* Posting a count takes what a line was found short of off the books and leaves what
\* moved since, and leaves every batch nobody counted alone, even one that was on the
\* sheet; but for batches that moved before they were counted and sheets two requests
\* had (post_stocktake: "a delta preserves those movements", "an unvisited shelf is not
\* a shortfall").
THEOREM CountsAreDeltas == DocSpec => CountIsADelta
  <1>1. ASSUME DocIInv, DocStep, NEW c \in Count, NEW b \in Lot, c \notin muddled,
               count[c].status = "counting", count'[c].status = "posted"
        PROVE  /\ b \in CountedLines(count[c]) \ shifted[c]
                  => books'[b] - shelf'[b] = books[b] - shelf[b] - missing[c][b]
               /\ b \notin CountedLines(count[c]) => books'[b] = books[b]
    <2>1. shelf' = shelf /\ books'[b] = books[b] + Variance(count[c], b)
      BY <1>1, PostedBy
    <2>2. books[b] \in Int /\ shelf[b] \in Int /\ missing[c][b] \in Int
      BY <1>1 DEF DocIInv, DocTables
    <2>3. ASSUME b \in CountedLines(count[c]) \ shifted[c]
          PROVE  Variance(count[c], b) = -missing[c][b]
      <3>1. count[c].counted[b] - count[c].expected[b] = -missing[c][b]
        BY <1>1, <2>3 DEF DocIInv, LinesTell
      <3>2. Variance(count[c], b) = count[c].counted[b] - count[c].expected[b]
        BY <2>3 DEF Variance, CountedLines
      <3> QED BY <3>1, <3>2
    <2>4. ASSUME b \notin CountedLines(count[c])
          PROVE  Variance(count[c], b) = 0
      BY <2>4 DEF Variance, CountedLines
    <2> QED BY <2>1, <2>2, <2>3, <2>4
  <1>2. DocIInv /\ [DocNext]_docVars =>
           [\A c \in Count \ muddled, b \in Lot :
               count[c].status = "counting" /\ count'[c].status = "posted"
               /\ b \in CountedLines(count[c]) \ shifted[c]
               => books'[b] - shelf'[b] = books[b] - shelf[b] - missing[c][b]]_docVars
    BY <1>1 DEF DocNext
  <1>3. DocIInv /\ [DocNext]_docVars =>
           [\A c \in Count \ muddled, b \in Lot :
               count[c].status = "counting" /\ count'[c].status = "posted"
               /\ b \notin CountedLines(count[c]) => books'[b] = books[b]]_docVars
    BY <1>1 DEF DocNext
  <1>4. DocSpec => CountCorrects
    BY <1>2, DocInvariance, PTL DEF DocSpec, CountCorrects
  <1>5. DocSpec => UnvisitedAlone
    BY <1>3, DocInvariance, PTL DEF DocSpec, UnvisitedAlone
  <1> QED BY <1>4, <1>5 DEF CountIsADelta

-----------------------------------------------------------------------------
(*                     II.  The rounds of the vans                         *)

(* The inductive invariant *)

\* What the rows may hold.
SaleRows  == [van : Van \cup {0, Elsewhere}, by : Salesman \cup {0},
              method : Method \cup {"none"}, total : Nat, back : Nat, paid : Nat,
              done : BOOLEAN, in : Nat]
SheetRows == [van : Van \cup {0}, diff : Outcome \cup {<<>>}]
RoundRows == [van : Van \cup {0}, by : Salesman \cup {0}, status : RoundSettlementStatus,
              sheet : Sheet \cup {0}, word : Words]
Places    == {"idle", "file", "load", "position", "sign", "drop"}
ErrandRows == [op : {"none", "open", "close", "drop"}, at : Places, van : Van \cup {0},
               round : Round \cup {0}, by : Salesman \cup {0}, sheet : Sheet \cup {0},
               word : Words]

Loaded == {"position", "sign", "drop"}   \* where a request has loaded its round

RoundTables ==
    /\ driver \in [Van -> [who : Salesman \cup {0}, active : BOOLEAN]]
    /\ sale \in [Sale -> SaleRows]
    /\ sheet \in [Sheet -> SheetRows]
    /\ round \in [Round -> RoundRows]
    /\ office \in [Session -> ErrandRows]

\* _validate_driver: an active salesman drives one van.
OneDriver == \A v, w \in Van : v # w /\ driver[v] = driver[w] /\ driver[v].active
                               => driver[v].who = 0

\* An invoice counts as paid no more than it billed, nor than came in for it.
SalesHold ==
    \A i \in Sale : /\ sale[i].van = 0 => sale[i] = NoSale
                    /\ sale[i].paid <= sale[i].total /\ sale[i].back <= sale[i].total
                    /\ sale[i].paid <= sale[i].in

\* A round has its van and its salesman, and a van one open round.
RoundsHold ==
    /\ \A r \in Round : round[r].status # "none" => round[r].van # 0 /\ round[r].by # 0
    /\ \A q, r \in Round : IsOpen(q) /\ IsOpen(r) /\ round[q].van = round[r].van => q = r

\* What a request has in hand is there.
InHand ==
    \A s \in Session :
       /\ office[s].at = "file" => office[s].van # 0 /\ office[s].by # 0
       /\ office[s].at \in Loaded => /\ office[s].round # 0
                                     /\ round[office[s].round].status # "none"
                                     /\ office[s].van = round[office[s].round].van

\* Two requests at one round are known to the history, and a round only one request has
\* is still open.
HeldAlone ==
    \A s, q \in Session :
       s # q /\ office[s].at \in Loaded /\ office[q].at \in Loaded
       /\ office[s].round = office[q].round => office[s].round \in raced

StillOpen ==
    \A s \in Session :
       office[s].at \in Loaded /\ office[s].round \notin raced => IsOpen(office[s].round)

\* What the position a request read still means: the count is there, a shortage has its
\* word, nothing is owed, and a van without a count had none.
Reads(s) ==
    LET k == office[s] IN
    /\ k.sheet # 0 => sheet[k.sheet].van # 0
    /\ UnitsOff(k.sheet) # 0 => k.word # "none"
    /\ k.round \notin late \cup raced =>
          /\ Outstanding(k.van, round[k.round].by) <= 0
          /\ k.sheet = 0 => CountsOf(k.van) = {}

PositionStands == \A s \in Session : office[s].at = "sign" => Reads(s)

\* A van that never changed hands is driven by who sold from it.
DriverSold ==
    \A i \in Sale : sale[i].van \in Van /\ sale[i].van \notin handedOver
                    => driver[sale[i].van].who = sale[i].by /\ sale[i].by # 0

RoundIInv == /\ RoundTables /\ OneDriver /\ SalesHold /\ RoundsHold /\ InHand /\ HeldAlone
             /\ StillOpen /\ PositionStands /\ DriverSold

\* A finite set of ids has a last one.
LEMMA LastId ==
    ASSUME NEW K \in SUBSET Nat, IsFiniteSet(K), K # {}
    PROVE  Max(K) \in K
  <1> DEFINE Bad == {T \in SUBSET K : T # {} /\ ~ \E x \in T : \A y \in T : x >= y}
  <1>1. ASSUME NEW T \in SUBSET K, \A U \in SUBSET T : U # T => U \notin Bad
        PROVE  T \notin Bad
    <2> SUFFICES ASSUME T # {}
                 PROVE  \E x \in T : \A y \in T : x >= y
      OBVIOUS
    <2>1. PICK x \in T : TRUE
      OBVIOUS
    <2>2. CASE T \ {x} = {}
      <3>1. \A y \in T : y = x /\ x \in Nat
        BY <2>2
      <3> QED BY <3>1
    <2>3. CASE T \ {x} # {}
      <3>1. T \ {x} \in SUBSET T /\ T \ {x} # T
        OBVIOUS
      <3>2. PICK z \in T \ {x} : \A y \in T \ {x} : z >= y
        BY <1>1, <2>3, <3>1
      <3>3. z \in Nat /\ x \in Nat /\ \A y \in T : y \in Nat
        OBVIOUS
      <3>4. CASE x >= z
        <4>1. \A y \in T : x >= y
          BY <3>2, <3>3, <3>4
        <4> QED BY <4>1
      <3>5. CASE ~ (x >= z)
        <4>1. \A y \in T : z >= y
          BY <3>2, <3>3, <3>5
        <4> QED BY <4>1
      <3> QED BY <3>4, <3>5
    <2> QED BY <2>2, <2>3
  <1>2. Bad = {}
    <2>1. Bad \in SUBSET SUBSET K
      OBVIOUS
    <2> HIDE DEF Bad
    <2> QED BY <1>1, <2>1, SmallestSubset
  <1>3. \E x \in K : \A y \in K : x >= y
    BY <1>2
  <1> QED BY <1>3 DEF Max

-----------------------------------------------------------------------------
LEMMA BlankRows == /\ NoSale \in SaleRows /\ GoneSale \in SaleRows /\ NoSheet \in SheetRows
                   /\ NoRound \in RoundRows /\ Errandless \in ErrandRows
  <1>1. NoSale \in SaleRows /\ GoneSale \in SaleRows
    BY DEF NoSale, GoneSale, SaleRows
  <1>2. NoSheet \in SheetRows /\ NoRound \in RoundRows /\ Errandless \in ErrandRows
    BY DEF NoSheet, NoRound, Errandless, SheetRows, RoundRows, ErrandRows,
           RoundSettlementStatus, Words, Places
  <1> QED BY <1>1, <1>2

\* No van has the number of what is not a van.
LEMMA VansAreVans == 0 \notin Van /\ Elsewhere \notin Van /\ Elsewhere # 0
  BY RoundsAssumption DEF Elsewhere

LEMMA RowIds ==
    /\ \A v \in Van : v \in Nat /\ v # 0
    /\ \A m \in Salesman : m \in Nat /\ m # 0
    /\ \A r \in Round : r \in Nat /\ r # 0
    /\ \A k \in Sheet : k \in Nat /\ k # 0
  BY RoundsAssumption

\* What the sales of a driver still cost their buyers, when none of them grows.
LEMMA OwedFalls ==
    ASSUME RoundTables, RoundTables', NEW v, NEW m,
           DrawerSales(v, m)' = DrawerSales(v, m),
           \A i \in DrawerSales(v, m) :
              sale'[i].total - sale'[i].back - sale'[i].in
                 <= sale[i].total - sale[i].back - sale[i].in
    PROVE  Outstanding(v, m) <= 0 => Outstanding(v, m)' <= 0
  <1>1. PICK D \in SUBSET Sale : D = DrawerSales(v, m)
    BY DEF DrawerSales, RoundInvoices
  <1>2. PICK f : f = [i \in Sale |-> sale[i].total - sale[i].back - sale[i].in]
    OBVIOUS
  <1>3. PICK g : g = [i \in Sale |-> sale'[i].total - sale'[i].back - sale'[i].in]
    OBVIOUS
  <1>4. IsFiniteSet(D)
    BY RoundsAssumption, FS_Subset
  <1>5. \A i \in D : sale[i] \in SaleRows /\ sale'[i] \in SaleRows
    BY DEF RoundTables
  <1>6. Whole(f, D) /\ Whole(g, D)
    BY <1>2, <1>3, <1>5 DEF Whole, SaleRows
  <1>7. Below(g, f, D)
    BY <1>1, <1>2, <1>3 DEF Below
  <1>8. SumFunctionOnSet(g, D) <= SumFunctionOnSet(f, D)
    BY <1>4, <1>6, <1>7, SumGrows
  <1>9. SumFunctionOnSet(f, D) \in Int /\ SumFunctionOnSet(g, D) \in Int
    BY <1>4, <1>6, SumInt
  <1>10. Outstanding(v, m) = SumFunctionOnSet(f, D)
    BY <1>1, <1>2 DEF Outstanding, NetDue
  <1>11. Outstanding(v, m)' = SumFunctionOnSet(g, D)
    BY <1>1, <1>3 DEF Outstanding, NetDue
  <1> QED BY <1>8, <1>9, <1>10, <1>11

\* Every buyer has paid for what he kept: nothing is owed.
LEMMA NothingOwed ==
    ASSUME RoundTables, NEW v, NEW m,
           \A i \in DrawerSales(v, m) : sale[i].total - sale[i].back <= sale[i].in
    PROVE  Outstanding(v, m) <= 0
  <1>1. PICK D \in SUBSET Sale : D = DrawerSales(v, m)
    BY DEF DrawerSales, RoundInvoices
  <1>2. PICK f : f = [i \in Sale |-> sale[i].total - sale[i].back - sale[i].in]
    OBVIOUS
  <1>3. PICK z : z = [i \in D |-> 0]
    OBVIOUS
  <1>4. IsFiniteSet(D)
    BY RoundsAssumption, FS_Subset
  <1>5. \A i \in D : sale[i] \in SaleRows
    BY DEF RoundTables
  <1>6. Whole(f, D) /\ Whole(z, D) /\ Below(f, z, D)
    BY <1>1, <1>2, <1>3, <1>5 DEF Whole, SaleRows, Below
  <1>7. SumFunctionOnSet(f, D) <= SumFunctionOnSet(z, D)
    BY <1>4, <1>6, SumGrows
  <1>8. SameTerms(z, [x \in D |-> 0], D)
    BY <1>3 DEF SameTerms
  <1>9. SumFunctionOnSet(z, D) = 0
    BY <1>4, <1>8, SumZero
  <1>10. Outstanding(v, m) = SumFunctionOnSet(f, D)
    BY <1>1, <1>2 DEF Outstanding, NetDue
  <1> QED BY <1>7, <1>9, <1>10

\* A salesman's open round is the one the position reads.
LEMMA HisRound ==
    ASSUME RoundIInv, NEW r \in Round, IsOpen(r), NEW who
    PROVE  WhoseRound(round[r].van, who) = round[r].by
  <1>1. r \in OpenRounds(round[r].van)
    BY DEF OpenRounds, IsOpen
  <1>2. PICK q : q = CHOOSE x \in OpenRounds(round[r].van) : TRUE
    OBVIOUS
  <1>3. q \in OpenRounds(round[r].van)
    BY <1>1, <1>2
  <1>4. q = r
    BY <1>3 DEF RoundIInv, RoundsHold, OpenRounds, IsOpen
  <1> QED BY <1>1, <1>2, <1>4 DEF WhoseRound

-----------------------------------------------------------------------------
LEMMA InitRoundIInv == RoundsInit => RoundIInv
  <1> SUFFICES ASSUME RoundsInit
               PROVE  RoundIInv
    OBVIOUS
  <1>1. RoundTables
    BY BlankRows, RoundsAssumption DEF RoundsInit, RoundTables
  <1>2. OneDriver
    BY RoundsAssumption DEF RoundsInit, OneDriver
  <1>3. SalesHold /\ DriverSold
    BY VansAreVans DEF RoundsInit, SalesHold, DriverSold, NoSale
  <1>4. RoundsHold
    BY DEF RoundsInit, RoundsHold, NoRound, IsOpen
  <1>5. \A s \in Session : office[s].at = "idle"
    BY DEF RoundsInit, Errandless
  <1>6. InHand /\ HeldAlone /\ StillOpen /\ PositionStands
    BY <1>5 DEF InHand, HeldAlone, StillOpen, PositionStands, Loaded
  <1> QED BY <1>1, <1>2, <1>3, <1>4, <1>6 DEF RoundIInv

\* A step of the day: no request moves and no round.
LEMMA DayKeeps ==
    ASSUME RoundIInv, UNCHANGED <<round, office, raced>>,
           RoundTables', OneDriver', SalesHold', PositionStands', DriverSold'
    PROVE  RoundIInv'
  <1>1. RoundsHold' /\ InHand' /\ HeldAlone' /\ StillOpen'
    BY DEF RoundIInv, RoundsHold, InHand, HeldAlone, StillOpen, IsOpen
  <1> QED BY <1>1 DEF RoundIInv

\* What a request read stays good over a step of the day that asks no more of the
\* sales it read, and that leaves the counts of its van alone.
LEMMA PositionKept ==
    ASSUME RoundIInv, RoundTables', UNCHANGED <<round, office, raced>>, late \subseteq late',
           \A k \in Sheet : sheet[k].van # 0 => sheet'[k] = sheet[k],
           NEW s \in Session, office[s].at = "sign",
           office[s].round \notin late' =>
             /\ CountsOf(office[s].van) = {} => CountsOf(office[s].van)' = {}
             /\ \A m \in Salesman :
                   /\ DrawerSales(office[s].van, m)' = DrawerSales(office[s].van, m)
                   /\ \A i \in DrawerSales(office[s].van, m) :
                         sale'[i].total - sale'[i].back - sale'[i].in
                            <= sale[i].total - sale[i].back - sale[i].in
    PROVE  Reads(s)'
  <1>1. PICK k \in ErrandRows : k = office[s] /\ k = office'[s]
    BY DEF RoundIInv, RoundTables
  <1>2. /\ k.sheet # 0 => sheet[k.sheet].van # 0
        /\ UnitsOff(k.sheet) # 0 => k.word # "none"
        /\ k.round \notin late \cup raced =>
              /\ Outstanding(k.van, round[k.round].by) <= 0
              /\ k.sheet = 0 => CountsOf(k.van) = {}
    BY <1>1 DEF RoundIInv, PositionStands, Reads
  <1>3. k.sheet # 0 => k.sheet \in Sheet
    BY DEF ErrandRows
  <1>4. k.sheet # 0 => sheet'[k.sheet] = sheet[k.sheet]
    BY <1>2, <1>3
  <1>5. UnitsOff(k.sheet)' = UnitsOff(k.sheet)
    BY <1>4 DEF UnitsOff
  <1>6. ASSUME k.round \notin late' \cup raced
        PROVE  Outstanding(k.van, round[k.round].by)' <= 0
    <2>1. k.round \in Round /\ round[k.round] \in RoundRows /\ round[k.round].status # "none"
      BY <1>1 DEF RoundIInv, RoundTables, InHand, Loaded, ErrandRows
    <2>2. round[k.round].by \in Salesman
      BY <2>1 DEF RoundIInv, RoundsHold, RoundRows
    <2>3. PICK v \in Van \cup {0}, m \in Salesman : v = k.van /\ m = round[k.round].by
      BY <2>2 DEF ErrandRows
    <2>4. /\ DrawerSales(v, m)' = DrawerSales(v, m)
          /\ \A i \in DrawerSales(v, m) : sale'[i].total - sale'[i].back - sale'[i].in
                                             <= sale[i].total - sale[i].back - sale[i].in
      BY <1>1, <1>6, <2>3
    <2>5. Outstanding(v, m) <= 0 => Outstanding(v, m)' <= 0
      BY <2>4, OwedFalls DEF RoundIInv
    <2>6. Outstanding(v, m) <= 0
      BY <1>2, <1>6, <2>3
    <2>7. round' = round
      OBVIOUS
    <2> QED BY <2>3, <2>5, <2>6, <2>7 DEF Outstanding, DrawerSales, RoundInvoices
  <1>7. k.round \notin late' /\ k.sheet = 0 /\ k.round \notin raced => CountsOf(k.van)' = {}
    BY <1>1, <1>2
  <1> QED BY <1>1, <1>2, <1>4, <1>5, <1>6, <1>7
       DEF Reads, UnitsOff, Outstanding, DrawerSales, RoundInvoices, CountsOf

LEMMA UpdateWarehouseKeeps ==
    ASSUME RoundIInv, NEW v \in Van, NEW m \in Salesman \cup {0}, NEW active \in BOOLEAN,
           UpdateWarehouse(v, m, active)
    PROVE  RoundIInv'
  <1>1. PICK d : d = [who |-> m, active |-> active]
    OBVIOUS
  <1>2. /\ driver' = [driver EXCEPT ![v] = d]
        /\ m # 0 /\ active => DrivesNoOther(v, m)
        /\ UNCHANGED <<sale, sheet, round, office, late, raced>>
    BY <1>1 DEF UpdateWarehouse
  <1>3. RoundTables'
    BY <1>1, <1>2 DEF RoundIInv, RoundTables
  <1>4. OneDriver'
    <2> SUFFICES ASSUME NEW x \in Van, NEW w \in Van, x # w, driver'[x] = driver'[w],
                        driver'[x].active
                 PROVE  driver'[x].who = 0
      BY DEF OneDriver
    <2>1. driver'[v] = d /\ \A y \in Van : y # v => driver'[y] = driver[y]
      BY <1>2 DEF RoundIInv, RoundTables
    <2>2. CASE x # v /\ w # v
      BY <2>1, <2>2 DEF RoundIInv, OneDriver
    <2>3. CASE x = v \/ w = v
      <3>1. PICK y \in Van \ {v} : driver[y] = d /\ d.active /\ driver'[x].who = d.who
        BY <2>1, <2>3
      <3> QED BY <1>1, <1>2, <3>1 DEF DrivesNoOther
    <2> QED BY <2>2, <2>3
  <1>5. SalesHold'
    BY <1>2 DEF RoundIInv, SalesHold
  <1>6. PositionStands'
    BY <1>2 DEF RoundIInv, PositionStands, Reads, UnitsOff, Outstanding, DrawerSales,
                RoundInvoices, CountsOf, NetDue
  <1>7. DriverSold'
    <2> SUFFICES ASSUME NEW i \in Sale, sale[i].van \in Van, sale[i].van \notin handedOver'
                 PROVE  driver'[sale[i].van].who = sale[i].by /\ sale[i].by # 0
      BY <1>2 DEF DriverSold
    <2>1. handedOver' = IF \E j \in Sale : sale[j].van = v /\ sale[j].by # m
                        THEN handedOver \cup {v} ELSE handedOver
      BY DEF UpdateWarehouse
    <2>2. CASE sale[i].van = v
      <3>1. sale[i].by = m /\ sale[i].van \notin handedOver
        BY <2>1, <2>2
      <3>2. sale[i].by # 0
        BY <3>1 DEF RoundIInv, DriverSold
      <3> QED BY <1>1, <1>2, <2>2, <3>1, <3>2 DEF RoundIInv, RoundTables
    <2>3. CASE sale[i].van # v
      <3>1. sale[i].van \notin handedOver
        BY <2>1
      <3> QED BY <1>2, <2>3, <3>1 DEF RoundIInv, RoundTables, DriverSold
    <2> QED BY <2>2, <2>3
  <1> QED BY <1>2, <1>3, <1>4, <1>5, <1>6, <1>7, DayKeeps

\* What is being signed was not read of a van that `late` takes in.
LEMMA NotOvertaken ==
    ASSUME NEW v, NEW s \in Session, office[s].at = "sign", office[s].round \notin Overtaken(v)
    PROVE  office[s].van # v
  BY DEF Overtaken

\* One invoice comes, changes or goes: no position read of its van, before or after, stands
\* outside `late`.
LEMMA ResoldKeeps ==
    ASSUME RoundIInv, NEW i \in Sale, NEW n \in SaleRows, sale' = [sale EXCEPT ![i] = n],
           n.van # 0, n.paid <= n.total, n.back <= n.total, n.paid <= n.in,
           n.van \in Van /\ n.van \notin handedOver' => driver[n.van].who = n.by /\ n.by # 0,
           handedOver \subseteq handedOver', late \subseteq late',
           \A s \in Session : office[s].at = "sign" /\ office[s].round \notin late' =>
              /\ sale[i].van # office[s].van
              /\ n.van # office[s].van \/ n.method \notin DRAWER_METHODS,
           UNCHANGED <<driver, sheet, round, office, raced>>
    PROVE  RoundIInv'
  <1>1. sale' \in [Sale -> SaleRows] /\ sale'[i] = n /\ \A j \in Sale : j # i => sale'[j] = sale[j]
    BY DEF RoundIInv, RoundTables
  <1>2. RoundTables' /\ OneDriver'
    BY <1>1 DEF RoundIInv, RoundTables, OneDriver
  <1>3. SalesHold'
    BY <1>1 DEF RoundIInv, SalesHold
  <1>4. ASSUME NEW s \in Session, office[s].at = "sign"
        PROVE  Reads(s)'
    <2>1. ASSUME office[s].round \notin late', NEW m \in Salesman
          PROVE  DrawerSales(office[s].van, m)' = DrawerSales(office[s].van, m)
                 /\ i \notin DrawerSales(office[s].van, m)
      <3>1. i \notin DrawerSales(office[s].van, m)
        BY <1>4, <2>1 DEF DrawerSales, RoundInvoices
      <3>2. n.van # office[s].van \/ n.method \notin DRAWER_METHODS
        BY <1>4, <2>1
      <3> QED BY <1>1, <3>1, <3>2 DEF DrawerSales, RoundInvoices
    <2>2. ASSUME office[s].round \notin late', NEW m \in Salesman,
                 NEW j \in DrawerSales(office[s].van, m)
          PROVE  sale'[j].total - sale'[j].back - sale'[j].in
                    <= sale[j].total - sale[j].back - sale[j].in
      <3>1. j \in Sale /\ j # i
        BY <2>1, <2>2 DEF DrawerSales, RoundInvoices
      <3>2. sale'[j] = sale[j] /\ sale[j] \in SaleRows
        BY <1>1, <3>1 DEF RoundIInv, RoundTables
      <3> QED BY <3>2 DEF SaleRows
    <2>3. CountsOf(office[s].van) = {} => CountsOf(office[s].van)' = {}
      BY DEF CountsOf
    <2> QED BY <1>2, <1>4, <2>1, <2>2, <2>3, PositionKept
  <1>5. PositionStands'
    BY <1>4 DEF PositionStands
  <1>6. DriverSold'
    <2> SUFFICES ASSUME NEW j \in Sale, sale'[j].van \in Van, sale'[j].van \notin handedOver'
                 PROVE  driver[sale'[j].van].who = sale'[j].by /\ sale'[j].by # 0
      BY DEF DriverSold
    <2>1. CASE j = i
      BY <1>1, <2>1
    <2>2. CASE j # i
      BY <1>1, <2>2 DEF RoundIInv, DriverSold
    <2> QED BY <2>1, <2>2
  <1> QED BY <1>2, <1>3, <1>5, <1>6, DayKeeps

\* A request that signs has a van.
LEMMA SignsForVan ==
    ASSUME RoundIInv, NEW s \in Session, office[s].at = "sign"
    PROVE  office[s].van # 0
  BY RowIds DEF RoundIInv, InHand, RoundsHold, Loaded, RoundTables, ErrandRows

LEMMA SellOffVanKeeps ==
    ASSUME RoundIInv, NEW v \in Van, NEW method \in Method, SellOffVan(v, method)
    PROVE  RoundIInv'
  <1>1. PICK n : n = [van |-> v, by |-> driver[v].who, method |-> method,
                      total |-> Total, back |-> 0, paid |-> 0,
                      done |-> method \notin DRAWER_METHODS, in |-> 0]
    OBVIOUS
  <1>2. PICK i \in Sale : sale[i].van = 0 /\ sale' = [sale EXCEPT ![i] = n]
    <2> DEFINE free == NextId([x \in Sale |-> sale[x].van], Sale, 0)
    <2>1. free # 0 /\ sale' = [sale EXCEPT ![free] = n]
      BY <1>1 DEF SellOffVan
    <2>2. Sale \in SUBSET Nat
      BY RoundsAssumption
    <2>3. free \in Sale /\ [x \in Sale |-> sale[x].van][free] = 0
      BY <2>1, <2>2, NextFree
    <2> QED BY <2>1, <2>3
  <1>3. /\ UNCHANGED <<driver, sheet, round, office, raced, handedOver>>
        /\ late' = late \cup IF method \in DRAWER_METHODS THEN Overtaken(v) ELSE {}
        /\ driver[v].who # 0
    BY DEF SellOffVan
  <1>4. n \in SaleRows
    <2>1. driver[v].who \in Salesman \cup {0} /\ Total \in Nat
      BY RoundsAssumption DEF RoundIInv, RoundTables
    <2>2. (method \notin DRAWER_METHODS) \in BOOLEAN
      OBVIOUS
    <2> QED BY <1>1, <2>1, <2>2 DEF SaleRows
  <1>5. n.van # 0 /\ n.paid <= n.total /\ n.back <= n.total /\ n.paid <= n.in
    BY <1>1, RoundsAssumption
  <1>6. n.van = v /\ n.method = method /\ n.by = driver[v].who
    BY <1>1
  <1>7. ASSUME NEW s \in Session, office[s].at = "sign", office[s].round \notin late'
        PROVE  /\ sale[i].van # office[s].van
               /\ n.van # office[s].van \/ n.method \notin DRAWER_METHODS
    <2>1. sale[i].van # office[s].van
      BY <1>2, <1>7, SignsForVan
    <2>2. CASE method \in DRAWER_METHODS
      BY <1>3, <1>6, <1>7, <2>1, <2>2, NotOvertaken
    <2>3. CASE method \notin DRAWER_METHODS
      BY <1>6, <2>1, <2>3
    <2> QED BY <2>2, <2>3
  <1>8. late \subseteq late' /\ handedOver \subseteq handedOver'
    BY <1>3
  <1> QED BY <1>2, <1>3, <1>4, <1>5, <1>6, <1>7, <1>8, ResoldKeeps

LEMMA UndoReturnKeeps ==
    ASSUME RoundIInv, NEW i \in Sale, UndoReturn(i)
    PROVE  RoundIInv'
  <1>1. PICK k : k = [sale[i] EXCEPT !.back = @ - 1]
    OBVIOUS
  <1>2. /\ sale' = [sale EXCEPT ![i] = k] /\ sale[i].back > 0
        /\ late' = late \cup Overtaken(sale[i].van)
        /\ UNCHANGED <<driver, sheet, round, office, raced, handedOver>>
    BY <1>1 DEF UndoReturn
  <1>3. sale[i] \in SaleRows
    BY DEF RoundIInv, RoundTables
  <1>4. sale[i].van # 0
    BY <1>2 DEF RoundIInv, SalesHold, NoSale
  <1>5. sale[i].back - 1 \in Nat
    BY <1>2, <1>3 DEF SaleRows
  <1>6. k \in SaleRows /\ k.van = sale[i].van /\ k.by = sale[i].by /\ k.total = sale[i].total
        /\ k.back = sale[i].back - 1 /\ k.paid = sale[i].paid /\ k.in = sale[i].in
    BY <1>1, <1>3, <1>5 DEF SaleRows
  <1>7. k.paid <= k.total /\ k.back <= k.total /\ k.paid <= k.in
    BY <1>3, <1>6 DEF SaleRows, RoundIInv, SalesHold
  <1>8. ASSUME NEW s \in Session, office[s].at = "sign", office[s].round \notin late'
        PROVE  sale[i].van # office[s].van /\ k.van # office[s].van
    BY <1>2, <1>6, <1>8, NotOvertaken
  <1>9. k.van \in Van /\ k.van \notin handedOver' => driver[k.van].who = k.by /\ k.by # 0
    BY <1>2, <1>6 DEF RoundIInv, DriverSold
  <1>10. late \subseteq late' /\ handedOver \subseteq handedOver'
    BY <1>2
  <1> QED BY <1>2, <1>4, <1>6, <1>7, <1>8, <1>9, <1>10, ResoldKeeps

LEMMA EditSaleKeeps ==
    ASSUME RoundIInv, NEW i \in Sale, NEW v \in Van \cup {Elsewhere},
           NEW m \in Salesman \cup {0}, NEW method \in Method, NEW n \in 1..Total,
           EditSale(i, v, m, method, n)
    PROVE  RoundIInv'
  <1>1. PICK k : k = [van |-> v, by |-> m, method |-> method,
                      total |-> n, back |-> 0, paid |-> 0,
                      done |-> method \notin DRAWER_METHODS, in |-> sale[i].in]
    OBVIOUS
  <1>2. /\ sale' = [sale EXCEPT ![i] = k]
        /\ late' = late \cup Overtaken(sale[i].van) \cup Overtaken(v)
        /\ handedOver' = handedOver \cup {w \in {v} \cap Van : m = 0 \/ m # driver[w].who}
        /\ UNCHANGED <<driver, sheet, round, office, raced>>
    BY <1>1 DEF EditSale
  <1>3. sale[i].in \in Nat /\ n \in Nat
    <2>1. sale[i] \in SaleRows
      BY DEF RoundIInv, RoundTables
    <2> QED BY <2>1, RoundsAssumption DEF SaleRows
  <1>4. k \in SaleRows
    <2>1. (method \notin DRAWER_METHODS) \in BOOLEAN
      OBVIOUS
    <2> QED BY <1>1, <1>3, <2>1 DEF SaleRows
  <1>5. k.van = v /\ k.by = m /\ k.total = n /\ k.back = 0 /\ k.paid = 0 /\ k.in = sale[i].in
    BY <1>1
  <1>6. k.van # 0 /\ k.paid <= k.total /\ k.back <= k.total /\ k.paid <= k.in
    BY <1>3, <1>5, VansAreVans
  <1>7. ASSUME NEW s \in Session, office[s].at = "sign", office[s].round \notin late'
        PROVE  sale[i].van # office[s].van /\ k.van # office[s].van
    BY <1>2, <1>5, <1>7, NotOvertaken
  <1>8. k.van \in Van /\ k.van \notin handedOver' => driver[k.van].who = k.by /\ k.by # 0
    <2> SUFFICES ASSUME v \in Van, v \notin handedOver'
                 PROVE  driver[v].who = m /\ m # 0
      BY <1>5
    <2>1. v \notin {w \in {v} \cap Van : m = 0 \/ m # driver[w].who}
      BY <1>2
    <2>2. ~ (m = 0 \/ m # driver[v].who)
      BY <2>1
    <2> QED BY <2>2
  <1>9. /\ late \subseteq late' /\ handedOver \subseteq handedOver'
        /\ sale' = [sale EXCEPT ![i] = k] /\ UNCHANGED <<driver, sheet, round, office, raced>>
    BY <1>2
  <1> QED BY <1>4, <1>6, <1>7, <1>8, <1>9, ResoldKeeps

LEMMA DeleteSaleKeeps ==
    ASSUME RoundIInv, NEW i \in Sale, DeleteSale(i)
    PROVE  RoundIInv'
  <1>1. /\ sale' = [sale EXCEPT ![i] = GoneSale]
        /\ late' = late \cup Overtaken(sale[i].van)
        /\ UNCHANGED <<driver, sheet, round, office, raced, handedOver>>
    BY DEF DeleteSale
  <1>2. /\ GoneSale.van = Elsewhere /\ GoneSale.method = "none" /\ GoneSale.paid = 0
        /\ GoneSale.total = 0 /\ GoneSale.back = 0 /\ GoneSale.in = 0
    BY DEF GoneSale, NoSale
  <1>3. GoneSale.van # 0 /\ GoneSale.van \notin Van /\ GoneSale.method \notin DRAWER_METHODS
    BY <1>2, VansAreVans DEF DRAWER_METHODS
  <1>4. /\ GoneSale.paid <= GoneSale.total /\ GoneSale.back <= GoneSale.total
        /\ GoneSale.paid <= GoneSale.in
    BY <1>2
  <1>5. ASSUME NEW s \in Session, office[s].at = "sign", office[s].round \notin late'
        PROVE  sale[i].van # office[s].van
    BY <1>1, <1>5, NotOvertaken
  <1>6. late \subseteq late' /\ handedOver \subseteq handedOver'
    BY <1>1
  <1> QED BY <1>1, <1>3, <1>4, <1>5, <1>6, BlankRows, ResoldKeeps

\* Money comes in or goods come back: of one sale, and what it still costs falls.
LEMMA PaidKeeps ==
    ASSUME RoundIInv, NEW i \in Sale, NEW n \in SaleRows, sale' = [sale EXCEPT ![i] = n],
           n.van = sale[i].van, n.by = sale[i].by, n.method = sale[i].method, n.van # 0,
           n.paid <= n.total, n.back <= n.total, n.paid <= n.in,
           n.total - n.back - n.in <= sale[i].total - sale[i].back - sale[i].in,
           UNCHANGED <<driver, sheet, round, office, late, raced, handedOver>>
    PROVE  RoundIInv'
  <1>1. sale' \in [Sale -> SaleRows] /\ sale'[i] = n /\ \A j \in Sale : j # i => sale'[j] = sale[j]
    BY DEF RoundIInv, RoundTables
  <1>2. RoundTables' /\ OneDriver'
    BY <1>1 DEF RoundIInv, RoundTables, OneDriver
  <1>3. SalesHold' /\ DriverSold'
    BY <1>1 DEF RoundIInv, SalesHold, DriverSold
  <1>4. \A j \in Sale : sale'[j].total - sale'[j].back - sale'[j].in
                           <= sale[j].total - sale[j].back - sale[j].in
    <2> SUFFICES ASSUME NEW j \in Sale
                 PROVE  sale'[j].total - sale'[j].back - sale'[j].in
                           <= sale[j].total - sale[j].back - sale[j].in
      OBVIOUS
    <2>1. CASE j = i
      BY <1>1, <2>1
    <2>2. CASE j # i
      <3>1. sale'[j] = sale[j] /\ sale[j] \in SaleRows
        BY <1>1, <2>2 DEF RoundIInv, RoundTables
      <3> QED BY <3>1 DEF SaleRows
    <2> QED BY <2>1, <2>2
  <1>5. ASSUME NEW s \in Session, office[s].at = "sign"
        PROVE  Reads(s)'
    <2>1. \A m \in Salesman : DrawerSales(office[s].van, m)' = DrawerSales(office[s].van, m)
      <3>1. \A j \in Sale : sale'[j].van = sale[j].van /\ sale'[j].by = sale[j].by
                            /\ sale'[j].method = sale[j].method
        BY <1>1
      <3> QED BY <3>1 DEF DrawerSales, RoundInvoices
    <2>2. \A m \in Salesman : DrawerSales(office[s].van, m) \subseteq Sale
      BY DEF DrawerSales, RoundInvoices
    <2>3. CountsOf(office[s].van) = {} => CountsOf(office[s].van)' = {}
      BY DEF CountsOf
    <2> QED BY <1>2, <1>4, <1>5, <2>1, <2>2, <2>3, PositionKept
  <1>6. PositionStands'
    BY <1>5 DEF PositionStands
  <1> QED BY <1>2, <1>3, <1>6, DayKeeps

LEMMA CollectSaleKeeps ==
    ASSUME RoundIInv, NEW i \in Sale, NEW n \in 1..Total, CollectSale(i, n)
    PROVE  RoundIInv'
  <1>1. PICK d \in BOOLEAN : d = (sale[i].paid + n >= NetDue(i))
    <2>1. (sale[i].paid + n >= NetDue(i)) \in BOOLEAN
      OBVIOUS
    <2> QED BY <2>1, Zenon
  <1>2. PICK k : k = [sale[i] EXCEPT !.paid = @ + n, !.in = @ + n, !.done = d]
    OBVIOUS
  <1>3. /\ sale' = [sale EXCEPT ![i] = k]
        /\ n <= sale[i].total - sale[i].back - sale[i].paid
        /\ sale[i].method \in DRAWER_METHODS
        /\ UNCHANGED <<driver, sheet, round, office, late, raced, handedOver>>
    BY <1>1, <1>2 DEF CollectSale, NetDue
  <1>4. sale[i] \in SaleRows /\ n \in Nat
    BY RoundsAssumption DEF RoundIInv, RoundTables
  <1>5. sale[i].van # 0
    BY <1>3 DEF RoundIInv, SalesHold, NoSale, DRAWER_METHODS
  <1>6. /\ k \in SaleRows /\ k.van = sale[i].van /\ k.by = sale[i].by
        /\ k.method = sale[i].method /\ k.total = sale[i].total /\ k.back = sale[i].back
        /\ k.paid = sale[i].paid + n /\ k.in = sale[i].in + n
    <2>1. k = [van |-> sale[i].van, by |-> sale[i].by,
               method |-> sale[i].method, total |-> sale[i].total, back |-> sale[i].back,
               paid |-> sale[i].paid + n, done |-> d, in |-> sale[i].in + n]
      BY <1>2, <1>4 DEF SaleRows
    <2>2. sale[i].paid + n \in Nat /\ sale[i].in + n \in Nat
      BY <1>4 DEF SaleRows
    <2>3. k \in SaleRows
      BY <1>4, <2>1, <2>2 DEF SaleRows
    <2> QED BY <2>1, <2>3
  <1>7. sale[i].paid <= sale[i].in /\ sale[i].back <= sale[i].total
    BY DEF RoundIInv, SalesHold
  <1>8. /\ k.paid <= k.total /\ k.back <= k.total /\ k.paid <= k.in
        /\ k.total - k.back - k.in <= sale[i].total - sale[i].back - sale[i].in
    BY <1>3, <1>4, <1>6, <1>7 DEF SaleRows
  <1> QED BY <1>3, <1>5, <1>6, <1>8, PaidKeeps

LEMMA TakeBackKeeps ==
    ASSUME RoundIInv, NEW i \in Sale, TakeBack(i)
    PROVE  RoundIInv'
  <1>1. PICK k : k = [sale[i] EXCEPT !.back = @ + 1]
    OBVIOUS
  <1>2. /\ sale' = [sale EXCEPT ![i] = k] /\ sale[i].back < sale[i].total
        /\ UNCHANGED <<driver, sheet, round, office, late, raced, handedOver>>
    BY <1>1 DEF TakeBack
  <1>3. sale[i] \in SaleRows
    BY DEF RoundIInv, RoundTables
  <1>4. sale[i].van # 0
    BY <1>2 DEF RoundIInv, SalesHold, NoSale
  <1>5. k \in SaleRows /\ k.van = sale[i].van /\ k.by = sale[i].by /\ k.method = sale[i].method
        /\ k.total = sale[i].total /\ k.back = sale[i].back + 1 /\ k.in = sale[i].in
        /\ k.paid = sale[i].paid
    BY <1>1, <1>3 DEF SaleRows
  <1>6. /\ k.paid <= k.total /\ k.back <= k.total /\ k.paid <= k.in
        /\ k.total - k.back - k.in <= sale[i].total - sale[i].back - sale[i].in
    BY <1>2, <1>3, <1>5 DEF SaleRows, RoundIInv, SalesHold
  <1> QED BY <1>2, <1>4, <1>5, <1>6, PaidKeeps

LEMMA PostVanCountKeeps ==
    ASSUME RoundIInv, NEW v \in Van, NEW diff \in Outcome, PostVanCount(v, diff)
    PROVE  RoundIInv'
  <1>1. PICK n : n = [van |-> v, diff |-> diff]
    OBVIOUS
  <1>2. PICK i \in Sheet : sheet[i].van = 0 /\ sheet' = [sheet EXCEPT ![i] = n]
    <2> DEFINE free == NextId([x \in Sheet |-> sheet[x].van], Sheet, 0)
    <2>1. free # 0 /\ sheet' = [sheet EXCEPT ![free] = n]
      BY <1>1 DEF PostVanCount
    <2>2. Sheet \in SUBSET Nat
      BY RoundsAssumption
    <2>3. free \in Sheet /\ [x \in Sheet |-> sheet[x].van][free] = 0
      BY <2>1, <2>2, NextFree
    <2> QED BY <2>1, <2>3
  <1>3. /\ UNCHANGED <<driver, sale, round, office, raced, handedOver>>
        /\ late' = late \cup Overtaken(v)
    BY DEF PostVanCount
  <1>4. n \in SheetRows
    BY <1>1 DEF SheetRows
  <1>5. sheet' \in [Sheet -> SheetRows] /\ sheet'[i] = n
        /\ \A j \in Sheet : j # i => sheet'[j] = sheet[j]
    BY <1>2, <1>4 DEF RoundIInv, RoundTables
  <1>6. RoundTables' /\ OneDriver' /\ SalesHold' /\ DriverSold'
    BY <1>3, <1>5 DEF RoundIInv, RoundTables, OneDriver, SalesHold, DriverSold
  <1>7. ASSUME NEW s \in Session, office[s].at = "sign"
        PROVE  Reads(s)'
    <2>1. ASSUME office[s].round \notin late'
          PROVE  office[s].van # v
      BY <1>3, <1>7, <2>1 DEF Overtaken
    <2>2. ASSUME office[s].round \notin late', CountsOf(office[s].van) = {}
          PROVE  CountsOf(office[s].van)' = {}
      BY <1>1, <1>3, <1>5, <2>1, <2>2 DEF CountsOf
    <2>3. ASSUME NEW m \in Salesman
          PROVE  DrawerSales(office[s].van, m)' = DrawerSales(office[s].van, m)
      BY <1>3 DEF DrawerSales, RoundInvoices
    <2>4. ASSUME NEW j \in Sale
          PROVE  sale'[j].total - sale'[j].back - sale'[j].in
                    <= sale[j].total - sale[j].back - sale[j].in
      <3>1. sale'[j] = sale[j] /\ sale[j] \in SaleRows
        BY <1>3 DEF RoundIInv, RoundTables
      <3> QED BY <3>1 DEF SaleRows
    <2>5. \A m \in Salesman : DrawerSales(office[s].van, m) \subseteq Sale
      BY DEF DrawerSales, RoundInvoices
    <2>6. \A k \in Sheet : sheet[k].van # 0 => sheet'[k] = sheet[k]
      BY <1>2, <1>5
    <2> QED BY <1>3, <1>6, <1>7, <2>2, <2>3, <2>4, <2>5, <2>6, PositionKept
  <1>8. PositionStands'
    BY <1>3, <1>7 DEF PositionStands
  <1> QED BY <1>3, <1>6, <1>8, DayKeeps

\* What a request read is as good as before when no sale and no count has moved.
LEMMA ReadsAgain ==
    ASSUME UNCHANGED <<sale, sheet, late>>, raced \subseteq raced',
           NEW s \in Session, NEW k, office'[s] = k, NEW m, round'[k.round].by = m,
           k.sheet # 0 => sheet[k.sheet].van # 0,
           UnitsOff(k.sheet) # 0 => k.word # "none",
           k.round \notin late \cup raced =>
              Outstanding(k.van, m) <= 0 /\ (k.sheet = 0 => CountsOf(k.van) = {})
    PROVE  Reads(s)'
  <1>1. UnitsOff(k.sheet)' = UnitsOff(k.sheet)
    BY DEF UnitsOff
  <1>2. DrawerSales(k.van, m)' = DrawerSales(k.van, m)
    BY DEF DrawerSales, RoundInvoices
  <1>3. [i \in Sale |-> NetDue(i) - sale[i].in]' = [i \in Sale |-> NetDue(i) - sale[i].in]
    BY DEF NetDue
  <1>4. Outstanding(k.van, m)' = Outstanding(k.van, m)
    BY <1>2, <1>3 DEF Outstanding
  <1>5. CountsOf(k.van)' = CountsOf(k.van)
    BY DEF CountsOf
  <1> QED BY <1>1, <1>4, <1>5 DEF Reads

\* A step of one request: what the others hold stands.
LEMMA AskKeeps ==
    ASSUME RoundIInv, UNCHANGED <<driver, sale, sheet, late, handedOver>>,
           raced \subseteq raced', round' \in [Round -> RoundRows], RoundsHold',
           NEW s \in Session, NEW k \in ErrandRows, office' = [office EXCEPT ![s] = k],
           \A r \in Round : round[r].status # "none" =>
              /\ round'[r].van = round[r].van /\ round'[r].by = round[r].by
              /\ round'[r].status # "none",
           \A q \in Session \ {s} :
              office[q].at \in Loaded /\ office[q].round \notin raced' => IsOpen(office[q].round)',
           k.at = "file" => k.van # 0 /\ k.by # 0,
           k.at \in Loaded =>
              /\ k.round # 0 /\ round'[k.round].status # "none" /\ k.van = round'[k.round].van
              /\ k.round \notin raced' => IsOpen(k.round)'
              /\ \A q \in Session \ {s} :
                    office[q].at \in Loaded /\ office[q].round = k.round => k.round \in raced',
           k.at = "sign" => Reads(s)'
    PROVE  RoundIInv'
  <1>1. /\ office' \in [Session -> ErrandRows] /\ office'[s] = k
        /\ \A q \in Session : q # s => office'[q] = office[q]
    BY DEF RoundIInv, RoundTables
  <1>2. RoundTables' /\ OneDriver' /\ SalesHold' /\ DriverSold'
    BY <1>1 DEF RoundIInv, RoundTables, OneDriver, SalesHold, DriverSold
  <1>3. ASSUME NEW q \in Session \ {s}, office[q].at \in Loaded
        PROVE  /\ office[q].round \in Round /\ round[office[q].round].status # "none"
               /\ office[q].van = round[office[q].round].van /\ office[q].round # 0
    BY <1>3 DEF RoundIInv, RoundTables, InHand, ErrandRows
  <1>4. InHand'
    <2>1. ASSUME NEW q \in Session \ {s}
          PROVE  /\ office[q].at = "file" => office[q].van # 0 /\ office[q].by # 0
                 /\ office[q].at \in Loaded => /\ office[q].round # 0
                                               /\ round'[office[q].round].status # "none"
                                               /\ office[q].van = round'[office[q].round].van
      BY <1>3, <2>1 DEF RoundIInv, InHand
    <2> QED BY <1>1, <2>1 DEF InHand
  <1>5. HeldAlone'
    <2> SUFFICES ASSUME NEW p \in Session, NEW q \in Session, p # q,
                        office'[p].at \in Loaded, office'[q].at \in Loaded,
                        office'[p].round = office'[q].round
                 PROVE  office'[p].round \in raced'
      BY DEF HeldAlone
    <2>1. CASE p # s /\ q # s
      BY <1>1, <2>1 DEF RoundIInv, HeldAlone
    <2>2. CASE p = s
      BY <1>1, <2>2
    <2>3. CASE q = s
      BY <1>1, <2>3
    <2> QED BY <2>1, <2>2, <2>3
  <1>6. StillOpen'
    BY <1>1 DEF StillOpen, IsOpen
  <1>7. ASSUME NEW q \in Session \ {s}, office[q].at = "sign"
        PROVE  Reads(q)'
    <2>1. office'[q] = office[q]
      BY <1>1
    <2>2. Reads(q)
      BY <1>7 DEF RoundIInv, PositionStands
    <2>3. round'[office[q].round].by = round[office[q].round].by
      BY <1>3, <1>7 DEF Loaded
    <2>4. PICK x, m : x = office[q] /\ m = round[x.round].by
      OBVIOUS
    <2> QED BY <2>1, <2>2, <2>3, <2>4, ReadsAgain DEF Reads
  <1>8. PositionStands'
    BY <1>1, <1>7 DEF PositionStands
  <1> QED BY <1>2, <1>4, <1>5, <1>6, <1>8 DEF RoundIInv

\* The same, when the rounds stand as they were.
LEMMA LookKeeps ==
    ASSUME RoundIInv, UNCHANGED <<driver, sale, sheet, round, late, handedOver>>,
           raced \subseteq raced',
           NEW s \in Session, NEW k \in ErrandRows, office' = [office EXCEPT ![s] = k],
           k.at = "file" => k.van # 0 /\ k.by # 0,
           k.at \in Loaded =>
              /\ k.round # 0 /\ round[k.round].status # "none" /\ k.van = round[k.round].van
              /\ k.round \notin raced' => IsOpen(k.round)
              /\ \A q \in Session \ {s} :
                    office[q].at \in Loaded /\ office[q].round = k.round => k.round \in raced',
           k.at = "sign" => Reads(s)'
    PROVE  RoundIInv'
  <1>1. round' \in [Round -> RoundRows] /\ RoundsHold'
    BY DEF RoundIInv, RoundTables, RoundsHold, IsOpen
  <1>2. \A q \in Session \ {s} :
           office[q].at \in Loaded /\ office[q].round \notin raced' => IsOpen(office[q].round)'
    BY DEF RoundIInv, StillOpen, IsOpen
  <1>3. k.at \in Loaded /\ k.round \notin raced' => IsOpen(k.round)'
    BY DEF IsOpen
  <1> QED BY <1>1, <1>2, <1>3, AskKeeps

LEMMA AbortErrandKeeps ==
    ASSUME RoundIInv, NEW s \in Session, AbortErrand(s)
    PROVE  RoundIInv'
  <1>1. /\ office' = [office EXCEPT ![s] = Errandless]
        /\ UNCHANGED <<driver, sale, sheet, round, late, raced, handedOver>>
    BY DEF AbortErrand, Goes, Keep, roundRows
  <1>2. Errandless \in ErrandRows /\ Errandless.at = "idle"
    BY BlankRows DEF Errandless
  <1> QED BY <1>1, <1>2, LookKeeps DEF Loaded

LEMMA LookForRoundKeeps ==
    ASSUME RoundIInv, NEW s \in Session, NEW v \in Van, NEW op \in {"open", "close"},
           LookForRound(s, v, op)
    PROVE  RoundIInv'
  <1>1. PICK k : k = [op |-> op, at |-> "file", van |-> v, round |-> 0, by |-> driver[v].who,
                      sheet |-> 0, word |-> "none"]
    OBVIOUS
  <1>2. /\ office' = [office EXCEPT ![s] = k] /\ driver[v].who # 0
        /\ UNCHANGED <<driver, sale, sheet, round, late, raced, handedOver>>
    BY <1>1 DEF LookForRound, Goes, Keep, roundRows
  <1>3. driver[v].who \in Salesman \cup {0}
    BY DEF RoundIInv, RoundTables
  <1>4. k \in ErrandRows /\ k.at = "file" /\ k.van # 0 /\ k.by # 0
    BY <1>1, <1>2, <1>3, RowIds DEF ErrandRows, Places, Words
  <1> QED BY <1>2, <1>4, LookKeeps DEF Loaded

LEMMA LoadRoundKeeps ==
    ASSUME RoundIInv, NEW s \in Session, NEW r \in Round, NEW op \in {"close", "drop"},
           LoadRound(s, r, op)
    PROVE  RoundIInv'
  <1>1. round[r].van \in Van /\ r # 0 /\ round[r].status # "none"
    <2>1. round[r].status # "none" /\ round[r] \in RoundRows
      BY DEF LoadRound, IsOpen, RoundIInv, RoundTables
    <2>2. round[r].van # 0
      BY <2>1 DEF RoundIInv, RoundsHold
    <2> QED BY <2>1, <2>2, RowIds DEF RoundRows
  <1>2. PICK k : \E who \in Salesman \cup {0} :
           /\ k = [op |-> op, at |-> IF op = "close" THEN "position" ELSE "drop",
                   van |-> round[r].van, round |-> r, by |-> who, sheet |-> 0, word |-> "none"]
           /\ office' = [office EXCEPT ![s] = k]
    <2>1. DriverKnown(s, r) \subseteq Salesman \cup {0}
      BY <1>1 DEF DriverKnown, RoundIInv, RoundTables, ErrandRows
    <2> QED BY <2>1 DEF LoadRound, Goes
  <1>3. /\ IsOpen(r)
        /\ raced' = IF \E q \in Session \ {s} : office[q].round = r /\ office[q].at # "load"
                    THEN raced \cup {r} ELSE raced
        /\ UNCHANGED <<driver, sale, sheet, round, late, handedOver>>
    BY DEF LoadRound, roundRows
  <1>4. k.at \in {"position", "drop"}
    BY <1>2
  <1>5. k \in ErrandRows /\ k.round = r /\ k.van = round[r].van
    BY <1>1, <1>2 DEF ErrandRows, Places, Words
  <1>6. \A q \in Session \ {s} : office[q].at \in Loaded /\ office[q].round = r => r \in raced'
    BY <1>3 DEF Loaded
  <1> QED BY <1>1, <1>2, <1>3, <1>4, <1>5, <1>6, LookKeeps

LEMMA ReadPositionKeeps ==
    ASSUME RoundIInv, NEW s \in Session, NEW linked \in Sheet \cup {0}, NEW word \in Words,
           ReadPosition(s, linked, word)
    PROVE  RoundIInv'
  <1> DEFINE v == office[s].van
             r == office[s].round
             who == IF office[s].by # 0 THEN office[s].by ELSE driver[v].who
             n == IF linked = 0 THEN AdoptedCount(v) ELSE linked
  <1>1. PICK k : k = [op |-> "close", at |-> "sign", van |-> v, round |-> r, by |-> 0,
                      sheet |-> n, word |-> word]
    OBVIOUS
  <1>2. /\ office' = [office EXCEPT ![s] = k] /\ office[s].at = "position"
        /\ MayClose(v, who, n, word) /\ (linked # 0 => sheet[linked].van # 0)
        /\ UNCHANGED <<driver, sale, sheet, round, late, raced, handedOver>>
    BY <1>1 DEF ReadPosition, Goes, Keep, roundRows
  <1>3. /\ r \in Round /\ r # 0 /\ round[r].status # "none" /\ v = round[r].van
        /\ v \in Van /\ v # 0 /\ (r \notin raced => IsOpen(r))
    <2>1. office[s] \in ErrandRows /\ office[s].at \in Loaded
      BY <1>2 DEF RoundIInv, RoundTables, Loaded
    <2>2. r \in Round /\ r # 0 /\ round[r].status # "none" /\ v = round[r].van
      BY <2>1 DEF RoundIInv, InHand, ErrandRows
    <2>3. v \in Van /\ v # 0
      BY <2>1, <2>2, RowIds DEF RoundIInv, RoundsHold, ErrandRows
    <2>4. r \notin raced => IsOpen(r)
      BY <2>1 DEF RoundIInv, StillOpen
    <2> QED BY <2>2, <2>3, <2>4
  <1>4. /\ n \in Sheet \cup {0} /\ (n # 0 => sheet[n].van # 0)
        /\ n = 0 => CountsOf(v) = {}
    <2>1. CASE linked # 0
      BY <1>2, <2>1
    <2>2. CASE linked = 0 /\ CountsOf(v) = {}
      BY <2>2 DEF AdoptedCount
    <2>3. CASE linked = 0 /\ CountsOf(v) # {}
      <3>1. CountsOf(v) \in SUBSET Sheet
        BY DEF CountsOf
      <3>2. CountsOf(v) \in SUBSET Nat /\ IsFiniteSet(CountsOf(v))
        BY <3>1, RoundsAssumption, FS_Subset
      <3>3. Max(CountsOf(v)) \in CountsOf(v)
        BY <2>3, <3>2, LastId
      <3>4. n = Max(CountsOf(v))
        BY <2>3 DEF AdoptedCount
      <3>5. n \in Sheet /\ sheet[n].van = v
        BY <3>3, <3>4 DEF CountsOf
      <3> QED BY <1>3, <3>5, RowIds
    <2> QED BY <2>1, <2>2, <2>3
  <1>5. r \notin raced => Outstanding(v, round[r].by) <= 0
    <2> SUFFICES ASSUME r \notin raced
                 PROVE  Outstanding(v, round[r].by) <= 0
      OBVIOUS
    <2>1. WhoseRound(v, who) = round[r].by
      BY <1>3, HisRound
    <2> QED BY <1>2, <2>1 DEF MayClose
  <1>6. UnitsOff(n) # 0 => word # "none"
    BY <1>2 DEF MayClose
  <1> HIDE DEF v, r, who, n
  <1>7. k \in ErrandRows /\ k.at = "sign" /\ k.round = r /\ k.van = v /\ k.sheet = n /\ k.word = word
    BY <1>1, <1>3, <1>4 DEF ErrandRows, Places
  <1>8. office'[s] = k
    BY <1>2 DEF RoundIInv, RoundTables
  <1>9. Reads(s)'
    <2>1. PICK m : m = round[r].by
      OBVIOUS
    <2> QED BY <1>2, <1>4, <1>5, <1>6, <1>7, <1>8, <2>1, ReadsAgain
  <1>10. \A q \in Session \ {s} : office[q].at \in Loaded /\ office[q].round = r => r \in raced
    BY <1>2 DEF RoundIInv, HeldAlone, Loaded, r
  <1> QED BY <1>2, <1>3, <1>7, <1>9, <1>10, LookKeeps DEF Loaded

LEMMA FileRoundKeeps ==
    ASSUME RoundIInv, NEW s \in Session, FileRound(s)
    PROVE  RoundIInv'
  <1>1. PICK e \in ErrandRows : e = office[s]
    BY DEF RoundIInv, RoundTables
  <1>2. PICK n : n = [van |-> e.van, by |-> e.by, status |-> "open", sheet |-> 0, word |-> "none"]
    OBVIOUS
  <1>3. PICK r \in Round : round[r].status = "none" /\ round' = [round EXCEPT ![r] = n]
    <2> DEFINE free == NextId([x \in Round |-> round[x].status], Round, "none")
    <2>1. free # 0 /\ round' = [round EXCEPT ![free] = n]
      BY <1>1, <1>2 DEF FileRound
    <2>2. Round \in SUBSET Nat
      BY RoundsAssumption
    <2>3. free \in Round /\ [x \in Round |-> round[x].status][free] = "none"
      BY <2>1, <2>2, NextFree
    <2> QED BY <2>1, <2>3
  <1>4. PICK k \in ErrandRows : k.at \in {"load", "idle"} /\ office' = [office EXCEPT ![s] = k]
    <2>1. PICK z : z = NextId([x \in Round |-> round[x].status], Round, "none")
      OBVIOUS
    <2>2. z \in Round
      <3>1. z # 0
        BY <2>1 DEF FileRound
      <3>2. Round \in SUBSET Nat
        BY RoundsAssumption
      <3> QED BY <2>1, <3>1, <3>2, NextFree
    <2>3. PICK k : k = IF e.op = "close"
                       THEN [op |-> "close", at |-> "load", van |-> e.van, round |-> z,
                             by |-> e.by, sheet |-> 0, word |-> "none"]
                       ELSE Errandless
      OBVIOUS
    <2>4. office' = [office EXCEPT ![s] = k]
      BY <1>1, <2>1, <2>3 DEF FileRound, Goes
    <2>5. k \in ErrandRows /\ k.at \in {"load", "idle"}
      BY <1>1, <2>2, <2>3, BlankRows DEF ErrandRows, Places, Words, Errandless
    <2> QED BY <2>4, <2>5
  <1>5. /\ OneIndex(e.van) /\ e.at = "file"
        /\ UNCHANGED <<driver, sale, sheet, late, raced, handedOver>>
    BY <1>1 DEF FileRound, Keep
  <1>6. e.van # 0 /\ e.by # 0
    BY <1>1, <1>5 DEF RoundIInv, InHand
  <1>7. n \in RoundRows /\ n.van = e.van /\ n.by = e.by /\ n.status = "open"
    BY <1>2 DEF RoundRows, ErrandRows, RoundSettlementStatus, Words
  <1>8. /\ round' \in [Round -> RoundRows] /\ round'[r] = n
        /\ \A x \in Round : x # r => round'[x] = round[x]
    BY <1>3, <1>7 DEF RoundIInv, RoundTables
  <1>9. RoundsHold'
    <2>1. \A x \in Round : round'[x].status # "none" => round'[x].van # 0 /\ round'[x].by # 0
      BY <1>6, <1>7, <1>8 DEF RoundIInv, RoundsHold
    <2>2. \A x \in Round : round[x].van = e.van => ~ IsOpen(x)
      BY <1>5 DEF OneIndex, OpenRounds, IsOpen
    <2>3. \A x, y \in Round : round'[x].status = "open" /\ round'[y].status = "open"
                              /\ round'[x].van = round'[y].van => x = y
      BY <1>7, <1>8, <2>2 DEF RoundIInv, RoundsHold, IsOpen
    <2> QED BY <2>1, <2>3 DEF RoundsHold, IsOpen
  <1>10. \A x \in Round : round[x].status # "none" => round'[x] = round[x]
    BY <1>3, <1>8
  <1>11. \A q \in Session \ {s} :
            office[q].at \in Loaded /\ office[q].round \notin raced' => IsOpen(office[q].round)'
    <2> SUFFICES ASSUME NEW q \in Session \ {s}, office[q].at \in Loaded,
                        office[q].round \notin raced
                 PROVE  IsOpen(office[q].round)'
      BY <1>5
    <2>1. office[q].round \in Round /\ IsOpen(office[q].round)
      BY DEF RoundIInv, RoundTables, InHand, StillOpen, ErrandRows
    <2>2. office'[q] = office[q]
      BY <1>4
    <2> QED BY <1>10, <2>1, <2>2 DEF IsOpen
  <1>12. k.at \notin Loaded /\ k.at # "file" /\ k.at # "sign"
    BY <1>4 DEF Loaded
  <1> QED BY <1>4, <1>5, <1>8, <1>9, <1>10, <1>11, <1>12, AskKeeps

\* A round its request settles or gives up is closed, and its request done.
LEMMA CloseKeeps ==
    ASSUME RoundIInv, NEW s \in Session, office[s].at \in Loaded, NEW n \in RoundRows,
           round' = [round EXCEPT ![office[s].round] = n],
           n.van = round[office[s].round].van, n.by = round[office[s].round].by,
           n.status \in {"settled", "cancelled"},
           office' = [office EXCEPT ![s] = Errandless],
           UNCHANGED <<driver, sale, sheet, late, raced, handedOver>>
    PROVE  RoundIInv'
  <1>1. PICK r \in Round : r = office[s].round
    BY DEF RoundIInv, RoundTables, InHand, ErrandRows
  <1>2. round[r].status # "none"
    BY <1>1 DEF RoundIInv, InHand
  <1>3. /\ round' \in [Round -> RoundRows] /\ round'[r] = n
        /\ \A x \in Round : x # r => round'[x] = round[x]
    BY <1>1 DEF RoundIInv, RoundTables
  <1>4. RoundsHold'
    <2>1. \A x \in Round : round'[x].status # "none" => round'[x].van # 0 /\ round'[x].by # 0
      BY <1>1, <1>2, <1>3 DEF RoundIInv, RoundsHold
    <2>2. \A x \in Round : round'[x].status = "open" => x # r
      BY <1>3
    <2>3. \A x, y \in Round : round'[x].status = "open" /\ round'[y].status = "open"
                              /\ round'[x].van = round'[y].van => x = y
      BY <1>3, <2>2 DEF RoundIInv, RoundsHold, IsOpen
    <2> QED BY <2>1, <2>3 DEF RoundsHold, IsOpen
  <1>5. \A x \in Round : round[x].status # "none" =>
           /\ round'[x].van = round[x].van /\ round'[x].by = round[x].by
           /\ round'[x].status # "none"
    BY <1>1, <1>3
  <1>6. \A q \in Session \ {s} :
           office[q].at \in Loaded /\ office[q].round \notin raced' => IsOpen(office[q].round)'
    <2> SUFFICES ASSUME NEW q \in Session \ {s}, office[q].at \in Loaded,
                        office[q].round \notin raced
                 PROVE  IsOpen(office[q].round)'
      OBVIOUS
    <2>1. office[q].round \in Round /\ IsOpen(office[q].round)
      BY DEF RoundIInv, RoundTables, InHand, StillOpen, ErrandRows
    <2>2. office[q].round # r
      BY <1>1 DEF RoundIInv, HeldAlone
    <2>3. office'[q] = office[q]
      OBVIOUS
    <2> QED BY <1>3, <2>1, <2>2, <2>3 DEF IsOpen
  <1>7. Errandless \in ErrandRows /\ Errandless.at = "idle"
    BY BlankRows DEF Errandless
  <1> QED BY <1>3, <1>4, <1>5, <1>6, <1>7, AskKeeps DEF Loaded

\* What Sign and CancelRound write.
LEMMA Signs ==
    ASSUME RoundIInv, NEW s \in Session, Sign(s)
    PROVE  \E n \in RoundRows, r \in Round :
              /\ r = office[s].round /\ n.van = round[r].van /\ n.by = round[r].by
              /\ n.status = "settled" /\ n.sheet = office[s].sheet /\ n.word = office[s].word
              /\ round' = [round EXCEPT ![r] = n]
  <1>1. PICK k \in ErrandRows : k = office[s]
    BY DEF RoundIInv, RoundTables
  <1>2. PICK r \in Round : r = k.round
    BY <1>1 DEF Sign, RoundIInv, InHand, Loaded, ErrandRows
  <1>3. PICK n : n = [van |-> round[r].van, by |-> round[r].by, status |-> "settled",
                      sheet |-> k.sheet, word |-> k.word]
    OBVIOUS
  <1>4. round[r] \in RoundRows
    BY DEF RoundIInv, RoundTables
  <1>5. n \in RoundRows
    BY <1>3, <1>4 DEF RoundRows, RoundSettlementStatus, ErrandRows
  <1>6. round' = [round EXCEPT ![r] = n]
    BY <1>1, <1>2, <1>3 DEF Sign
  <1> QED BY <1>1, <1>2, <1>3, <1>5, <1>6

LEMMA SignKeeps ==
    ASSUME RoundIInv, NEW s \in Session, Sign(s)
    PROVE  RoundIInv'
  <1>1. PICK n \in RoundRows, r \in Round :
           /\ r = office[s].round /\ n.van = round[r].van /\ n.by = round[r].by
           /\ n.status = "settled" /\ round' = [round EXCEPT ![r] = n]
    BY Signs
  <1>2. /\ office[s].at = "sign" /\ office' = [office EXCEPT ![s] = Errandless]
        /\ UNCHANGED <<driver, sale, sheet, late, raced, handedOver>>
    BY DEF Sign, Goes, Keep
  <1> QED BY <1>1, <1>2, CloseKeeps DEF Loaded

LEMMA CancelRoundKeeps ==
    ASSUME RoundIInv, NEW s \in Session, CancelRound(s)
    PROVE  RoundIInv'
  <1>1. /\ office[s].at = "drop" /\ office' = [office EXCEPT ![s] = Errandless]
        /\ UNCHANGED <<driver, sale, sheet, late, raced, handedOver>>
    BY DEF CancelRound, Goes, Keep
  <1>2. PICK r \in Round : r = office[s].round
    BY <1>1 DEF RoundIInv, RoundTables, InHand, Loaded, ErrandRows
  <1>3. PICK n : n = [round[r] EXCEPT !.status = "cancelled"]
    OBVIOUS
  <1>4. round[r] \in RoundRows /\ round' = [round EXCEPT ![r] = n]
    BY <1>2, <1>3 DEF RoundIInv, RoundTables, CancelRound
  <1>5. n \in RoundRows /\ n.van = round[r].van /\ n.by = round[r].by /\ n.status = "cancelled"
    BY <1>3, <1>4 DEF RoundRows, RoundSettlementStatus
  <1> QED BY <1>1, <1>2, <1>4, <1>5, CloseKeeps DEF Loaded

LEMMA RoundsStutterKeeps ==
    ASSUME RoundIInv, UNCHANGED roundsVars
    PROVE  RoundIInv'
  <1>1. UNCHANGED <<driver, sale, sheet, round, office, late, raced, handedOver>>
    BY DEF roundsVars, roundRows
  <1>2. RoundTables' /\ OneDriver' /\ SalesHold' /\ DriverSold'
    BY <1>1 DEF RoundIInv, RoundTables, OneDriver, SalesHold, DriverSold
  <1>3. PositionStands'
    BY <1>1 DEF RoundIInv, PositionStands, Reads, UnitsOff, Outstanding, DrawerSales,
                RoundInvoices, CountsOf, NetDue
  <1> QED BY <1>1, <1>2, <1>3, DayKeeps

LEMMA RoundsStepKeeps ==
    ASSUME RoundIInv, RoundsStep
    PROVE  RoundIInv'
  <1>1. ASSUME NEW v \in Van,
               \/ \E m \in Salesman \cup {0}, active \in BOOLEAN : UpdateWarehouse(v, m, active)
               \/ \E method \in Method : SellOffVan(v, method)
               \/ \E diff \in Outcome : PostVanCount(v, diff)
        PROVE  RoundIInv'
    BY <1>1, UpdateWarehouseKeeps, SellOffVanKeeps, PostVanCountKeeps
  <1>2. ASSUME NEW i \in Sale,
               \/ TakeBack(i) \/ UndoReturn(i) \/ DeleteSale(i)
               \/ \E n \in 1..Total :
                     \/ CollectSale(i, n)
                     \/ \E v \in Van \cup {Elsewhere}, m \in Salesman \cup {0}, method \in Method :
                           EditSale(i, v, m, method, n)
        PROVE  RoundIInv'
    BY <1>2, TakeBackKeeps, UndoReturnKeeps, DeleteSaleKeeps, CollectSaleKeeps, EditSaleKeeps
  <1>3. ASSUME NEW s \in Session,
               \/ FileRound(s) \/ Sign(s) \/ CancelRound(s) \/ AbortErrand(s)
               \/ \E v \in Van, op \in {"open", "close"} : LookForRound(s, v, op)
        PROVE  RoundIInv'
    BY <1>3, FileRoundKeeps, SignKeeps, CancelRoundKeeps, AbortErrandKeeps, LookForRoundKeeps
  <1>4. ASSUME NEW s \in Session,
               \/ \E r \in Round, op \in {"close", "drop"} : LoadRound(s, r, op)
               \/ \E linked \in Sheet \cup {0}, word \in Words : ReadPosition(s, linked, word)
        PROVE  RoundIInv'
    BY <1>4, LoadRoundKeeps, ReadPositionKeeps
  <1> QED BY <1>1, <1>2, <1>3, <1>4 DEF RoundsStep

LEMMA RoundsInvariance == RoundsSpec => []RoundIInv
  <1>1. RoundIInv /\ [RoundsNext]_roundsVars => RoundIInv'
    BY RoundsStepKeeps, RoundsStutterKeeps DEF RoundsNext
  <1> QED BY <1>1, InitRoundIInv, PTL DEF RoundsSpec

-----------------------------------------------------------------------------
\* A van has one open round and a salesman one van, a round whose buyers have all paid can
\* be closed while somebody drives the van, whoever it is by now, and money that is missing
\* from the drawer shows among the unsettled vans, unless the van was settled today, has
\* another driver or none, or a correction took the sale away from it (open_round,
\* _validate_driver, _get_van, position and unsettled_rounds of round_settlement_service and
\* warehouse_service).
THEOREM RoundsStayKept == RoundsSpec => []RoundsAreKept
  <1>1. ASSUME RoundIInv
        PROVE  RoundTypeOK
    <2>1. \A v \in Van : driver[v].who \in Salesman \cup {0}
      BY <1>1 DEF RoundIInv, RoundTables
    <2>2. ASSUME NEW i \in Sale
          PROVE  /\ {sale[i].paid, sale[i].back} \subseteq 0..sale[i].total
                 /\ sale[i].in \in Nat /\ sale[i].paid <= sale[i].in
      BY <1>1 DEF RoundIInv, RoundTables, SalesHold, SaleRows
    <2>3. ASSUME NEW r \in Round
          PROVE  /\ round[r].status \in RoundSettlementStatus
                 /\ round[r].status # "none" => round[r].by \in Salesman
      BY <1>1 DEF RoundIInv, RoundTables, RoundsHold, RoundRows
    <2>4. \A s \in Session : office[s].round \in Round \cup {0}
      BY <1>1 DEF RoundIInv, RoundTables, ErrandRows
    <2> QED BY <1>1, <2>1, <2>2, <2>3, <2>4 DEF RoundTypeOK, RoundIInv, OneDriver
  <1>2. ASSUME RoundIInv
        PROVE  PaidUpCanClose
    <2> SUFFICES ASSUME NEW r \in Round, IsOpen(r), driver[round[r].van].who # 0,
                        \A i \in DrawerSales(round[r].van, round[r].by) :
                           sale[i].total - sale[i].back <= sale[i].in
                 PROVE  MayClose(round[r].van, driver[round[r].van].who, 0, "none")
      BY DEF PaidUpCanClose
    <2>1. WhoseRound(round[r].van, driver[round[r].van].who) = round[r].by
      BY <1>2, HisRound
    <2>2. PICK v, m : v = round[r].van /\ m = round[r].by
      OBVIOUS
    <2>3. Outstanding(v, m) <= 0
      BY <1>2, <2>2, NothingOwed DEF RoundIInv
    <2> QED BY <2>1, <2>2, <2>3 DEF MayClose, UnitsOff
  <1>3. ASSUME RoundIInv
        PROVE  OneOpenRound
    <2> SUFFICES ASSUME NEW v \in Van
                 PROVE  Cardinality(OpenRounds(v)) <= 1
      BY DEF OneOpenRound
    <2>1. \A q, r \in OpenRounds(v) : q = r
      BY <1>3 DEF RoundIInv, RoundsHold, OpenRounds, IsOpen
    <2>2. PICK K : K = OpenRounds(v)
      OBVIOUS
    <2>3. CASE K = {}
      BY <2>2, <2>3, FS_EmptySet
    <2>4. CASE K # {}
      <3>1. PICK r : r \in K /\ \A q \in K : q = r
        BY <2>1, <2>2, <2>4
      <3>2. K = {r}
        BY <3>1
      <3> QED BY <2>2, <3>2, FS_Singleton
    <2> QED BY <2>3, <2>4
  <1>4. ASSUME RoundIInv
        PROVE  TakingsAreNoticed
    <2> SUFFICES ASSUME NEW i \in Sale, sale[i].van \in Van, sale[i].method \in DRAWER_METHODS,
                        driver[sale[i].van].active, sale[i].van \notin handedOver,
                        \A r \in Round : round[r].van = sale[i].van => round[r].status # "settled"
                 PROVE  Unsettled(sale[i].van)
      BY DEF TakingsAreNoticed
    <2>1. driver[sale[i].van].who = sale[i].by /\ sale[i].by # 0
      BY <1>4 DEF RoundIInv, DriverSold
    <2>2. i \in RoundInvoices(sale[i].van, sale[i].by)
      BY DEF RoundInvoices
    <2> QED BY <2>1, <2>2 DEF Unsettled
  <1>5. RoundIInv => RoundsAreKept
    BY <1>1, <1>2, <1>3, <1>4 DEF RoundsAreKept
  <1> QED BY <1>5, RoundsInvariance, PTL

\* The step that settles a round is the signature of a request that had loaded it.
LEMMA SignedBy ==
    ASSUME RoundIInv, RoundsStep, NEW r \in Round, round'[r] # round[r],
           round[r].status \in {"settled", "cancelled"} \/ Signed(r)
    PROVE  \E s \in Session : /\ office[s].at \in Loaded /\ office[s].round = r
                              /\ Signed(r) => Sign(s)
  <1>1. ASSUME NEW s \in Session, FileRound(s)
        PROVE  FALSE
    <2>1. PICK z : z = NextId([x \in Round |-> round[x].status], Round, "none")
      OBVIOUS
    <2>2. z \in Round /\ round[z].status = "none"
      <3>1. z # 0
        BY <1>1, <2>1 DEF FileRound
      <3>2. Round \in SUBSET Nat
        BY RoundsAssumption
      <3>3. z \in Round /\ [x \in Round |-> round[x].status][z] = "none"
        BY <2>1, <3>1, <3>2, NextFree
      <3> QED BY <3>3
    <2>3. PICK n : n.status = "open" /\ round' = [round EXCEPT ![z] = n]
      BY <1>1, <2>1 DEF FileRound
    <2> QED BY <2>2, <2>3 DEF RoundIInv, RoundTables, Signed
  <1>2. PICK s \in Session : Sign(s) \/ CancelRound(s)
    BY <1>1, ZenonT(40) DEF RoundsStep, UpdateWarehouse, SellOffVan, PostVanCount, TakeBack, CollectSale,
       UndoReturn, EditSale, DeleteSale,
       AbortErrand, LookForRound, LoadRound, ReadPosition, roundRows
  <1>3. CASE Sign(s)
    <2>1. PICK n \in RoundRows, x \in Round :
             x = office[s].round /\ round' = [round EXCEPT ![x] = n]
      BY <1>3, Signs
    <2>2. r = x
      BY <2>1 DEF RoundIInv, RoundTables
    <2> QED BY <1>3, <2>1, <2>2 DEF Sign, Loaded
  <1>4. CASE CancelRound(s)
    <2>1. /\ office[s].at = "drop"
          /\ round' = [round EXCEPT ![office[s].round].status = "cancelled"]
      BY <1>4 DEF CancelRound
    <2>2. office[s].round = r
      BY <2>1 DEF RoundIInv, RoundTables
    <2>3. round'[r].status = "cancelled"
      BY <2>1, <2>2 DEF RoundIInv, RoundTables, RoundRows
    <2> QED BY <2>1, <2>2, <2>3 DEF Signed, Loaded
  <1> QED BY <1>2, <1>3, <1>4

\* A signature stands for what it says: the salesman owes nothing on the invoices whose
\* lines the van has, a van that came back short by its own last count is explained, and the
\* record stays, but for rounds two requests had, and for rounds between whose position and
\* signature the van sold or was counted, a credit note of its sales was cancelled, or an
\* invoice of them was corrected or deleted (settle, cancel and position of
\* round_settlement_service).
THEOREM SignaturesStand == RoundsSpec => SignedStands
  <1>1. ASSUME RoundIInv, RoundsStep, NEW r \in Round \ (late \cup raced), Signed(r)
        PROVE  /\ Outstanding(round[r].van, round[r].by) <= 0
               /\ round'[r].sheet = 0 => CountsOf(round[r].van) = {}
               /\ UnitsOff(round'[r].sheet) # 0 => round'[r].word # "none"
    <2>1. round'[r] # round[r]
      BY <1>1 DEF Signed
    <2>2. PICK s \in Session : office[s].round = r /\ Sign(s)
      BY <1>1, <2>1, SignedBy
    <2>3. PICK n \in RoundRows, x \in Round :
             /\ x = office[s].round /\ n.sheet = office[s].sheet /\ n.word = office[s].word
             /\ round' = [round EXCEPT ![x] = n]
      BY <1>1, <2>2, Signs
    <2>4. round'[r].sheet = office[s].sheet /\ round'[r].word = office[s].word
      BY <1>1, <2>2, <2>3 DEF RoundIInv, RoundTables
    <2>5. office[s].at = "sign" /\ office[s].van = round[r].van
      BY <1>1, <2>2 DEF Sign, RoundIInv, InHand, Loaded
    <2> QED BY <1>1, <2>2, <2>4, <2>5 DEF RoundIInv, PositionStands, Reads
  <1>2. ASSUME RoundIInv, RoundsStep, NEW r \in Round \ raced,
               round[r].status \in {"settled", "cancelled"}
        PROVE  round'[r] = round[r]
    <2> SUFFICES ASSUME round'[r] # round[r]
                 PROVE  FALSE
      OBVIOUS
    <2>1. PICK s \in Session : office[s].at \in Loaded /\ office[s].round = r
      BY <1>2, SignedBy
    <2> QED BY <1>2, <2>1 DEF RoundIInv, StillOpen, IsOpen
  <1>3. RoundIInv /\ [RoundsNext]_roundsVars =>
           [\A r \in Round \ (late \cup raced) :
               Signed(r) => Outstanding(round[r].van, round[r].by) <= 0]_roundsVars
    BY <1>1 DEF RoundsNext
  <1>4. RoundIInv /\ [RoundsNext]_roundsVars =>
           [\A r \in Round \ raced :
               round[r].status \in {"settled", "cancelled"} => round'[r] = round[r]]_roundsVars
    BY <1>2 DEF RoundsNext
  <1>5. RoundIInv /\ [RoundsNext]_roundsVars =>
           [\A r \in Round \ (late \cup raced) :
               /\ Signed(r)
               /\ round'[r].sheet \in CountsOf(round[r].van) \cup {0}
               /\ round'[r].sheet # 0 => round'[r].sheet = Max(CountsOf(round[r].van))
               /\ CountsOf(round[r].van) # {}
               /\ UnitsOff(Max(CountsOf(round[r].van))) # 0
               => round'[r].word # "none"]_roundsVars
    BY <1>1 DEF RoundsNext
  <1>6. RoundsSpec => SignedOwesNothing
    BY <1>3, RoundsInvariance, PTL DEF RoundsSpec, SignedOwesNothing
  <1>7. RoundsSpec => SignedStays
    BY <1>4, RoundsInvariance, PTL DEF RoundsSpec, SignedStays
  <1>8. RoundsSpec => ShortVanIsExplained
    BY <1>5, RoundsInvariance, PTL DEF RoundsSpec, ShortVanIsExplained
  <1> QED BY <1>6, <1>7, <1>8 DEF SignedStands

-----------------------------------------------------------------------------
(*                     III.  Orders and purchases                          *)

(* The inductive invariant *)

OrderOps == {"send", "rewrite", "call_off", "receive"}   \* operations that load the order
DocOps   == {"edit", "delete", "return", "pay"}          \* operations that load a document

\* What the rows may hold.
Papers == [kind : {"none", "purchase", "expense", "deleted"}, method : {"cash", "credit"},
           goods : [Line -> Nat], total : Nat, paid : Nat,
           confirmed : BOOLEAN, ordered : BOOLEAN, rev : Nat]
Orders == [status : PurchaseOrderStatus, lines : [Line -> Nat], rev : Nat]
Deals  == [op : {"none", "voucher"} \cup OrderOps \cup DocOps, id : Doc \cup {ThePO},
           order : Orders, got : [Line -> Nat], doc : Papers, back : [Line -> Nat],
           balance : Int]

TradeTables ==
    /\ order \in Orders /\ received \in [Line -> Nat] /\ stock \in [Line -> Nat]
    /\ doc \in [Doc -> Papers] /\ returned \in [Doc -> [Line -> Nat]]
    /\ vouchers \in Nat /\ payable \in Int /\ sold \in Nat
    /\ counter \in [Session -> Deals]
    /\ doubled \in BOOLEAN

\* What a request has in hand is there, and passed the look at the status.
DealsHold ==
    \A s \in Session :
       /\ At(s, "none") => counter[s] = NoDeal
       /\ counter[s].op \in DocOps => /\ counter[s].id \in Doc
                                      /\ doc[counter[s].id].kind # "none"
                                      /\ counter[s].doc.method = "cash"
                                         => doc[counter[s].id].method = "cash"
       /\ counter[s].op \notin DocOps => counter[s].id = ThePO
       /\ counter[s].op \in OrderOps => counter[s].order.status \in May(counter[s].op)
       /\ At(s, "receive") => order.status # "draft"

\* Two requests that have the same row are known to the history, and what only one
\* request has is as it was loaded.
DealtAlone ==
    \A s, r \in Session :
       s # r /\ ~Free(s) /\ ~Free(r) /\ counter[s].id = counter[r].id
       => counter[s].id \in crossed

StillAsLoaded ==
    \A s \in Session : counter[s].id \notin crossed =>
       /\ counter[s].op \in DocOps => /\ counter[s].doc = doc[counter[s].id]
                                      /\ counter[s].back = returned[counter[s].id]
       /\ counter[s].op \in OrderOps => counter[s].order = order /\ counter[s].got = received

\* Every line asks for something, and nothing arrives for a draft.
OrderHolds ==
    /\ \A l \in Line : order.lines[l] > 0
    /\ order.status = "draft" => received = Nothing

\* Only a purchase has goods to send back, and a document counts as paid when it is.
DocsHold ==
    \A i \in Doc :
       /\ doc[i].kind = "none" => doc[i] = NoDoc
       /\ doc[i].kind # "purchase" => returned[i] = Nothing
       /\ doc[i].method = "credit" => doc[i].confirmed
       /\ i \notin crossed /\ doc[i].method = "cash" /\ doc[i].kind # "none"
          => doc[i].confirmed = (doc[i].paid >= doc[i].total /\ doc[i].total > 0)

TradeIInv == /\ TradeTables /\ DealsHold /\ DealtAlone /\ StillAsLoaded /\ OrderHolds /\ DocsHold
             /\ ReceivedAsInvoiced /\ ReceivedWithinOrdered /\ ClosedWhenComplete
             /\ ReturnedWithinReceived /\ ShelfIsAccounted /\ PayableAgrees

-----------------------------------------------------------------------------
(* Quantities per line *)

LEMMA LinesAreFinite == IsFiniteSet(Line) /\ Line # {} /\ IsFiniteSet(Doc)
  BY PurchaseAssumption

LEMMA UnitsOf ==
    ASSUME NEW q \in [Line -> Int]
    PROVE  Units(q) \in Int
  BY LinesAreFinite, SumInt DEF Units, Whole

LEMMA UnitsAreNat ==
    ASSUME NEW q \in [Line -> Nat]
    PROVE  Units(q) \in Nat
  <1>1. PICK z : z = [l \in Line |-> 0]
    OBVIOUS
  <1>2. Whole(z, Line) /\ Whole(q, Line) /\ Below(z, q, Line) /\ SameTerms(z, [l \in Line |-> 0], Line)
    BY <1>1 DEF Whole, Below, SameTerms
  <1>3. SumFunctionOnSet(z, Line) = 0 /\ SumFunctionOnSet(z, Line) <= SumFunctionOnSet(q, Line)
    BY <1>2, LinesAreFinite, SumZero, SumGrows
  <1>4. SumFunctionOnSet(q, Line) \in Int
    BY <1>2, LinesAreFinite, SumInt
  <1> QED BY <1>3, <1>4 DEF Units

LEMMA UnitsOfNothing == Nothing \in [Line -> Nat] /\ Units(Nothing) = 0
  <1>1. SameTerms(Nothing, [l \in Line |-> 0], Line)
    BY DEF Nothing, SameTerms
  <1> QED BY <1>1, LinesAreFinite, SumZero DEF Units, Nothing

LEMMA UnitsPlus ==
    ASSUME NEW q \in [Line -> Int], NEW r \in [Line -> Int]
    PROVE  Units(Plus(q, r)) = Units(q) + Units(r) /\ Plus(q, r) \in [Line -> Int]
  <1>1. Plus(q, r) \in [Line -> Int]
    BY DEF Plus
  <1>2. Whole(q, Line) /\ Whole(r, Line) /\ Adds(q, r, Plus(q, r), Line)
    BY DEF Whole, Adds, Plus
  <1> QED BY <1>1, <1>2, LinesAreFinite, SumAdd DEF Units

LEMMA UnitsMinus ==
    ASSUME NEW q \in [Line -> Int], NEW r \in [Line -> Int]
    PROVE  Units(Minus(q, r)) = Units(q) - Units(r) /\ Minus(q, r) \in [Line -> Int]
  <1>0. Minus(q, r) \in [Line -> Int]
    BY DEF Minus
  <1>1. PICK m \in [Line -> Int] : m = Minus(q, r)
    BY <1>0
  <1>2. Plus(m, r) = q
    BY <1>1 DEF Minus, Plus
  <1>3. Units(q) = Units(m) + Units(r) /\ Units(m) \in Int /\ Units(r) \in Int
    BY <1>2, UnitsPlus, UnitsOf
  <1> QED BY <1>1, <1>3

\* When one line changes, the units change by as much.
LEMMA UnitsChange ==
    ASSUME NEW q \in [Line -> Int], NEW r \in [Line -> Int], NEW l \in Line,
           SameTerms(q, r, Line \ {l})
    PROVE  Units(r) = Units(q) + (r[l] - q[l])
  BY LinesAreFinite, SumChange DEF Units, Whole

\* What a delivery lists of a line is a number; when it lists each line once, it is
\* within any bound on its entries.
LEMMA ListedIs ==
    ASSUME NEW d \in Deliveries
    PROVE  Listed(d) \in [Line -> Nat]
  <1> SUFFICES ASSUME NEW l \in Line
               PROVE  Of(d, l) \in Nat
    BY DEF Listed
  <1>1. d \in Seq(Line \X (Nat \ {0})) /\ DOMAIN d = 1..Len(d) /\ Len(d) \in Nat
    BY PurchaseAssumption
  <1>2. IsFiniteSet(DOMAIN d)
    BY <1>1, FS_Interval
  <1>3. PICK D : D = DOMAIN d
    OBVIOUS
  <1>4. PICK f : f = [k \in D |-> IF d[k][1] = l THEN d[k][2] ELSE 0]
    OBVIOUS
  <1>5. PICK z : z = [k \in D |-> 0]
    OBVIOUS
  <1>6. \A k \in D : d[k][2] \in Nat
    BY <1>1, <1>3
  <1>7. Whole(f, D) /\ Whole(z, D) /\ Below(z, f, D) /\ SameTerms(z, [k \in D |-> 0], D)
    BY <1>4, <1>5, <1>6 DEF Whole, Below, SameTerms
  <1>8. SumFunctionOnSet(z, D) = 0 /\ SumFunctionOnSet(z, D) <= SumFunctionOnSet(f, D)
        /\ SumFunctionOnSet(f, D) \in Int
    BY <1>2, <1>3, <1>7, SumZero, SumGrows, SumInt
  <1>9. Of(d, l) = SumFunctionOnSet(f, D)
    BY <1>3, <1>4 DEF Of, SumFunction
  <1> QED BY <1>8, <1>9

LEMMA ListedOnce ==
    ASSUME NEW d \in Deliveries, NEW l \in Line, NEW b \in Nat,
           ~ \E x, y \in DOMAIN d : x # y /\ d[x][1] = d[y][1],
           \A k \in DOMAIN d : d[k][1] = l => d[k][2] <= b
    PROVE  Listed(d)[l] <= b
  <1>1. d \in Seq(Line \X (Nat \ {0})) /\ DOMAIN d = 1..Len(d) /\ Len(d) \in Nat
    BY PurchaseAssumption
  <1>2. IsFiniteSet(DOMAIN d)
    BY <1>1, FS_Interval
  <1>3. PICK D : D = DOMAIN d
    OBVIOUS
  <1>4. PICK f : f = [k \in D |-> IF d[k][1] = l THEN d[k][2] ELSE 0]
    OBVIOUS
  <1>5. \A k \in D : d[k][2] \in Nat
    BY <1>1, <1>3
  <1>6. Whole(f, D)
    BY <1>4, <1>5 DEF Whole
  <1>7. Listed(d)[l] = SumFunctionOnSet(f, D)
    BY <1>3, <1>4 DEF Listed, Of, SumFunction
  <1>8. CASE \E k \in D : d[k][1] = l
    <2>1. PICK k \in D : d[k][1] = l
      BY <1>8
    <2>2. SameTerms(f, [x \in D \ {k} |-> 0], D \ {k})
      BY <1>3, <1>4, <2>1 DEF SameTerms
    <2>3. IsFiniteSet(D \ {k})
      BY <1>2, <1>3, FS_RemoveElement
    <2>4. SumFunctionOnSet(f, D \ {k}) = 0
      BY <2>2, <2>3, SumZero
    <2>5. SumFunctionOnSet(f, D) = f[k] + SumFunctionOnSet(f, D \ {k})
      BY <1>2, <1>3, <1>6, SumSplit
    <2>6. f[k] = d[k][2] /\ d[k][2] \in Nat /\ d[k][2] <= b
      BY <1>3, <1>4, <1>5, <2>1
    <2> QED BY <1>7, <2>4, <2>5, <2>6
  <1>9. CASE ~ \E k \in D : d[k][1] = l
    <2>1. SameTerms(f, [x \in D |-> 0], D)
      BY <1>4, <1>9 DEF SameTerms
    <2>2. SumFunctionOnSet(f, D) = 0
      BY <1>2, <1>3, <2>1, SumZero
    <2> QED BY <1>7, <2>2
  <1> QED BY <1>8, <1>9

-----------------------------------------------------------------------------
(* Figures over the documents *)

\* What one document adds to the supplier's balance, to the open expenses, to what was
\* invoiced of a line, and to the shelf.
OwedFor(d, back)   == IF d.kind = "purchase" THEN d.total - d.paid - Units(back) ELSE 0
SpentFor(d)        == IF d.kind = "expense" THEN d.total - d.paid ELSE 0
BroughtBy(d, l)    == IF d.ordered THEN d.goods[l] ELSE 0
ShelvedBy(d, back) == Units(d.goods) - Units(back)

Shelved == SumFunction([i \in Doc |-> Units(doc[i].goods) - Units(returned[i])])

LEMMA PaperFigures ==
    ASSUME NEW d \in Papers, NEW b \in [Line -> Nat], NEW l \in Line
    PROVE  /\ OwedFor(d, b) \in Int /\ SpentFor(d) \in Int
           /\ BroughtBy(d, l) \in Int /\ ShelvedBy(d, b) \in Int
  <1>1. d.total \in Nat /\ d.paid \in Nat /\ d.goods \in [Line -> Nat]
    BY DEF Papers
  <1>2. Units(b) \in Nat /\ Units(d.goods) \in Nat
    BY <1>1, UnitsAreNat
  <1> QED BY <1>1, <1>2 DEF OwedFor, SpentFor, BroughtBy, ShelvedBy

\* When one document changes, a figure over all of them changes by as much.
LEMMA ColumnStep ==
    ASSUME NEW f, NEW g, NEW i \in Doc, DOMAIN f = Doc, DOMAIN g = Doc,
           Whole(f, Doc), Whole(g, Doc), SameTerms(f, g, Doc \ {i})
    PROVE  /\ SumFunction(g) = SumFunction(f) + (g[i] - f[i])
           /\ SumFunction(f) \in Int /\ SumFunction(g) \in Int
  BY LinesAreFinite, SumChange, SumInt DEF SumFunction

LEMMA BooksMove ==
    ASSUME TradeTables, TradeTables', NEW i \in Doc,
           SameTerms(doc, doc', Doc \ {i}), SameTerms(returned, returned', Doc \ {i})
    PROVE  /\ Balance' + vouchers' = Balance + vouchers
                                     + (OwedFor(doc'[i], returned'[i]) - OwedFor(doc[i], returned[i]))
           /\ UnpaidExpenses' = UnpaidExpenses + (SpentFor(doc'[i]) - SpentFor(doc[i]))
           /\ Shelved' = Shelved + (ShelvedBy(doc'[i], returned'[i]) - ShelvedBy(doc[i], returned[i]))
           /\ \A l \in Line : Invoiced(l)' = Invoiced(l) + (BroughtBy(doc'[i], l) - BroughtBy(doc[i], l))
           /\ Balance \in Int /\ Balance' \in Int /\ UnpaidExpenses \in Int /\ Shelved \in Int
           /\ \A l \in Line : Invoiced(l) \in Int
  <1>1. PICK d1 \in [Doc -> Papers], d2 \in [Doc -> Papers] : d1 = doc /\ d2 = doc'
    BY DEF TradeTables
  <1>2. PICK r1 \in [Doc -> [Line -> Nat]], r2 \in [Doc -> [Line -> Nat]] :
           r1 = returned /\ r2 = returned'
    BY DEF TradeTables
  <1>3. SameTerms(d1, d2, Doc \ {i}) /\ SameTerms(r1, r2, Doc \ {i})
    BY <1>1, <1>2
  <1>4. \A x \in Doc : d1[x] \in Papers /\ d2[x] \in Papers /\ r1[x] \in [Line -> Nat]
                       /\ r2[x] \in [Line -> Nat]
    OBVIOUS
  <1>5. PICK l0 \in Line : TRUE
    BY LinesAreFinite
  <1>6. /\ Balance' + vouchers' = Balance + vouchers + (OwedFor(d2[i], r2[i]) - OwedFor(d1[i], r1[i]))
        /\ Balance \in Int /\ Balance' \in Int
    <2>1. PICK f : f = [x \in Doc |-> OwedFor(d1[x], r1[x])]
      OBVIOUS
    <2>2. PICK g : g = [x \in Doc |-> OwedFor(d2[x], r2[x])]
      OBVIOUS
    <2>3. Whole(f, Doc) /\ Whole(g, Doc)
      BY <1>4, <1>5, <2>1, <2>2, PaperFigures DEF Whole
    <2>4. SameTerms(f, g, Doc \ {i})
      BY <1>3, <2>1, <2>2 DEF SameTerms
    <2>5. DOMAIN f = Doc /\ DOMAIN g = Doc
      BY <2>1, <2>2
    <2>6. /\ SumFunction(g) = SumFunction(f) + (g[i] - f[i])
          /\ SumFunction(f) \in Int /\ SumFunction(g) \in Int
      BY <2>3, <2>4, <2>5, ColumnStep
    <2>7. Balance = SumFunction(f) - vouchers
      BY <1>1, <1>2, <2>1 DEF Balance, OwedFor
    <2>8. Balance' = SumFunction(g) - vouchers'
      BY <1>1, <1>2, <2>2 DEF Balance, OwedFor
    <2>9. vouchers \in Nat /\ vouchers' \in Nat /\ g[i] \in Int /\ f[i] \in Int
      BY <2>3 DEF TradeTables, Whole
    <2>10. g[i] = OwedFor(d2[i], r2[i]) /\ f[i] = OwedFor(d1[i], r1[i])
      BY <2>1, <2>2
    <2> QED BY <2>6, <2>7, <2>8, <2>9, <2>10
  <1>7. /\ UnpaidExpenses' = UnpaidExpenses + (SpentFor(d2[i]) - SpentFor(d1[i]))
        /\ UnpaidExpenses \in Int
    <2>1. PICK f : f = [x \in Doc |-> SpentFor(d1[x])]
      OBVIOUS
    <2>2. PICK g : g = [x \in Doc |-> SpentFor(d2[x])]
      OBVIOUS
    <2>3. Whole(f, Doc) /\ Whole(g, Doc)
      BY <1>4, <1>5, <2>1, <2>2, PaperFigures DEF Whole
    <2>4. SameTerms(f, g, Doc \ {i})
      BY <1>3, <2>1, <2>2 DEF SameTerms
    <2>5. DOMAIN f = Doc /\ DOMAIN g = Doc
      BY <2>1, <2>2
    <2>6. /\ SumFunction(g) = SumFunction(f) + (g[i] - f[i])
          /\ SumFunction(f) \in Int /\ SumFunction(g) \in Int
      BY <2>3, <2>4, <2>5, ColumnStep
    <2>7. UnpaidExpenses = SumFunction(f)
      BY <1>1, <2>1 DEF UnpaidExpenses, SpentFor
    <2>8. UnpaidExpenses' = SumFunction(g)
      BY <1>1, <2>2 DEF UnpaidExpenses, SpentFor
    <2>9. g[i] = SpentFor(d2[i]) /\ f[i] = SpentFor(d1[i])
      BY <2>1, <2>2
    <2> QED BY <2>6, <2>7, <2>8, <2>9
  <1>8. /\ Shelved' = Shelved + (ShelvedBy(d2[i], r2[i]) - ShelvedBy(d1[i], r1[i]))
        /\ Shelved \in Int
    <2>1. PICK f : f = [x \in Doc |-> ShelvedBy(d1[x], r1[x])]
      OBVIOUS
    <2>2. PICK g : g = [x \in Doc |-> ShelvedBy(d2[x], r2[x])]
      OBVIOUS
    <2>3. Whole(f, Doc) /\ Whole(g, Doc)
      BY <1>4, <1>5, <2>1, <2>2, PaperFigures DEF Whole
    <2>4. SameTerms(f, g, Doc \ {i})
      BY <1>3, <2>1, <2>2 DEF SameTerms
    <2>5. DOMAIN f = Doc /\ DOMAIN g = Doc
      BY <2>1, <2>2
    <2>6. /\ SumFunction(g) = SumFunction(f) + (g[i] - f[i])
          /\ SumFunction(f) \in Int /\ SumFunction(g) \in Int
      BY <2>3, <2>4, <2>5, ColumnStep
    <2>7. Shelved = SumFunction(f)
      BY <1>1, <1>2, <2>1 DEF Shelved, ShelvedBy
    <2>8. Shelved' = SumFunction(g)
      BY <1>1, <1>2, <2>2 DEF Shelved, ShelvedBy
    <2>9. g[i] = ShelvedBy(d2[i], r2[i]) /\ f[i] = ShelvedBy(d1[i], r1[i])
      BY <2>1, <2>2
    <2> QED BY <2>6, <2>7, <2>8, <2>9
  <1>9. ASSUME NEW l \in Line
        PROVE  /\ Invoiced(l)' = Invoiced(l) + (BroughtBy(d2[i], l) - BroughtBy(d1[i], l))
               /\ Invoiced(l) \in Int
    <2>1. PICK f : f = [x \in Doc |-> BroughtBy(d1[x], l)]
      OBVIOUS
    <2>2. PICK g : g = [x \in Doc |-> BroughtBy(d2[x], l)]
      OBVIOUS
    <2>3. Whole(f, Doc) /\ Whole(g, Doc)
      BY <1>4, <2>1, <2>2, PaperFigures DEF Whole
    <2>4. SameTerms(f, g, Doc \ {i})
      BY <1>3, <2>1, <2>2 DEF SameTerms
    <2>5. DOMAIN f = Doc /\ DOMAIN g = Doc
      BY <2>1, <2>2
    <2>6. /\ SumFunction(g) = SumFunction(f) + (g[i] - f[i])
          /\ SumFunction(f) \in Int /\ SumFunction(g) \in Int
      BY <2>3, <2>4, <2>5, ColumnStep
    <2>7. Invoiced(l) = SumFunction(f)
      BY <1>1, <2>1 DEF Invoiced, BroughtBy
    <2>8. Invoiced(l)' = SumFunction(g)
      BY <1>1, <2>2 DEF Invoiced, BroughtBy
    <2>9. g[i] = BroughtBy(d2[i], l) /\ f[i] = BroughtBy(d1[i], l)
      BY <2>1, <2>2
    <2> QED BY <2>6, <2>7, <2>8, <2>9
  <1> QED BY <1>1, <1>2, <1>6, <1>7, <1>8, <1>9

-----------------------------------------------------------------------------
(* What steps have in common *)

LEMMA MayOf ==
    /\ May("send") = {"draft"} /\ May("rewrite") = {"draft"}
    /\ May("call_off") = {"draft", "sent", "partially_received"}
    /\ May("receive") = {"sent", "partially_received"}
  BY DEF May

LEMMA BlankPapers == NoDoc \in Papers /\ NoDeal \in Deals
  <1>1. NoDoc \in Papers
    BY UnitsOfNothing DEF NoDoc, Papers
  <1>2. NoDeal \in Deals
    BY <1>1, UnitsOfNothing DEF NoDeal, Deals, Orders, PurchaseOrderStatus
  <1> QED BY <1>1, <1>2

LEMMA DocIds == ThePO = 0 /\ ThePO \notin Doc /\ \A i \in Doc : i # 0
  BY PurchaseAssumption DEF ThePO

LEMMA FreeIs ==
    ASSUME TradeIInv, NEW s \in Session
    PROVE  /\ Free(s) <=> counter[s].op = "none"
           /\ counter[s] \in Deals
           /\ counter[s].op \in DocOps \/ counter[s].id = ThePO
  BY DEF TradeIInv, TradeTables, DealsHold, Free, NoDeal, At

\* The supplier's balance is a number.
LEMMA BooksAreWhole ==
    ASSUME TradeTables
    PROVE  Balance \in Int
  <1>1. PICK f : f = [i \in Doc |-> OwedFor(doc[i], returned[i])]
    OBVIOUS
  <1>2. PICK l \in Line : TRUE
    BY LinesAreFinite
  <1>3. \A i \in Doc : doc[i] \in Papers /\ returned[i] \in [Line -> Nat]
    BY DEF TradeTables
  <1>4. Whole(f, Doc)
    BY <1>1, <1>2, <1>3, PaperFigures DEF Whole
  <1>5. SumFunctionOnSet(f, Doc) \in Int
    BY <1>4, LinesAreFinite, SumInt
  <1>6. Balance = SumFunctionOnSet(f, Doc) - vouchers
    BY <1>1 DEF Balance, OwedFor, SumFunction
  <1> QED BY <1>5, <1>6 DEF TradeTables

\* The books stand when no document moves.
LEMMA BooksStand ==
    ASSUME TradeTables, TradeTables', UNCHANGED <<doc, returned>>
    PROVE  /\ UnpaidExpenses' = UnpaidExpenses /\ Shelved' = Shelved
           /\ \A l \in Line : Invoiced(l)' = Invoiced(l)
           /\ Balance' + vouchers' = Balance + vouchers
           /\ Balance \in Int /\ Balance' \in Int /\ UnpaidExpenses \in Int /\ Shelved \in Int
           /\ \A l \in Line : Invoiced(l) \in Int
  <1>1. CASE Doc = {}
    <2>1. PICK e : e = [i \in Doc |-> 0]
      OBVIOUS
    <2>2. \A f : DOMAIN f = {} /\ f = [x \in {} |-> f[x]] => SumFunction(f) = 0
      BY LinesAreFinite, <1>1, SumStep DEF SumFunction
    <2> QED BY <1>1, <2>2 DEF TradeTables, UnpaidExpenses, Shelved, Invoiced, Balance
  <1>2. CASE Doc # {}
    <2>1. PICK i \in Doc : TRUE
      BY <1>2
    <2>2. SameTerms(doc, doc', Doc \ {i}) /\ SameTerms(returned, returned', Doc \ {i})
      BY DEF SameTerms
    <2>3. doc'[i] = doc[i] /\ returned'[i] = returned[i]
      OBVIOUS
    <2>4. doc[i] \in Papers /\ returned[i] \in [Line -> Nat]
      BY DEF TradeTables
    <2>5. PICK d \in Papers, b \in [Line -> Nat] :
             d = doc[i] /\ d = doc'[i] /\ b = returned[i] /\ b = returned'[i]
      BY <2>3, <2>4
    <2>6. /\ Balance' + vouchers' = Balance + vouchers + (OwedFor(d, b) - OwedFor(d, b))
          /\ UnpaidExpenses' = UnpaidExpenses + (SpentFor(d) - SpentFor(d))
          /\ Shelved' = Shelved + (ShelvedBy(d, b) - ShelvedBy(d, b))
          /\ \A l \in Line : Invoiced(l)' = Invoiced(l) + (BroughtBy(d, l) - BroughtBy(d, l))
          /\ Balance \in Int /\ Balance' \in Int /\ UnpaidExpenses \in Int /\ Shelved \in Int
          /\ \A l \in Line : Invoiced(l) \in Int
      BY <2>2, <2>5, BooksMove
    <2>7. vouchers \in Nat
      BY DEF TradeTables
    <2>8. \A l \in Line : /\ OwedFor(d, b) \in Int /\ SpentFor(d) \in Int
                          /\ BroughtBy(d, l) \in Int /\ ShelvedBy(d, b) \in Int
      BY PaperFigures
    <2>9. PICK l0 \in Line : TRUE
      BY LinesAreFinite
    <2> QED BY <2>6, <2>7, <2>8, <2>9
  <1> QED BY <1>1, <1>2

\* A request loads what it will act on.
LEMMA LoadKeeps ==
    ASSUME TradeIInv, NEW s \in Session, NEW op, NEW k \in Deals, Loads(s, op, k.id), Deal(s, k),
           k.op \in {"voucher"} \cup OrderOps \cup DocOps,
           k.op \in DocOps => /\ k.id \in Doc /\ doc[k.id].kind # "none"
                              /\ k.doc = doc[k.id] /\ k.back = returned[k.id],
           k.op \notin DocOps => k.id = ThePO,
           k.op \in OrderOps => k.order = order /\ k.got = received /\ order.status \in May(k.op)
    PROVE  TradeIInv'
  <1>1. /\ UNCHANGED tradeRows /\ UNCHANGED <<doubled, amended>> /\ Free(s)
        /\ crossed' = IF \E r \in Session \ {s} : ~Free(r) /\ counter[r].id = k.id
                      THEN crossed \cup {k.id} ELSE crossed
        /\ counter' = [counter EXCEPT ![s] = k]
    BY DEF Loads, Deal
  <1>2. /\ UNCHANGED <<order, received, doc, returned, vouchers, stock, payable, sold>>
        /\ crossed \subseteq crossed'
    BY <1>1 DEF tradeRows
  <1>3. /\ counter' \in [Session -> Deals] /\ counter'[s] = k
        /\ \A r \in Session : r # s => counter'[r] = counter[r]
    BY <1>1 DEF TradeIInv, TradeTables
  <1>4. TradeTables'
    BY <1>1, <1>2, <1>3 DEF TradeIInv, TradeTables
  <1>5. DealsHold'
    <2>1. ASSUME k.op = "receive"
          PROVE  order.status # "draft"
      BY <2>1, MayOf DEF OrderOps
    <2>2. k.op # "none"
      BY DEF OrderOps, DocOps
    <2> QED BY <1>2, <1>3, <2>1, <2>2 DEF TradeIInv, DealsHold, At
  <1>6. DealtAlone'
    <2>1. \A r \in Session : r # s /\ ~Free(r) /\ counter[r].id = k.id => k.id \in crossed'
      BY <1>1
    <2>2. \A r \in Session : r # s => Free(r)' = Free(r)
      BY <1>3 DEF Free
    <2> QED BY <1>2, <1>3, <2>1, <2>2 DEF TradeIInv, DealtAlone
  <1>7. StillAsLoaded'
    BY <1>2, <1>3 DEF TradeIInv, StillAsLoaded
  <1>8. OrderHolds' /\ DocsHold'
    BY <1>2 DEF TradeIInv, OrderHolds, DocsHold
  <1>9. /\ UnpaidExpenses' = UnpaidExpenses /\ \A l \in Line : Invoiced(l)' = Invoiced(l)
        /\ Balance' = Balance /\ Shelved' = Shelved
    BY <1>2 DEF UnpaidExpenses, Invoiced, Balance, Shelved
  <1>10. ReceivedAsInvoiced' /\ ReceivedWithinOrdered' /\ ClosedWhenComplete'
    BY <1>1, <1>2, <1>9 DEF TradeIInv, ReceivedAsInvoiced, ReceivedWithinOrdered, ClosedWhenComplete, Fits
  <1>11. ReturnedWithinReceived' /\ PayableAgrees'
    BY <1>1, <1>2, <1>9 DEF TradeIInv, ReturnedWithinReceived, PayableAgrees, Fits
  <1>12. ShelfIsAccounted'
    BY <1>1, <1>2, <1>9 DEF TradeIInv, ShelfIsAccounted, Shelved
  <1> QED BY <1>4, <1>5, <1>6, <1>7, <1>8, <1>10, <1>11, <1>12 DEF TradeIInv

\* A request ends: what the others hold stands, but for what this one held.
LEMMA EndKeeps ==
    ASSUME TradeIInv, NEW s \in Session, ~Free(s), Deal(s, NoDeal), UNCHANGED crossed,
           \A i \in Doc : doc[i].kind # "none" =>
              /\ doc'[i].kind # "none"
              /\ doc[i].method = "cash" => doc'[i].method = "cash"
              /\ i # counter[s].id => doc'[i] = doc[i] /\ returned'[i] = returned[i],
           counter[s].id # ThePO => UNCHANGED <<order, received>>,
           order.status # "draft" => order'.status # "draft"
    PROVE  DealsHold' /\ DealtAlone' /\ StillAsLoaded' /\ counter' \in [Session -> Deals]
  <1>1. /\ counter' \in [Session -> Deals] /\ counter'[s] = NoDeal
        /\ \A r \in Session : r # s => counter'[r] = counter[r]
    BY BlankPapers DEF Deal, TradeIInv, TradeTables
  <1>2. NoDeal.op = "none" /\ NoDeal.id = ThePO
    BY DEF NoDeal
  <1>3. DealsHold'
    BY <1>1, <1>2 DEF TradeIInv, DealsHold, At, OrderOps, DocOps
  <1>4. DealtAlone'
    <2>1. \A r \in Session : r # s => Free(r)' = Free(r)
      BY <1>1 DEF Free
    <2>2. Free(s)'
      BY <1>1 DEF Free
    <2> QED BY <1>1, <2>1, <2>2 DEF TradeIInv, DealtAlone
  <1>5. StillAsLoaded'
    <2> SUFFICES ASSUME NEW r \in Session, counter'[r].id \notin crossed'
                 PROVE  /\ counter'[r].op \in DocOps => /\ counter'[r].doc = doc'[counter'[r].id]
                                                        /\ counter'[r].back = returned'[counter'[r].id]
                        /\ counter'[r].op \in OrderOps => counter'[r].order = order'
                                                          /\ counter'[r].got = received'
      BY DEF StillAsLoaded
    <2>1. CASE r = s
      BY <1>1, <1>2, <2>1 DEF OrderOps, DocOps
    <2>2. CASE r # s /\ counter[r].op \in DocOps
      <3>1. counter'[r] = counter[r] /\ counter[r].id \in Doc /\ doc[counter[r].id].kind # "none"
        BY <1>1, <2>2 DEF TradeIInv, DealsHold
      <3>2. counter[r].id # counter[s].id
        BY <2>2, <3>1, FreeIs DEF TradeIInv, DealtAlone, DocOps
      <3> QED BY <2>2, <3>1, <3>2 DEF TradeIInv, StillAsLoaded, OrderOps, DocOps
    <2>3. CASE r # s /\ counter[r].op \in OrderOps
      <3>1. counter'[r] = counter[r] /\ counter[r].id = ThePO
        BY <1>1, <2>3 DEF TradeIInv, DealsHold, OrderOps, DocOps
      <3>2. counter[r].id # counter[s].id
        BY <2>3, <3>1, FreeIs DEF TradeIInv, DealtAlone, OrderOps
      <3> QED BY <2>3, <3>1, <3>2 DEF TradeIInv, StillAsLoaded, OrderOps, DocOps
    <2>4. CASE r # s /\ counter[r].op \notin OrderOps \cup DocOps
      BY <1>1, <2>4
    <2> QED BY <2>1, <2>2, <2>3, <2>4
  <1> QED BY <1>1, <1>3, <1>4, <1>5

LEMMA InitTradeIInv == TradeInit => TradeIInv
  <1> SUFFICES ASSUME TradeInit
               PROVE  TradeIInv
    OBVIOUS
  <1>1. order.status = "draft" /\ order.lines \in Ordered /\ order.rev = 0
        /\ order \in Orders /\ \A l \in Line : order.lines[l] \in Nat /\ order.lines[l] > 0
    BY PurchaseAssumption DEF TradeInit, Orders, PurchaseOrderStatus
  <1>2. /\ received = Nothing /\ doc = [i \in Doc |-> NoDoc] /\ returned = [i \in Doc |-> Nothing]
        /\ vouchers = 0 /\ stock = Nothing /\ payable = 0 /\ sold = 0
        /\ counter = [s \in Session |-> NoDeal] /\ crossed = {} /\ doubled = FALSE /\ amended = {}
    BY DEF TradeInit
  <1>3. TradeTables
    <2>1. doc \in [Doc -> Papers] /\ returned \in [Doc -> [Line -> Nat]]
      BY <1>2, BlankPapers, UnitsOfNothing
    <2>2. counter \in [Session -> Deals]
      BY <1>2, BlankPapers
    <2>3. received \in [Line -> Nat] /\ stock \in [Line -> Nat]
      BY <1>2, UnitsOfNothing
    <2>4. vouchers \in Nat /\ payable \in Int /\ sold \in Nat
      BY <1>2
    <2>5. doubled \in BOOLEAN
      BY <1>2, Zenon
    <2> QED BY <1>1, <2>1, <2>2, <2>3, <2>4, <2>5 DEF TradeTables
  <1>4. \A s \in Session : counter[s] = NoDeal
    BY <1>2
  <1>5. DealsHold /\ DealtAlone /\ StillAsLoaded
    BY <1>4 DEF DealsHold, DealtAlone, StillAsLoaded, NoDeal, At, Free, OrderOps, DocOps
  <1>6. OrderHolds /\ DocsHold
    BY <1>1, <1>2 DEF OrderHolds, DocsHold, NoDoc
  <1>7. SameTerms([i \in Doc |-> 0], [i \in Doc |-> 0], Doc)
    BY DEF SameTerms
  <1>8. SumFunction([i \in Doc |-> 0]) = 0
    BY <1>7, LinesAreFinite, SumZero DEF SumFunction
  <1>9. \A l \in Line : Invoiced(l) = 0
    <2> SUFFICES ASSUME NEW l \in Line
                 PROVE  Invoiced(l) = 0
      OBVIOUS
    <2>1. [i \in Doc |-> IF doc[i].ordered THEN doc[i].goods[l] ELSE 0] = [i \in Doc |-> 0]
      BY <1>2 DEF NoDoc
    <2> QED BY <1>8, <2>1 DEF Invoiced
  <1>10. Balance = 0 /\ UnpaidExpenses = 0
    <2>1. [i \in Doc |-> IF doc[i].kind = "purchase"
                         THEN doc[i].total - doc[i].paid - Units(returned[i]) ELSE 0] = [i \in Doc |-> 0]
      BY <1>2 DEF NoDoc
    <2>2. [i \in Doc |-> IF doc[i].kind = "expense" THEN doc[i].total - doc[i].paid ELSE 0]
             = [i \in Doc |-> 0]
      BY <1>2 DEF NoDoc
    <2> QED BY <1>2, <1>8, <2>1, <2>2 DEF Balance, UnpaidExpenses
  <1>11. SumFunction([i \in Doc |-> Units(doc[i].goods) - Units(returned[i])]) = 0
    <2>1. [i \in Doc |-> Units(doc[i].goods) - Units(returned[i])] = [i \in Doc |-> 0]
      BY <1>2, UnitsOfNothing DEF NoDoc
    <2> QED BY <1>8, <2>1
  <1>12. ReceivedAsInvoiced /\ ReceivedWithinOrdered
    BY <1>1, <1>2, <1>9 DEF ReceivedAsInvoiced, ReceivedWithinOrdered, Nothing
  <1>13. ClosedWhenComplete
    <2>1. PICK l \in Line : TRUE
      BY LinesAreFinite
    <2>2. ~ (order.lines[l] <= received[l])
      BY <1>1, <1>2 DEF Nothing
    <2>3. ~Fits(order.lines, received) /\ ~ (order.status = "received")
      BY <1>1, <2>2 DEF Fits
    <2> QED BY <2>3 DEF ClosedWhenComplete, Fits
  <1>14. ReturnedWithinReceived /\ ShelfIsAccounted /\ PayableAgrees
    BY <1>2, <1>10, <1>11, UnitsOfNothing DEF ReturnedWithinReceived, ShelfIsAccounted,
       PayableAgrees, Fits, Nothing, NoDoc
  <1> QED BY <1>3, <1>5, <1>6, <1>12, <1>13, <1>14 DEF TradeIInv

LEMMA LoadOrderKeeps ==
    ASSUME TradeIInv, NEW s \in Session, NEW op \in OrderOps, LoadOrder(s, op)
    PROVE  TradeIInv'
  <1>1. PICK z \in Deals : z = NoDeal
    BY BlankPapers
  <1>2. PICK k : k = [z EXCEPT !.op = op, !.order = order, !.got = received]
    OBVIOUS
  <1>3. order \in Orders /\ received \in [Line -> Nat]
    BY DEF TradeIInv, TradeTables
  <1>4. /\ k \in Deals /\ k.op = op /\ k.order = order /\ k.got = received /\ k.id = z.id
    BY <1>2, <1>3 DEF Deals
  <1>5. k.id = ThePO
    BY <1>1, <1>4 DEF NoDeal
  <1>6. Loads(s, op, k.id) /\ Deal(s, k) /\ order.status \in May(op)
    BY <1>1, <1>2, <1>5 DEF LoadOrder
  <1> QED BY <1>3, <1>4, <1>5, <1>6, LoadKeeps DEF OrderOps, DocOps

LEMMA LoadDocKeeps ==
    ASSUME TradeIInv, NEW s \in Session, NEW i \in Doc, NEW op \in DocOps, LoadDoc(s, i, op)
    PROVE  TradeIInv'
  <1>1. PICK z \in Deals : z = NoDeal
    BY BlankPapers
  <1>2. PICK k : k = [z EXCEPT !.op = op, !.id = i, !.doc = doc[i], !.back = returned[i]]
    OBVIOUS
  <1>3. doc[i] \in Papers /\ returned[i] \in [Line -> Nat]
    BY DEF TradeIInv, TradeTables
  <1>4. k \in Deals /\ k.op = op /\ k.id = i /\ k.doc = doc[i] /\ k.back = returned[i]
    BY <1>2, <1>3 DEF Deals
  <1>5. Loads(s, op, k.id) /\ Deal(s, k) /\ doc[i].kind # "none"
    BY <1>1, <1>2, <1>4 DEF LoadDoc
  <1> QED BY <1>4, <1>5, LoadKeeps DEF OrderOps, DocOps

LEMMA LoadBalanceKeeps ==
    ASSUME TradeIInv, NEW s \in Session, LoadBalance(s)
    PROVE  TradeIInv'
  <1>1. PICK z \in Deals : z = NoDeal
    BY BlankPapers
  <1>2. PICK k : k = [z EXCEPT !.op = "voucher", !.balance = Balance]
    OBVIOUS
  <1>3. Balance \in Int
    BY BooksAreWhole DEF TradeIInv
  <1>4. k \in Deals /\ k.op = "voucher" /\ k.id = z.id
    BY <1>2, <1>3 DEF Deals
  <1>5. k.id = ThePO
    BY <1>1, <1>4 DEF NoDeal
  <1>6. Loads(s, "voucher", k.id) /\ Deal(s, k)
    BY <1>1, <1>2, <1>5 DEF LoadBalance
  <1> QED BY <1>4, <1>5, <1>6, LoadKeeps DEF OrderOps, DocOps

\* A step that leaves the order and the documents alone keeps what is said of them.
LEMMA PapersStand ==
    ASSUME TradeIInv, TradeTables',
           UNCHANGED <<order, received, doc, returned, crossed, doubled, amended>>
    PROVE  /\ OrderHolds' /\ DocsHold' /\ ReceivedAsInvoiced' /\ ReceivedWithinOrdered'
           /\ ClosedWhenComplete' /\ ReturnedWithinReceived'
  <1>1. \A l \in Line : Invoiced(l)' = Invoiced(l)
    BY DEF Invoiced
  <1> QED BY <1>1 DEF TradeIInv, OrderHolds, DocsHold, ReceivedAsInvoiced, ReceivedWithinOrdered,
                      ClosedWhenComplete, ReturnedWithinReceived, Fits

LEMMA AbortDealKeeps ==
    ASSUME TradeIInv, NEW s \in Session, AbortDeal(s)
    PROVE  TradeIInv'
  <1>1. /\ ~Free(s) /\ Deal(s, NoDeal)
        /\ UNCHANGED <<order, received, doc, returned, vouchers, stock, payable, sold,
                       crossed, doubled, amended>>
    BY DEF AbortDeal, tradeRows
  <1>2. DealsHold' /\ DealtAlone' /\ StillAsLoaded' /\ counter' \in [Session -> Deals]
    BY <1>1, EndKeeps
  <1>3. TradeTables'
    BY <1>1, <1>2 DEF TradeIInv, TradeTables
  <1>4. ShelfIsAccounted' /\ PayableAgrees'
    BY <1>1 DEF TradeIInv, ShelfIsAccounted, PayableAgrees, Balance, UnpaidExpenses
  <1> QED BY <1>1, <1>2, <1>3, <1>4, PapersStand DEF TradeIInv

LEMMA PaySupplierKeeps ==
    ASSUME TradeIInv, NEW s \in Session, NEW n \in 1..2, PaySupplier(s, n)
    PROVE  TradeIInv'
  <1>1. /\ At(s, "voucher") /\ Deal(s, NoDeal)
        /\ vouchers' = vouchers + n /\ payable' = payable - n
        /\ UNCHANGED <<order, received, doc, returned, stock, sold, crossed, doubled, amended>>
    BY DEF PaySupplier, Same
  <1>2. ~Free(s)
    BY <1>1, FreeIs DEF At
  <1>3. DealsHold' /\ DealtAlone' /\ StillAsLoaded' /\ counter' \in [Session -> Deals]
    BY <1>1, <1>2, EndKeeps
  <1>4. vouchers \in Nat /\ payable \in Int
    BY DEF TradeIInv, TradeTables
  <1>5. TradeTables'
    BY <1>1, <1>3, <1>4 DEF TradeIInv, TradeTables
  <1>6. ShelfIsAccounted'
    BY <1>1 DEF TradeIInv, ShelfIsAccounted
  <1>7. PayableAgrees'
    <2>1. /\ UnpaidExpenses' = UnpaidExpenses /\ Balance' + vouchers' = Balance + vouchers
          /\ Balance \in Int /\ Balance' \in Int /\ UnpaidExpenses \in Int
      BY <1>1, <1>5, BooksStand DEF TradeIInv
    <2>2. PICK b \in Int, c \in Int, v \in Int, w \in Int :
             b = Balance /\ c = Balance' /\ v = vouchers /\ w = vouchers'
      BY <1>1, <1>4, <2>1
    <2>3. c + w = b + v
      BY <2>1, <2>2
    <2>4. w = v + n
      BY <1>1, <2>2
    <2>5. n \in Int
      OBVIOUS
    <2>6. c = b - n
      BY <2>3, <2>4, <2>5
    <2>7. CASE crossed \cap Doc # {} \/ amended # {}
      BY <1>1, <2>7 DEF PayableAgrees
    <2>8. CASE ~ (crossed \cap Doc # {} \/ amended # {})
      <3>1. payable = Balance + UnpaidExpenses
        BY <2>8 DEF TradeIInv, PayableAgrees
      <3>2. PICK e \in Int, p \in Int : e = UnpaidExpenses /\ e = UnpaidExpenses' /\ p = payable
        BY <1>4, <2>1
      <3>3. p = b + e /\ payable' = p - n
        BY <1>1, <2>2, <3>1, <3>2
      <3>4. payable' = c + e
        BY <2>5, <2>6, <3>3
      <3> QED BY <2>2, <3>2, <3>4 DEF PayableAgrees
    <2> QED BY <2>7, <2>8
  <1> QED BY <1>1, <1>3, <1>5, <1>6, <1>7, PapersStand DEF TradeIInv

LEMMA SellGoodsKeeps ==
    ASSUME TradeIInv, NEW l \in Line, SellGoods(l)
    PROVE  TradeIInv'
  <1>1. /\ stock[l] > 0 /\ stock' = [stock EXCEPT ![l] = @ - 1] /\ sold' = sold + 1
        /\ UNCHANGED <<order, received, doc, returned, vouchers, payable, counter,
                       crossed, doubled, amended>>
    BY DEF SellGoods, Same
  <1>2. stock \in [Line -> Nat] /\ sold \in Nat
    BY DEF TradeIInv, TradeTables
  <1>3. PICK q \in [Line -> Nat], r \in [Line -> Nat] : q = stock /\ r = stock'
    <2>1. stock[l] - 1 \in Nat
      BY <1>1, <1>2
    <2> QED BY <1>1, <1>2, <2>1
  <1>4. SameTerms(q, r, Line \ {l}) /\ r[l] = q[l] - 1
    BY <1>1, <1>3 DEF SameTerms
  <1>5. Units(r) = Units(q) + (r[l] - q[l]) /\ Units(q) \in Nat /\ q[l] \in Nat
    BY <1>4, UnitsChange, UnitsAreNat
  <1>6. Units(stock)' = Units(stock) - 1 /\ Units(stock) \in Nat
    BY <1>3, <1>4, <1>5 DEF Units
  <1>7. TradeTables'
    BY <1>1, <1>2, <1>3 DEF TradeIInv, TradeTables
  <1>8. DealsHold' /\ DealtAlone' /\ StillAsLoaded'
    BY <1>1 DEF TradeIInv, DealsHold, DealtAlone, StillAsLoaded, At, Free
  <1>9. ShelfIsAccounted'
    <2>1. Shelved' = Shelved
      BY <1>1 DEF Shelved
    <2> QED BY <1>1, <1>2, <1>6, <2>1 DEF TradeIInv, ShelfIsAccounted, Shelved
  <1>10. PayableAgrees'
    BY <1>1 DEF TradeIInv, PayableAgrees, Balance, UnpaidExpenses
  <1> QED BY <1>1, <1>7, <1>8, <1>9, <1>10, PapersStand DEF TradeIInv

LEMMA WriteStatusKeeps ==
    ASSUME TradeIInv, NEW s \in Session, WriteStatus(s)
    PROVE  TradeIInv'
  <1>1. PICK w : w = IF At(s, "send") THEN "sent" ELSE "cancelled"
    OBVIOUS
  <1>2. /\ counter[s].op \in {"send", "call_off"} /\ Deal(s, NoDeal)
        /\ order' = [order EXCEPT !.status = w]
        /\ UNCHANGED <<received, doc, returned, vouchers, stock, payable, sold,
                       crossed, doubled, amended>>
    BY <1>1 DEF WriteStatus, Same
  <1>3. /\ order' \in Orders /\ order'.status = w /\ order'.lines = order.lines
        /\ w \in {"sent", "cancelled"}
    BY <1>1, <1>2 DEF TradeIInv, TradeTables, Orders, PurchaseOrderStatus
  <1>4. ~Free(s) /\ counter[s].id = ThePO
    BY <1>2, FreeIs DEF DocOps
  <1>5. DealsHold' /\ DealtAlone' /\ StillAsLoaded' /\ counter' \in [Session -> Deals]
    BY <1>2, <1>3, <1>4, EndKeeps
  <1>6. TradeTables'
    BY <1>2, <1>3, <1>5 DEF TradeIInv, TradeTables
  <1>7. OrderHolds' /\ DocsHold' /\ ReturnedWithinReceived'
    BY <1>2, <1>3 DEF TradeIInv, OrderHolds, DocsHold, ReturnedWithinReceived, Fits
  <1>8. ReceivedAsInvoiced' /\ ReceivedWithinOrdered'
    <2>1. \A l \in Line : Invoiced(l)' = Invoiced(l)
      BY <1>2 DEF Invoiced
    <2> QED BY <1>2, <1>3, <2>1 DEF TradeIInv, ReceivedAsInvoiced, ReceivedWithinOrdered
  <1>9. ClosedWhenComplete'
    <2> SUFFICES ASSUME ThePO \notin crossed
                 PROVE  (order'.status = "received") = Fits(order'.lines, received')
      BY <1>2 DEF ClosedWhenComplete, Fits
    <2>1. counter[s].order = order /\ counter[s].op \in OrderOps
      BY <1>2, <1>4 DEF TradeIInv, StillAsLoaded, OrderOps
    <2>2. order.status # "received"
      BY <1>2, <2>1, MayOf DEF TradeIInv, DealsHold
    <2>3. ~Fits(order.lines, received)
      BY <2>2 DEF TradeIInv, ClosedWhenComplete
    <2> QED BY <1>2, <1>3, <2>3 DEF Fits
  <1>10. ShelfIsAccounted' /\ PayableAgrees'
    BY <1>2 DEF TradeIInv, ShelfIsAccounted, PayableAgrees, Balance, UnpaidExpenses
  <1> QED BY <1>5, <1>6, <1>7, <1>8, <1>9, <1>10 DEF TradeIInv

LEMMA UpdateOrderKeeps ==
    ASSUME TradeIInv, NEW s \in Session, NEW lines \in Ordered, UpdateOrder(s, lines)
    PROVE  TradeIInv'
  <1>1. /\ At(s, "rewrite") /\ Deal(s, NoDeal)
        /\ order' = [order EXCEPT !.lines = lines, !.rev = 1] /\ received' = Nothing
        /\ UNCHANGED <<doc, returned, vouchers, stock, payable, sold, crossed, doubled, amended>>
    BY DEF UpdateOrder, Same
  <1>2. lines \in [Line -> Nat] /\ \A l \in Line : lines[l] > 0
    BY PurchaseAssumption
  <1>3. order' \in Orders /\ order'.status = order.status /\ order'.lines = lines
    BY <1>1, <1>2 DEF TradeIInv, TradeTables, Orders
  <1>4. ~Free(s) /\ counter[s].id = ThePO
    BY <1>1, FreeIs DEF DocOps, At
  <1>5. DealsHold' /\ DealtAlone' /\ StillAsLoaded' /\ counter' \in [Session -> Deals]
    BY <1>1, <1>3, <1>4, EndKeeps
  <1>6. TradeTables'
    BY <1>1, <1>3, <1>5, UnitsOfNothing DEF TradeIInv, TradeTables
  <1>7. OrderHolds' /\ DocsHold' /\ ReturnedWithinReceived'
    BY <1>1, <1>2, <1>3 DEF TradeIInv, OrderHolds, DocsHold, ReturnedWithinReceived, Fits
  <1>8. ThePO \notin crossed => order.status = "draft" /\ received = Nothing
    <2> SUFFICES ASSUME ThePO \notin crossed
                 PROVE  order.status = "draft" /\ received = Nothing
      OBVIOUS
    <2>1. counter[s].order = order /\ counter[s].op \in OrderOps
      BY <1>1, <1>4 DEF TradeIInv, StillAsLoaded, OrderOps, At
    <2>2. order.status = "draft"
      BY <1>1, <2>1, MayOf DEF TradeIInv, DealsHold, At
    <2> QED BY <2>2 DEF TradeIInv, OrderHolds
  <1>9. ReceivedAsInvoiced' /\ ReceivedWithinOrdered'
    <2>1. \A l \in Line : Invoiced(l)' = Invoiced(l)
      BY <1>1 DEF Invoiced
    <2>2. \A l \in Line : Nothing[l] = 0
      BY DEF Nothing
    <2> QED BY <1>1, <1>2, <1>3, <1>8, <2>1, <2>2 DEF TradeIInv, ReceivedAsInvoiced, ReceivedWithinOrdered
  <1>10. ClosedWhenComplete'
    <2>1. ~Fits(lines, Nothing)
      BY <1>2, LinesAreFinite DEF Fits, Nothing
    <2> QED BY <1>1, <1>3, <1>8, <2>1 DEF ClosedWhenComplete, Fits
  <1>11. ShelfIsAccounted' /\ PayableAgrees'
    BY <1>1 DEF TradeIInv, ShelfIsAccounted, PayableAgrees, Balance, UnpaidExpenses
  <1> QED BY <1>5, <1>6, <1>7, <1>9, <1>10, <1>11 DEF TradeIInv

\* What a document adds to the balance and to the open expenses is added to account 2010.
LEMMA PayableMoves ==
    ASSUME TradeTables, TradeTables', PayableAgrees, NEW i \in Doc,
           SameTerms(doc, doc', Doc \ {i}), SameTerms(returned, returned', Doc \ {i}),
           UNCHANGED <<vouchers, crossed, amended>>,
           NEW m \in Int, payable' = payable + m,
           NEW x \in Int, NEW y \in Int, NEW u \in Int, NEW v \in Int,
           x = OwedFor(doc[i], returned[i]), y = OwedFor(doc'[i], returned'[i]),
           u = SpentFor(doc[i]), v = SpentFor(doc'[i]), y + v = x + u + m
    PROVE  PayableAgrees'
  <1>1. /\ Balance' + vouchers' = Balance + vouchers + (y - x)
        /\ UnpaidExpenses' = UnpaidExpenses + (v - u)
        /\ Balance \in Int /\ Balance' \in Int /\ UnpaidExpenses \in Int
    BY BooksMove
  <1>2. CASE crossed \cap Doc # {} \/ amended # {}
    BY <1>2 DEF PayableAgrees
  <1>3. CASE ~ (crossed \cap Doc # {} \/ amended # {})
    <2>1. payable = Balance + UnpaidExpenses
      BY <1>3 DEF PayableAgrees
    <2>2. vouchers \in Nat /\ vouchers' = vouchers /\ payable \in Int
      BY DEF TradeTables
    <2>3. PICK b \in Int, c \in Int, e \in Int, w \in Int, p \in Int :
             b = Balance /\ c = Balance' /\ e = UnpaidExpenses /\ w = vouchers /\ p = payable
      BY <1>1, <2>2
    <2>4. c + w = b + w + (y - x) /\ UnpaidExpenses' = e + (v - u) /\ p = b + e
      BY <1>1, <2>1, <2>2, <2>3
    <2>5. payable' = p + m
      BY <2>3
    <2>6. c = b + (y - x) /\ m = (y - x) + (v - u)
      BY <2>4
    <2>7. payable' = (b + e) + m
      BY <2>4, <2>5
    <2>8. (b + e) + m = c + (e + (v - u))
      BY <2>6
    <2> QED BY <2>3, <2>4, <2>7, <2>8 DEF PayableAgrees
  <1> QED BY <1>2, <1>3

\* What a document adds to the shelf is added to the batches.
LEMMA ShelfMoves ==
    ASSUME TradeTables, TradeTables', ShelfIsAccounted, NEW i \in Doc,
           SameTerms(doc, doc', Doc \ {i}), SameTerms(returned, returned', Doc \ {i}),
           UNCHANGED <<sold, crossed>>, amended \subseteq amended',
           NEW m \in Int, NEW x \in Int, NEW y \in Int, NEW a \in Int,
           a = Units(stock), Units(stock)' = a + m,
           x = ShelvedBy(doc[i], returned[i]), y = ShelvedBy(doc'[i], returned'[i]), y = x + m
    PROVE  ShelfIsAccounted'
  <1>1. Shelved' = Shelved + (y - x) /\ Shelved \in Int
    BY BooksMove
  <1>2. CASE crossed \cap amended # {}
    BY <1>2 DEF ShelfIsAccounted
  <1>3. CASE crossed \cap amended = {}
    <2>1. PICK t \in Int, o \in Int : t = Shelved /\ o = sold /\ o = sold'
      BY <1>1 DEF TradeTables
    <2>2. a + o = t
      BY <1>3, <2>1 DEF ShelfIsAccounted, Shelved
    <2>3. Units(stock)' + sold' = Shelved'
      BY <1>1, <2>1, <2>2
    <2> QED BY <2>3 DEF ShelfIsAccounted, Shelved
  <1> QED BY <1>2, <1>3

\* The id a new document gets had none.
LEMMA NewDocIs ==
    ASSUME TradeIInv, NewDoc # 0
    PROVE  /\ NewDoc \in Doc /\ doc[NewDoc].kind = "none" /\ doc[NewDoc] = NoDoc
           /\ returned[NewDoc] = Nothing
  <1>1. PICK t : t = [i \in Doc |-> doc[i].kind]
    OBVIOUS
  <1>2. NewDoc = NextId(t, Doc, "none") /\ Doc \in SUBSET Nat
    BY <1>1, PurchaseAssumption DEF NewDoc
  <1>3. NewDoc \in Doc /\ t[NewDoc] = "none"
    BY <1>2, NextFree
  <1>4. doc[NewDoc].kind = "none"
    BY <1>1, <1>3
  <1> QED BY <1>3, <1>4 DEF TradeIInv, DocsHold

LEMMA CreateExpenseKeeps ==
    ASSUME TradeIInv, CreateExpense
    PROVE  TradeIInv'
  <1>1. PICK i \in Doc, z \in Papers :
           i = NewDoc /\ doc[i].kind = "none" /\ doc[i] = z /\ z = NoDoc /\ returned[i] = Nothing
    BY NewDocIs, BlankPapers DEF CreateExpense
  <1>2. PICK d : d = [z EXCEPT !.kind = "expense", !.total = 2]
    OBVIOUS
  <1>3. /\ z.kind = "none" /\ z.method = "cash" /\ z.goods = Nothing /\ z.total = 0 /\ z.paid = 0
        /\ ~z.confirmed /\ ~z.ordered
    BY <1>1 DEF NoDoc
  <1>4. d \in Papers /\ d.kind = "expense" /\ d.total = 2 /\ d.method = "cash" /\ d.goods = Nothing
        /\ d.paid = 0 /\ ~d.confirmed /\ ~d.ordered
    BY <1>2, <1>3 DEF Papers
  <1>5. /\ doc' = [doc EXCEPT ![i] = d] /\ payable' = payable + 2
        /\ UNCHANGED <<order, received, returned, vouchers, stock, sold, counter,
                       crossed, doubled, amended>>
    BY <1>1, <1>2 DEF CreateExpense, Same
  <1>6. doc \in [Doc -> Papers] /\ returned \in [Doc -> [Line -> Nat]] /\ payable \in Int
    BY DEF TradeIInv, TradeTables
  <1>7. doc' \in [Doc -> Papers] /\ doc'[i] = d /\ \A x \in Doc : x # i => doc'[x] = doc[x]
    BY <1>4, <1>5, <1>6
  <1>8. TradeTables'
    BY <1>5, <1>6, <1>7 DEF TradeIInv, TradeTables
  <1>9. DealsHold' /\ DealtAlone' /\ StillAsLoaded'
    <2>1. \A s \in Session : counter[s].op \in DocOps => counter[s].id \in Doc /\ counter[s].id # i
      BY <1>1 DEF TradeIInv, DealsHold
    <2>2. DealsHold'
      BY <1>5, <1>7, <2>1 DEF TradeIInv, DealsHold, At
    <2>3. DealtAlone'
      BY <1>5 DEF TradeIInv, DealtAlone, Free
    <2>4. StillAsLoaded'
      BY <1>5, <1>7, <2>1 DEF TradeIInv, StillAsLoaded
    <2> QED BY <2>2, <2>3, <2>4
  <1>10. OrderHolds' /\ DocsHold'
    <2>1. OrderHolds'
      BY <1>5 DEF TradeIInv, OrderHolds
    <2>2. d.confirmed = (d.paid >= d.total /\ d.total > 0)
      BY <1>4 DEF Papers
    <2>3. DocsHold'
      BY <1>1, <1>4, <1>5, <1>7, <2>2 DEF TradeIInv, DocsHold
    <2> QED BY <2>1, <2>3
  <1>11. SameTerms(doc, doc', Doc \ {i}) /\ SameTerms(returned, returned', Doc \ {i})
    BY <1>5, <1>7 DEF SameTerms
  <1>12. \A l \in Line : Invoiced(l)' = Invoiced(l)
    <2> SUFFICES ASSUME NEW l \in Line
                 PROVE  Invoiced(l)' = Invoiced(l)
      OBVIOUS
    <2>1. Invoiced(l)' = Invoiced(l) + (BroughtBy(doc'[i], l) - BroughtBy(doc[i], l))
          /\ Invoiced(l) \in Int
      BY <1>8, <1>11, BooksMove DEF TradeIInv
    <2>2. BroughtBy(doc'[i], l) = 0 /\ BroughtBy(doc[i], l) = 0
      BY <1>1, <1>3, <1>4, <1>7 DEF BroughtBy
    <2> QED BY <2>1, <2>2
  <1>13. ReceivedAsInvoiced' /\ ReceivedWithinOrdered' /\ ClosedWhenComplete'
    BY <1>5, <1>12 DEF TradeIInv, ReceivedAsInvoiced, ReceivedWithinOrdered, ClosedWhenComplete, Fits
  <1>14. ReturnedWithinReceived'
    BY <1>1, <1>3, <1>4, <1>5, <1>7 DEF TradeIInv, ReturnedWithinReceived
  <1>15. ShelfIsAccounted'
    <2>1. PICK a \in Int, m \in Int : a = Units(stock) /\ m = 0 /\ Units(stock)' = a + m
      BY <1>5, UnitsAreNat DEF TradeIInv, TradeTables, Units
    <2>2. PICK x \in Int, y \in Int : x = ShelvedBy(doc[i], returned[i]) /\ y = x
      BY <1>6, PaperFigures, LinesAreFinite
    <2>3. y = ShelvedBy(doc'[i], returned'[i]) /\ y = x + m
      BY <1>1, <1>3, <1>4, <1>5, <1>7, <2>1, <2>2 DEF ShelvedBy
    <2> QED BY <1>5, <1>8, <1>11, <2>1, <2>2, <2>3, ShelfMoves DEF TradeIInv
  <1>16. PayableAgrees'
    <2>1. PICK m \in Int, x \in Int, y \in Int, u \in Int, v \in Int :
             m = 2 /\ x = 0 /\ y = 0 /\ u = 0 /\ v = 2
      OBVIOUS
    <2>2. /\ x = OwedFor(doc[i], returned[i]) /\ y = OwedFor(doc'[i], returned'[i])
          /\ u = SpentFor(doc[i]) /\ v = SpentFor(doc'[i])
      BY <1>1, <1>3, <1>4, <1>7, <2>1, UnitsOfNothing, <1>5 DEF OwedFor, SpentFor
    <2>3. y + v = x + u + m /\ payable' = payable + m
      BY <1>5, <2>1
    <2> QED BY <2>2, <2>3, <1>5, <1>8, <1>11, <2>1, PayableMoves, ZenonT(40) DEF TradeIInv
  <1> QED BY <1>8, <1>9, <1>10, <1>13, <1>14, <1>15, <1>16 DEF TradeIInv

LEMMA ReturnGoodsKeeps ==
    ASSUME TradeIInv, NEW s \in Session, NEW l \in Line, NEW n \in 1..2, ReturnGoods(s, l, n)
    PROVE  TradeIInv'
  <1>1. PICK i \in Doc, k \in Deals :
           i = counter[s].id /\ k = counter[s] /\ k.op = "return" /\ ~Free(s)
    BY FreeIs DEF ReturnGoods, At, DocOps, TradeIInv, DealsHold
  <1>2. /\ n <= k.doc.goods[l] - k.back[l] /\ doc[i].kind = "purchase" /\ stock[l] >= n
        /\ returned' = [returned EXCEPT ![i][l] = @ + n]
        /\ stock' = [stock EXCEPT ![l] = @ - n]
        /\ payable' = payable - n /\ Deal(s, NoDeal)
        /\ UNCHANGED <<order, received, doc, vouchers, sold, crossed, doubled, amended>>
    BY <1>1 DEF ReturnGoods, Returnable, Same
  <1>3. n \in Nat /\ n > 0
    OBVIOUS
  <1>4. doc \in [Doc -> Papers] /\ returned \in [Doc -> [Line -> Nat]] /\ stock \in [Line -> Nat]
        /\ payable \in Int
    BY DEF TradeIInv, TradeTables
  <1>5. PICK b \in [Line -> Nat], c \in [Line -> Nat], d \in Papers :
           /\ b = returned[i] /\ c = [b EXCEPT ![l] = @ + n] /\ d = doc[i]
           /\ returned' = [returned EXCEPT ![i] = c]
    <2>1. PICK b : b = returned[i] /\ b \in [Line -> Nat]
      BY <1>4
    <2>2. PICK c : c = [b EXCEPT ![l] = @ + n]
      OBVIOUS
    <2>3. c \in [Line -> Nat] /\ returned' = [returned EXCEPT ![i] = c]
      BY <1>2, <1>3, <1>4, <2>1, <2>2
    <2> QED BY <1>4, <2>1, <2>2, <2>3
  <1>6. returned' \in [Doc -> [Line -> Nat]] /\ returned'[i] = c
        /\ \A x \in Doc : x # i => returned'[x] = returned[x]
    BY <1>4, <1>5
  <1>7. c[l] = b[l] + n /\ b[l] \in Nat /\ \A x \in Line : x # l => c[x] = b[x]
    BY <1>5
  <1>8. PICK q \in [Line -> Nat], r \in [Line -> Nat] :
           q = stock /\ r = stock' /\ r[l] = q[l] - n /\ \A x \in Line : x # l => r[x] = q[x]
    <2>1. stock[l] - n \in Nat
      BY <1>2, <1>3, <1>4
    <2> QED BY <1>2, <1>4, <2>1, ZenonT(40)
  <1>9. Units(c) = Units(b) + n /\ Units(b) \in Nat /\ Units(r) = Units(q) - n /\ Units(q) \in Nat
    <2>1. SameTerms(b, c, Line \ {l}) /\ SameTerms(q, r, Line \ {l})
      BY <1>7, <1>8 DEF SameTerms
    <2>2. Units(c) = Units(b) + (c[l] - b[l]) /\ Units(r) = Units(q) + (r[l] - q[l])
      BY <2>1, UnitsChange
    <2>3. Units(b) \in Nat /\ Units(q) \in Nat /\ q[l] \in Nat
      BY UnitsAreNat
    <2> QED BY <1>3, <1>7, <1>8, <2>2, <2>3
  <1>10. DealsHold' /\ DealtAlone' /\ StillAsLoaded' /\ counter' \in [Session -> Deals]
    BY <1>1, <1>2, <1>6, EndKeeps
  <1>11. TradeTables'
    BY <1>2, <1>3, <1>4, <1>6, <1>8, <1>10 DEF TradeIInv, TradeTables
  <1>12. OrderHolds' /\ DocsHold'
    BY <1>2, <1>6 DEF TradeIInv, OrderHolds, DocsHold
  <1>13. ReceivedAsInvoiced' /\ ReceivedWithinOrdered' /\ ClosedWhenComplete'
    BY <1>2 DEF TradeIInv, ReceivedAsInvoiced, ReceivedWithinOrdered, ClosedWhenComplete, Fits, Invoiced
  <1>14. ReturnedWithinReceived'
    <2> SUFFICES ASSUME NEW x \in Doc \ (crossed \cup amended)
                 PROVE  Fits(returned'[x], doc[x].goods)
      BY <1>2 DEF ReturnedWithinReceived, Fits
    <2>1. Fits(returned[x], doc[x].goods)
      BY DEF TradeIInv, ReturnedWithinReceived
    <2>2. CASE x # i
      BY <1>6, <2>1, <2>2
    <2>3. CASE x = i
      <3>1. k.doc = d /\ k.back = b
        BY <1>1, <1>5, <2>3 DEF TradeIInv, StillAsLoaded, DocOps
      <3>2. d.goods[l] \in Nat /\ b[l] + n <= d.goods[l]
        BY <1>2, <1>3, <1>7, <3>1 DEF Papers
      <3> QED BY <1>5, <1>6, <1>7, <2>1, <2>3, <3>2 DEF Fits
    <2> QED BY <2>2, <2>3
  <1>15. SameTerms(doc, doc', Doc \ {i}) /\ SameTerms(returned, returned', Doc \ {i})
    BY <1>2, <1>6 DEF SameTerms
  <1>16. Units(d.goods) \in Nat /\ d.total \in Nat /\ d.paid \in Nat /\ d.kind = "purchase"
    BY <1>2, <1>5, UnitsAreNat DEF Papers
  <1>17. ShelfIsAccounted'
    <2>1. PICK a \in Int, m \in Int, x \in Int, y \in Int :
             /\ a = Units(q) /\ m = 0 - n /\ x = Units(d.goods) - Units(b)
             /\ y = Units(d.goods) - Units(c)
      BY <1>3, <1>9, <1>16
    <2>2. a = Units(stock) /\ Units(stock)' = a + m
      BY <1>3, <1>8, <1>9, <2>1 DEF Units
    <2>3. x = ShelvedBy(doc[i], returned[i]) /\ y = ShelvedBy(doc'[i], returned'[i]) /\ y = x + m
      BY <1>2, <1>3, <1>5, <1>6, <1>9, <1>16, <2>1 DEF ShelvedBy
    <2> QED BY <1>2, <1>11, <1>15, <2>2, <2>3, ShelfMoves DEF TradeIInv
  <1>18. PayableAgrees'
    <2>1. PICK m \in Int, x \in Int, y \in Int, u \in Int, v \in Int :
             /\ m = 0 - n /\ x = d.total - d.paid - Units(b) /\ y = d.total - d.paid - Units(c)
             /\ u = 0 /\ v = 0
      BY <1>3, <1>9, <1>16
    <2>2. /\ x = OwedFor(doc[i], returned[i]) /\ y = OwedFor(doc'[i], returned'[i])
          /\ u = SpentFor(doc[i]) /\ v = SpentFor(doc'[i])
      BY <1>2, <1>5, <1>6, <1>16, <2>1 DEF OwedFor, SpentFor
    <2>3. payable' = payable + m /\ y + v = x + u + m
      BY <1>2, <1>3, <1>4, <1>9, <1>16, <2>1
    <2>4. SameTerms(doc, doc', Doc \ {i}) /\ SameTerms(returned, returned', Doc \ {i}) /\ TradeTables /\ TradeTables'
          /\ PayableAgrees /\ UNCHANGED <<vouchers, crossed, amended>>
      BY <1>2, <1>11, <1>15 DEF TradeIInv
    <2> QED BY <2>1, <2>2, <2>3, <2>4, PayableMoves
  <1> QED BY <1>10, <1>11, <1>12, <1>13, <1>14, <1>17, <1>18 DEF TradeIInv

LEMMA PayDocKeeps ==
    ASSUME TradeIInv, NEW s \in Session, NEW n \in 1..2, PayDoc(s, n)
    PROVE  TradeIInv'
  <1>1. PICK i \in Doc, c \in Papers, old \in Papers, b \in [Line -> Nat] :
           /\ i = counter[s].id /\ c = doc[i] /\ old = counter[s].doc /\ b = returned[i]
           /\ counter[s].op = "pay" /\ ~Free(s)
    BY FreeIs DEF PayDoc, At, DocOps, TradeIInv, DealsHold, TradeTables, Deals
  <1>2. n \in Nat /\ n > 0 /\ c.total \in Nat /\ c.paid \in Nat /\ old.total \in Nat /\ old.paid \in Nat
        /\ c.confirmed \in BOOLEAN /\ c.goods \in [Line -> Nat]
    BY DEF Papers
  <1>3. PICK p \in Nat, f \in BOOLEAN :
           p = old.paid + n /\ f = (c.confirmed \/ p >= old.total)
    <2>1. PICK p : p = old.paid + n /\ p \in Nat
      BY <1>2
    <2>2. (c.confirmed \/ p >= old.total) \in BOOLEAN
      BY Zenon
    <2> QED BY <2>1, <2>2, Zenon
  <1>4. PICK d : d = [c EXCEPT !.paid = p, !.confirmed = f]
    OBVIOUS
  <1>5. /\ n <= old.total - old.paid /\ c.kind \in {"purchase", "expense"}
        /\ doc' = [doc EXCEPT ![i] = d] /\ payable' = payable - n /\ Deal(s, NoDeal)
        /\ UNCHANGED <<order, received, returned, vouchers, stock, sold, crossed, doubled, amended>>
    <2>1. /\ n <= old.total - old.paid /\ c.kind \in {"purchase", "expense"}
          /\ payable' = payable - n /\ Deal(s, NoDeal)
          /\ UNCHANGED <<order, received, returned, vouchers, stock, sold, crossed, doubled, amended>>
      BY <1>1 DEF PayDoc, Same
    <2>2. doc' = [doc EXCEPT ![i] = [doc[i] EXCEPT !.paid = old.paid + n,
                                        !.confirmed = doc[i].confirmed \/ old.paid + n >= old.total]]
      <3>1. doc' = [doc EXCEPT ![counter[s].id] =
                      [doc[counter[s].id] EXCEPT !.paid = counter[s].doc.paid + n,
                         !.confirmed = doc[counter[s].id].confirmed
                                       \/ counter[s].doc.paid + n >= counter[s].doc.total]]
        BY Zenon DEF PayDoc, PaidFull
      <3> QED BY <1>1, <3>1
    <2>3. doc' = [doc EXCEPT ![i] = d]
      BY <1>1, <1>3, <1>4, <2>2, Zenon
    <2> QED BY <2>1, <2>3
  <1>6. d \in Papers /\ d.kind = c.kind /\ d.method = c.method /\ d.goods = c.goods
        /\ d.total = c.total /\ d.paid = p /\ d.confirmed = f /\ d.ordered = c.ordered
    BY <1>4 DEF Papers
  <1>7. doc \in [Doc -> Papers] /\ returned \in [Doc -> [Line -> Nat]] /\ payable \in Int
    BY DEF TradeIInv, TradeTables
  <1>8. doc' \in [Doc -> Papers] /\ doc'[i] = d /\ \A x \in Doc : x # i => doc'[x] = doc[x]
    BY <1>5, <1>6, <1>7
  <1>9. DealsHold' /\ DealtAlone' /\ StillAsLoaded' /\ counter' \in [Session -> Deals]
    BY <1>1, <1>5, <1>6, <1>8, EndKeeps
  <1>10. TradeTables'
    BY <1>5, <1>7, <1>8, <1>9 DEF TradeIInv, TradeTables
  <1>11. i \notin crossed => c = old
    BY <1>1 DEF TradeIInv, StillAsLoaded, DocOps
  <1>12. OrderHolds' /\ DocsHold'
    <2>1. OrderHolds'
      BY <1>5 DEF TradeIInv, OrderHolds
    <2>2. /\ c.kind # "purchase" => returned[i] = Nothing
          /\ c.method = "credit" => c.confirmed
          /\ i \notin crossed /\ c.method = "cash"
             => c.confirmed = (c.paid >= c.total /\ c.total > 0)
      BY <1>1, <1>5 DEF TradeIInv, DocsHold
    <2>3. d.method = "credit" => d.confirmed
      BY <1>3, <1>6, <2>2
    <2>4. ASSUME i \notin crossed, d.method = "cash"
          PROVE  d.confirmed = (d.paid >= d.total /\ d.total > 0)
      <3>1. c.paid + n <= c.total /\ p = c.paid + n
        BY <1>2, <1>3, <1>5, <1>11, <2>4
      <3>2. ~c.confirmed /\ c.total > 0
        BY <1>2, <1>6, <2>2, <2>4, <3>1
      <3>3. f = (p >= c.total)
        BY <1>3, <1>11, <2>4, <3>2
      <3> QED BY <1>6, <3>2, <3>3
    <2>5. DocsHold'
      BY <1>5, <1>6, <1>8, <2>2, <2>3, <2>4 DEF TradeIInv, DocsHold
    <2> QED BY <2>1, <2>5
  <1>13. SameTerms(doc, doc', Doc \ {i}) /\ SameTerms(returned, returned', Doc \ {i})
    BY <1>5, <1>8 DEF SameTerms
  <1>14. \A l \in Line : Invoiced(l)' = Invoiced(l)
    <2> SUFFICES ASSUME NEW l \in Line
                 PROVE  Invoiced(l)' = Invoiced(l)
      OBVIOUS
    <2>1. Invoiced(l)' = Invoiced(l) + (BroughtBy(doc'[i], l) - BroughtBy(doc[i], l))
          /\ Invoiced(l) \in Int
      BY <1>10, <1>13, BooksMove DEF TradeIInv
    <2>2. PICK x \in Int : x = BroughtBy(doc[i], l)
      BY <1>1, PaperFigures
    <2>3. x = BroughtBy(doc'[i], l)
      BY <1>1, <1>6, <1>8, <2>2 DEF BroughtBy
    <2> QED BY <2>1, <2>2, <2>3
  <1>15. ReceivedAsInvoiced' /\ ReceivedWithinOrdered' /\ ClosedWhenComplete'
    BY <1>5, <1>14 DEF TradeIInv, ReceivedAsInvoiced, ReceivedWithinOrdered, ClosedWhenComplete, Fits
  <1>16. ReturnedWithinReceived'
    <2>1. \A x \in Doc : doc'[x].goods = doc[x].goods
      BY <1>1, <1>6, <1>8
    <2> QED BY <1>5, <2>1 DEF TradeIInv, ReturnedWithinReceived, Fits
  <1>17. ShelfIsAccounted'
    <2>1. PICK a \in Int, m \in Int : a = Units(stock) /\ m = 0 /\ Units(stock)' = a + m
      BY <1>5, UnitsAreNat DEF TradeIInv, TradeTables, Units
    <2>2. PICK x \in Int, y \in Int : x = ShelvedBy(doc[i], returned[i]) /\ y = x
      BY <1>1, PaperFigures, LinesAreFinite
    <2>3. y = ShelvedBy(doc'[i], returned'[i]) /\ y = x + m
      BY <1>1, <1>5, <1>6, <1>8, <2>1, <2>2 DEF ShelvedBy
    <2> QED BY <1>5, <1>10, <1>13, <2>1, <2>2, <2>3, ShelfMoves DEF TradeIInv
  <1>18. PayableAgrees'
    <2>1. CASE i \in crossed
      BY <1>5, <2>1 DEF PayableAgrees
    <2>2. CASE i \notin crossed
      <3>1. p = c.paid + n /\ Units(b) \in Nat
        BY <1>3, <1>11, <2>2, UnitsAreNat
      <3>2. PICK m \in Int, x \in Int, y \in Int, u \in Int, v \in Int :
               /\ m = 0 - n /\ x = OwedFor(c, b) /\ y = OwedFor(d, b)
               /\ u = SpentFor(c) /\ v = SpentFor(d)
        BY <1>2, <1>6, PaperFigures, LinesAreFinite
      <3>3. /\ x = OwedFor(doc[i], returned[i]) /\ y = OwedFor(doc'[i], returned'[i])
            /\ u = SpentFor(doc[i]) /\ v = SpentFor(doc'[i])
        BY <1>1, <1>5, <1>8, <3>2
      <3>4. y + v = x + u + m
        <4>1. CASE c.kind = "purchase"
          <5>1. /\ x = c.total - c.paid - Units(b) /\ y = c.total - p - Units(b)
                /\ u = 0 /\ v = 0
            BY <1>6, <3>2, <4>1 DEF OwedFor, SpentFor
          <5> QED BY <1>2, <3>1, <3>2, <5>1
        <4>2. CASE c.kind = "expense"
          <5>1. x = 0 /\ y = 0 /\ u = c.total - c.paid /\ v = c.total - p
            BY <1>6, <3>2, <4>2 DEF OwedFor, SpentFor
          <5> QED BY <1>2, <3>1, <3>2, <5>1
        <4> QED BY <1>5, <4>1, <4>2
      <3>5. payable' = payable + m
        BY <1>2, <1>5, <1>7, <3>2
      <3>6. SameTerms(doc, doc', Doc \ {i}) /\ SameTerms(returned, returned', Doc \ {i})
            /\ TradeTables /\ TradeTables' /\ PayableAgrees /\ UNCHANGED <<vouchers, crossed, amended>>
        BY <1>5, <1>10, <1>13 DEF TradeIInv
      <3> QED BY <3>3, <3>4, <3>5, <3>6, PayableMoves
    <2> QED BY <2>1, <2>2
  <1> QED BY <1>9, <1>10, <1>12, <1>15, <1>16, <1>17, <1>18 DEF TradeIInv

LEMMA DeleteInvoiceKeeps ==
    ASSUME TradeIInv, NEW s \in Session, DeleteInvoice(s)
    PROVE  TradeIInv'
  <1>1. PICK i \in Doc, c \in Papers, old \in Papers, z \in Papers :
           /\ i = counter[s].id /\ c = doc[i] /\ old = counter[s].doc /\ z = NoDoc
           /\ counter[s].op = "delete" /\ ~Free(s)
    BY FreeIs, BlankPapers DEF DeleteInvoice, At, DocOps, TradeIInv, DealsHold, TradeTables, Deals
  <1>2. PICK d : d = [z EXCEPT !.kind = "deleted"]
    OBVIOUS
  <1>3. /\ c.kind = "purchase" /\ Fits(old.goods, stock) /\ returned[i] = Nothing
        /\ stock' = Minus(stock, old.goods)
        /\ doc' = [doc EXCEPT ![i] = d] /\ payable' = payable - c.total
        /\ amended' = amended \cup {i} /\ Deal(s, NoDeal)
        /\ UNCHANGED <<order, received, returned, vouchers, sold, crossed, doubled>>
    BY <1>1, <1>2 DEF DeleteInvoice, Same
  <1>4. z.method = "cash" /\ z.goods = Nothing /\ z.total = 0 /\ ~z.confirmed
    BY <1>1 DEF NoDoc
  <1>5. d \in Papers /\ d.kind = "deleted" /\ d.method = "cash" /\ d.goods = Nothing
        /\ d.total = 0 /\ ~d.confirmed
    BY <1>2, <1>4 DEF Papers
  <1>6. doc \in [Doc -> Papers] /\ payable \in Int /\ stock \in [Line -> Nat]
        /\ c.total \in Nat /\ c.goods \in [Line -> Nat] /\ old.goods \in [Line -> Nat]
    BY DEF TradeIInv, TradeTables, Papers
  <1>7. doc' \in [Doc -> Papers] /\ doc'[i] = d /\ \A x \in Doc : x # i => doc'[x] = doc[x]
    BY <1>3, <1>5, <1>6
  <1>8. PICK q \in [Line -> Nat], r \in [Line -> Nat], g \in [Line -> Nat] :
           q = stock /\ r = stock' /\ g = old.goods /\ r = Minus(q, g)
    <2>1. \A l \in Line : stock[l] - old.goods[l] \in Nat
      BY <1>3, <1>6 DEF Fits
    <2> QED BY <1>3, <1>6, <2>1 DEF Minus
  <1>9. DealsHold' /\ DealtAlone' /\ StillAsLoaded' /\ counter' \in [Session -> Deals]
    BY <1>1, <1>3, <1>5, <1>7, EndKeeps
  <1>10. TradeTables'
    BY <1>3, <1>6, <1>7, <1>8, <1>9 DEF TradeIInv, TradeTables
  <1>11. OrderHolds' /\ DocsHold'
    <2>1. OrderHolds'
      BY <1>3 DEF TradeIInv, OrderHolds
    <2>2. d.confirmed = (d.paid >= d.total /\ d.total > 0)
      BY <1>5 DEF Papers
    <2>3. DocsHold'
      BY <1>3, <1>5, <1>7, <2>2 DEF TradeIInv, DocsHold
    <2> QED BY <2>1, <2>3
  <1>12. ReceivedAsInvoiced' /\ ReceivedWithinOrdered' /\ PayableAgrees'
    BY <1>3 DEF ReceivedAsInvoiced, ReceivedWithinOrdered, PayableAgrees
  <1>13. ClosedWhenComplete'
    BY <1>3 DEF TradeIInv, ClosedWhenComplete, Fits
  <1>14. ReturnedWithinReceived'
    BY <1>3, <1>7 DEF TradeIInv, ReturnedWithinReceived
  <1>15. ShelfIsAccounted'
    <2>1. CASE i \in crossed
      BY <1>3, <2>1 DEF ShelfIsAccounted
    <2>2. CASE i \notin crossed
      <3>1. g = c.goods
        BY <1>1, <1>8, <2>2 DEF TradeIInv, StillAsLoaded, DocOps
      <3>2. Units(r) = Units(q) - Units(g) /\ Units(q) \in Nat /\ Units(g) \in Nat
        BY <1>8, UnitsMinus, UnitsAreNat
      <3>3. PICK a \in Int, m \in Int, x \in Int, y \in Int :
               a = Units(q) /\ m = 0 - Units(g) /\ x = Units(g) /\ y = 0
        BY <3>2
      <3>4. a = Units(stock) /\ Units(stock)' = a + m
        BY <1>8, <3>2, <3>3 DEF Units
      <3>5. x = ShelvedBy(doc[i], returned[i]) /\ y = ShelvedBy(doc'[i], returned'[i]) /\ y = x + m
        BY <1>1, <1>3, <1>5, <1>7, <3>1, <3>2, <3>3, UnitsOfNothing DEF ShelvedBy
      <3>6. SameTerms(doc, doc', Doc \ {i}) /\ SameTerms(returned, returned', Doc \ {i})
            /\ TradeTables /\ TradeTables' /\ ShelfIsAccounted /\ UNCHANGED <<sold, crossed>>
            /\ amended \subseteq amended'
        BY <1>3, <1>7, <1>10 DEF TradeIInv, SameTerms
      <3> QED BY <3>4, <3>5, <3>6, ShelfMoves
    <2> QED BY <2>1, <2>2
  <1> QED BY <1>9, <1>10, <1>11, <1>12, <1>13, <1>14, <1>15 DEF TradeIInv

LEMMA UpdateInvoiceKeeps ==
    ASSUME TradeIInv, NEW s \in Session, NEW goods \in Ordered, UpdateInvoice(s, goods, "cash")
    PROVE  TradeIInv'
  <1>1. PICK i \in Doc, c \in Papers, old \in Papers :
           /\ i = counter[s].id /\ c = doc[i] /\ old = counter[s].doc
           /\ counter[s].op = "edit" /\ ~Free(s)
    BY FreeIs DEF UpdateInvoice, At, DocOps, TradeIInv, DealsHold, TradeTables, Deals
  <1>2. goods \in [Line -> Nat] /\ Units(goods) \in Nat
    BY PurchaseAssumption, UnitsAreNat
  <1>3. PICK g : g = IF c.rev = old.rev THEN goods ELSE Plus(c.goods, goods)
    OBVIOUS
  <1>4. PICK m : m = Written(c.method, old.method, "cash")
    OBVIOUS
  <1>5. PICK p : p = Written(c.paid, old.paid, 0)
    OBVIOUS
  <1>6. PICK f : f = Written(c.confirmed, old.confirmed, "cash" = "credit")
    OBVIOUS
  <1>7. PICK d : d = [c EXCEPT !.goods = g, !.total = Units(goods), !.rev = c.rev + 1,
                               !.method = m, !.paid = p, !.confirmed = f]
    BY SMTT(30)
  <1>8. /\ c.kind = "purchase" /\ Fits(old.goods, stock)
        /\ stock' = Rebuilt(old.goods, goods)
        /\ doc' = [doc EXCEPT ![i] = d] /\ amended' = amended \cup {i}
        /\ payable' = payable - c.total + Units(goods) /\ Deal(s, NoDeal)
        /\ UNCHANGED <<order, received, returned, vouchers, sold, crossed, doubled>>
    <2>1. /\ c.kind = "purchase" /\ Fits(old.goods, stock)
          /\ stock' = Rebuilt(old.goods, goods) /\ amended' = amended \cup {i}
          /\ payable' = payable - c.total + Units(goods) /\ Deal(s, NoDeal)
          /\ UNCHANGED <<order, received, returned, vouchers, sold, crossed, doubled>>
      BY <1>1 DEF UpdateInvoice, Same
    <2>2. doc' = [doc EXCEPT ![counter[s].id] =
                    [doc[counter[s].id] EXCEPT
                       !.goods = IF doc[counter[s].id].rev = counter[s].doc.rev
                                 THEN goods ELSE Plus(doc[counter[s].id].goods, goods),
                       !.total = Units(goods), !.rev = doc[counter[s].id].rev + 1,
                       !.method = Written(doc[counter[s].id].method, counter[s].doc.method, "cash"),
                       !.paid = Written(doc[counter[s].id].paid, counter[s].doc.paid, 0),
                       !.confirmed = Written(doc[counter[s].id].confirmed, counter[s].doc.confirmed,
                                             "cash" = "credit")]]
      BY Zenon DEF UpdateInvoice
    <2> QED BY <1>1, <1>3, <1>4, <1>5, <1>6, <1>7, <2>1, <2>2
  <1>9. /\ g \in [Line -> Nat] /\ m = "cash" /\ p \in Nat /\ f \in BOOLEAN
        /\ i \notin crossed => c = old /\ g = goods /\ p = 0 /\ f = FALSE
    <2>1. /\ c.goods \in [Line -> Nat] /\ c.paid \in Nat /\ c.confirmed \in BOOLEAN
          /\ c.method \in {"cash", "credit"} /\ old.method \in {"cash", "credit"}
          /\ old.confirmed \in BOOLEAN
      BY DEF Papers
    <2>2. g \in [Line -> Nat]
      BY <1>2, <1>3, <2>1 DEF Plus
    <2>3. m = "cash"
      BY <1>1, <1>4, <2>1 DEF Written, TradeIInv, DealsHold, DocOps
    <2>4. p \in Nat
      BY <1>5, <2>1 DEF Written
    <2>5. f \in BOOLEAN
      BY <1>6, <2>1 DEF Written
    <2>6. i \notin crossed => c = old
      BY <1>1 DEF TradeIInv, StillAsLoaded, DocOps
    <2>7. i \notin crossed => g = goods /\ p = 0
      BY <1>3, <1>5, <2>6 DEF Written
    <2>8. i \notin crossed => f = FALSE
      BY <1>6, <2>1, <2>6 DEF Written
    <2> QED BY <2>2, <2>3, <2>4, <2>5, <2>6, <2>7, <2>8
  <1>10. /\ d \in Papers /\ d.kind = "purchase" /\ d.method = "cash" /\ d.goods = g
         /\ d.total = Units(goods) /\ d.paid = p /\ d.confirmed = f
    <2>1. PICK t \in Nat, v \in Nat : t = Units(goods) /\ v = c.rev + 1
      BY <1>2 DEF Papers
    <2>2. d = [c EXCEPT !.goods = g, !.total = t, !.rev = v, !.method = m, !.paid = p, !.confirmed = f]
      BY <1>7, <2>1
    <2>3. m \in {"cash", "credit"}
      BY <1>9
    <2> QED BY <1>8, <1>9, <2>1, <2>2, <2>3 DEF Papers
  <1>11. doc \in [Doc -> Papers] /\ payable \in Int /\ stock \in [Line -> Nat]
         /\ c.total \in Nat /\ c.goods \in [Line -> Nat] /\ old.goods \in [Line -> Nat]
         /\ returned \in [Doc -> [Line -> Nat]]
    BY DEF TradeIInv, TradeTables, Papers
  <1>12. doc' \in [Doc -> Papers] /\ doc'[i] = d /\ \A x \in Doc : x # i => doc'[x] = doc[x]
    BY <1>8, <1>10, <1>11
  <1>13. PICK q \in [Line -> Nat], h \in [Line -> Nat], k \in [Line -> Nat], r \in [Line -> Nat] :
           q = stock /\ h = old.goods /\ k = Minus(q, h) /\ r = stock' /\ r = Plus(k, goods)
    <2>1. \A l \in Line : stock[l] - old.goods[l] \in Nat
      BY <1>8, <1>11 DEF Fits
    <2>2. PICK k \in [Line -> Nat] : k = Minus(stock, old.goods)
      BY <1>11, <2>1 DEF Minus
    <2>3. stock' = Plus(k, goods) /\ Plus(k, goods) \in [Line -> Nat]
      BY <1>2, <1>8, <2>2 DEF Rebuilt, Plus
    <2> QED BY <1>11, <2>2, <2>3
  <1>14. DealsHold' /\ DealtAlone' /\ StillAsLoaded' /\ counter' \in [Session -> Deals]
    BY <1>1, <1>8, <1>10, <1>12, EndKeeps
  <1>15. TradeTables'
    BY <1>2, <1>8, <1>11, <1>12, <1>13, <1>14 DEF TradeIInv, TradeTables
  <1>16. OrderHolds' /\ DocsHold'
    <2>1. OrderHolds'
      BY <1>8 DEF TradeIInv, OrderHolds
    <2>2. i \notin crossed => d.confirmed = (d.paid >= d.total /\ d.total > 0)
      BY <1>2, <1>9, <1>10
    <2>3. DocsHold'
      BY <1>8, <1>10, <1>12, <2>2 DEF TradeIInv, DocsHold
    <2> QED BY <2>1, <2>3
  <1>17. ReceivedAsInvoiced' /\ ReceivedWithinOrdered' /\ PayableAgrees'
    BY <1>8 DEF ReceivedAsInvoiced, ReceivedWithinOrdered, PayableAgrees
  <1>18. ClosedWhenComplete'
    BY <1>8 DEF TradeIInv, ClosedWhenComplete, Fits
  <1>19. ReturnedWithinReceived'
    BY <1>8, <1>12 DEF TradeIInv, ReturnedWithinReceived
  <1>20. ShelfIsAccounted'
    <2>1. CASE i \in crossed
      BY <1>8, <2>1 DEF ShelfIsAccounted
    <2>2. CASE i \notin crossed
      <3>1. h = c.goods /\ d.goods = goods
        BY <1>9, <1>10, <1>13, <2>2
      <3>2. PICK b \in [Line -> Nat] : b = returned[i]
        BY <1>11
      <3>3. /\ Units(k) = Units(q) - Units(h) /\ Units(r) = Units(k) + Units(goods)
            /\ Units(q) \in Nat /\ Units(h) \in Nat /\ Units(b) \in Nat
        BY <1>2, <1>13, UnitsMinus, UnitsPlus, UnitsAreNat
      <3>4. PICK a \in Int, e \in Int, x \in Int, y \in Int :
               /\ a = Units(q) /\ e = Units(goods) - Units(h)
               /\ x = Units(h) - Units(b) /\ y = Units(goods) - Units(b)
        <4>1. Units(goods) - Units(h) \in Int /\ Units(h) - Units(b) \in Int
              /\ Units(goods) - Units(b) \in Int /\ Units(q) \in Int
          BY <1>2, <3>3
        <4> QED BY <4>1
      <3>5. a = Units(stock) /\ Units(stock)' = a + e
        <4>1. Units(r) = a + e
          BY <1>2, <3>3, <3>4
        <4> QED BY <1>13, <3>4, <4>1 DEF Units
      <3>6. x = ShelvedBy(doc[i], returned[i]) /\ y = ShelvedBy(doc'[i], returned'[i])
        BY <1>1, <1>8, <1>12, <3>1, <3>2, <3>4 DEF ShelvedBy
      <3>7. y = x + e
        BY <1>2, <3>3, <3>4
      <3>8. SameTerms(doc, doc', Doc \ {i}) /\ SameTerms(returned, returned', Doc \ {i})
            /\ TradeTables /\ TradeTables' /\ ShelfIsAccounted /\ UNCHANGED <<sold, crossed>>
            /\ amended \subseteq amended'
        BY <1>8, <1>12, <1>15 DEF TradeIInv, SameTerms
      <3> QED BY <3>5, <3>6, <3>7, <3>8, ShelfMoves
    <2> QED BY <2>1, <2>2
  <1> QED BY <1>14, <1>15, <1>16, <1>17, <1>18, <1>19, <1>20 DEF TradeIInv

LEMMA ReceiveOrderKeeps ==
    ASSUME TradeIInv, NEW s \in Session, NEW e \in Deliveries, NEW method \in {"cash", "credit"},
           ReceiveOrder(s, e, method)
    PROVE  TradeIInv'
  <1>1. PICK i \in Doc, z \in Papers :
           i = NewDoc /\ doc[i].kind = "none" /\ doc[i] = z /\ z = NoDoc /\ returned[i] = Nothing
    BY NewDocIs, BlankPapers DEF ReceiveOrder
  <1>2. PICK k \in Deals, lines \in [Line -> Nat], got \in [Line -> Nat], L \in [Line -> Nat] :
           /\ k = counter[s] /\ lines = k.order.lines /\ got = k.got /\ L = Listed(e)
           /\ k.op = "receive" /\ counter[s].id = ThePO /\ ~Free(s)
    BY FreeIs, ListedIs DEF ReceiveOrder, At, DocOps, TradeIInv, TradeTables, Deals, Orders
  <1>3. PICK u \in Nat : u = Units(L)
    BY UnitsAreNat
  <1>4. PICK f \in BOOLEAN : f = (method = "credit")
    BY Zenon
  <1>5. PICK d : d = [z EXCEPT !.kind = "purchase", !.method = method, !.goods = L,
                               !.total = u, !.confirmed = f, !.ordered = TRUE]
    OBVIOUS
  <1>6. PICK all \in [Line -> Nat] : all = Added(got, e) /\ \A l \in Line : all[l] = got[l] + L[l]
    <2>1. PICK all : all = [l \in Line |-> got[l] + L[l]]
      OBVIOUS
    <2>2. all \in [Line -> Nat] /\ \A l \in Line : all[l] = got[l] + L[l]
      BY <2>1
    <2>3. all = Added(got, e)
      BY <1>2, <2>1 DEF Added, Plus
    <2> QED BY <2>2, <2>3
  <1>7. PICK st : st = Written(order.status, k.order.status, StatusAfter(lines, all))
    OBVIOUS
  <1>8. /\ EachFits(e, lines, got)
        /\ doc' = [doc EXCEPT ![i] = d]
        /\ received' = [l \in Line |-> Written(received[l], got[l], all[l])]
        /\ order' = [order EXCEPT !.status = st]
        /\ doubled' = (doubled \/ \E x, y \in DOMAIN e : x # y /\ e[x][1] = e[y][1])
        /\ stock' = Plus(stock, L) /\ payable' = payable + u /\ Deal(s, NoDeal)
        /\ UNCHANGED <<returned, vouchers, sold, crossed, amended>>
    <2>1. doc' = [doc EXCEPT ![i] = d]
      BY <1>1, <1>2, <1>3, <1>4, <1>5 DEF ReceiveOrder
    <2>2. order' = [order EXCEPT !.status = st]
      BY <1>2, <1>6, <1>7 DEF ReceiveOrder
    <2>3. doubled' = (doubled \/ \E x, y \in DOMAIN e : x # y /\ e[x][1] = e[y][1])
      BY DEF ReceiveOrder
    <2>4. /\ EachFits(e, lines, got)
          /\ received' = [l \in Line |-> Written(received[l], got[l], all[l])]
          /\ stock' = Plus(stock, L) /\ payable' = payable + u /\ Deal(s, NoDeal)
          /\ UNCHANGED <<returned, vouchers, sold, crossed, amended>>
      BY <1>2, <1>3, <1>6 DEF ReceiveOrder, Same
    <2> QED BY <2>1, <2>2, <2>3, <2>4
  <1>9. /\ z.method = "cash" /\ z.total = 0 /\ z.paid = 0 /\ z.goods = Nothing
        /\ ~z.confirmed /\ ~z.ordered /\ z.kind = "none"
    BY <1>1 DEF NoDoc
  <1>10. /\ d \in Papers /\ d.kind = "purchase" /\ d.method = method /\ d.goods = L
         /\ d.total = u /\ d.paid = 0 /\ d.confirmed = f /\ d.ordered
    BY <1>5, <1>9 DEF Papers
  <1>11. doc \in [Doc -> Papers] /\ payable \in Int /\ stock \in [Line -> Nat]
         /\ received \in [Line -> Nat] /\ order \in Orders /\ k.order \in Orders
    BY DEF TradeIInv, TradeTables, Deals
  <1>12. doc' \in [Doc -> Papers] /\ doc'[i] = d /\ \A x \in Doc : x # i => doc'[x] = doc[x]
    BY <1>8, <1>10, <1>11
  <1>13. received' \in [Line -> Nat]
    BY <1>8, <1>11 DEF Written
  <1>14. /\ order' \in Orders /\ order'.status = st /\ order'.lines = order.lines
         /\ st \in PurchaseOrderStatus /\ st # "draft" /\ order.status # "draft"
    <2>1. order.status # "draft"
      BY <1>2 DEF TradeIInv, DealsHold, At
    <2>2. st \in PurchaseOrderStatus /\ st # "draft"
      BY <1>7, <1>11, <2>1 DEF Written, StatusAfter, Orders, PurchaseOrderStatus
    <2> QED BY <1>8, <1>11, <2>1, <2>2 DEF Orders
  <1>15. PICK q \in [Line -> Nat], r \in [Line -> Nat] : q = stock /\ r = stock' /\ r = Plus(q, L)
    BY <1>8, <1>11 DEF Plus
  <1>16. DealsHold' /\ DealtAlone' /\ StillAsLoaded' /\ counter' \in [Session -> Deals]
    BY <1>1, <1>2, <1>8, <1>12, <1>14, EndKeeps
  <1>17. doubled' \in BOOLEAN
    BY <1>8, Zenon
  <1>18. TradeTables'
    BY <1>3, <1>8, <1>11, <1>12, <1>13, <1>14, <1>15, <1>16, <1>17 DEF TradeIInv, TradeTables
  <1>19. OrderHolds' /\ DocsHold'
    <2>1. OrderHolds'
      BY <1>14 DEF TradeIInv, OrderHolds
    <2>2. /\ d.method = "credit" => d.confirmed
          /\ d.method = "cash" => d.confirmed = (d.paid >= d.total /\ d.total > 0)
      <3>1. CASE method = "credit"
        BY <1>4, <1>10, <3>1
      <3>2. CASE method = "cash"
        <4>1. f = FALSE
          BY <1>4, <3>2
        <4>2. ~ (d.paid >= d.total /\ d.total > 0)
          BY <1>3, <1>10
        <4> QED BY <1>10, <3>2, <4>1, <4>2
      <3> QED BY <3>1, <3>2
    <2>3. DocsHold'
      BY <1>8, <1>10, <1>12, <2>2 DEF TradeIInv, DocsHold
    <2> QED BY <2>1, <2>3
  <1>20. SameTerms(doc, doc', Doc \ {i}) /\ SameTerms(returned, returned', Doc \ {i})
    BY <1>8, <1>12 DEF SameTerms
  <1>21. \A l \in Line : Invoiced(l)' = Invoiced(l) + L[l] /\ Invoiced(l) \in Int
    <2> SUFFICES ASSUME NEW l \in Line
                 PROVE  Invoiced(l)' = Invoiced(l) + L[l] /\ Invoiced(l) \in Int
      OBVIOUS
    <2>1. Invoiced(l)' = Invoiced(l) + (BroughtBy(doc'[i], l) - BroughtBy(doc[i], l))
          /\ Invoiced(l) \in Int
      BY <1>18, <1>20, BooksMove DEF TradeIInv
    <2>2. BroughtBy(doc'[i], l) = L[l] /\ BroughtBy(doc[i], l) = 0 /\ L[l] \in Int
      BY <1>1, <1>9, <1>10, <1>12 DEF BroughtBy
    <2> QED BY <2>1, <2>2
  <1>22. ThePO \notin crossed =>
            k.order = order /\ lines = order.lines /\ got = received /\ received' = all
    <2> SUFFICES ASSUME ThePO \notin crossed
                 PROVE  k.order = order /\ lines = order.lines /\ got = received /\ received' = all
      OBVIOUS
    <2>1. k.order = order /\ got = received
      BY <1>2 DEF TradeIInv, StillAsLoaded, OrderOps
    <2>2. \A l \in Line : received'[l] = all[l]
      BY <1>8, <2>1 DEF Written
    <2> QED BY <1>2, <1>13, <2>1, <2>2
  <1>23. ReceivedAsInvoiced'
    <2>1. CASE ThePO \in crossed \/ amended # {}
      BY <1>8, <2>1 DEF ReceivedAsInvoiced
    <2>2. CASE ThePO \notin crossed /\ amended = {}
      <3>1. \A l \in Line : received'[l] = received[l] + L[l] /\ received[l] = Invoiced(l)
        BY <1>6, <1>22, <2>2 DEF TradeIInv, ReceivedAsInvoiced
      <3>2. \A l \in Line : received'[l] = Invoiced(l)'
        BY <1>21, <3>1
      <3> QED BY <3>2 DEF ReceivedAsInvoiced
    <2> QED BY <2>1, <2>2
  <1>24. ReceivedWithinOrdered'
    <2>1. CASE ThePO \in crossed \/ doubled' \/ amended # {}
      BY <1>8, <2>1 DEF ReceivedWithinOrdered
    <2>2. CASE ~ (ThePO \in crossed \/ doubled' \/ amended # {})
      <3>1. /\ ThePO \notin crossed /\ ~doubled /\ amended = {}
            /\ ~ \E x, y \in DOMAIN e : x # y /\ e[x][1] = e[y][1]
        BY <1>8, <2>2
      <3>2. ASSUME NEW l \in Line
            PROVE  Invoiced(l)' <= order'.lines[l]
        <4>1. received[l] = Invoiced(l) /\ Invoiced(l) <= order.lines[l]
          BY <3>1 DEF TradeIInv, ReceivedAsInvoiced, ReceivedWithinOrdered
        <4>2. PICK b \in Nat : b = lines[l] - got[l] /\ b = order.lines[l] - received[l]
          <5>1. order.lines[l] \in Nat /\ received[l] \in Nat
            BY <1>11 DEF Orders
          <5> QED BY <1>22, <3>1, <4>1, <5>1
        <4>3. \A x \in DOMAIN e : e[x][1] = l => e[x][2] <= b
          BY <1>8, <4>2 DEF EachFits
        <4>4. L[l] <= b
          BY <1>2, <3>1, <4>3, ListedOnce
        <4>5. order.lines[l] \in Nat /\ received[l] \in Nat /\ L[l] \in Nat
          BY <1>11 DEF Orders
        <4>6. Invoiced(l)' = received[l] + L[l]
          BY <1>21, <4>1
        <4> QED BY <1>14, <4>2, <4>4, <4>5, <4>6
      <3> QED BY <3>2 DEF ReceivedWithinOrdered
    <2> QED BY <2>1, <2>2
  <1>25. ClosedWhenComplete'
    <2>1. CASE ThePO \in crossed
      BY <1>8, <2>1 DEF ClosedWhenComplete
    <2>2. CASE ThePO \notin crossed
      <3>1. st = StatusAfter(order.lines, all)
        BY <1>7, <1>22, <2>2 DEF Written
      <3>2. (st = "received") = Fits(order.lines, all)
        BY <3>1 DEF StatusAfter, Fits
      <3> QED BY <1>14, <1>22, <2>2, <3>2 DEF ClosedWhenComplete, Fits
    <2> QED BY <2>1, <2>2
  <1>26. ReturnedWithinReceived'
    <2>1. Fits(returned'[i], doc'[i].goods)
      BY <1>1, <1>8, <1>10, <1>12 DEF Fits, Nothing
    <2> QED BY <1>8, <1>12, <2>1 DEF TradeIInv, ReturnedWithinReceived, Fits
  <1>27. ShelfIsAccounted'
    <2>1. Units(r) = Units(q) + u /\ Units(q) \in Nat /\ Units(Nothing) = 0
      BY <1>3, <1>15, UnitsPlus, UnitsAreNat, UnitsOfNothing
    <2>2. PICK a \in Int, m \in Int, x \in Int, y \in Int : a = Units(q) /\ m = u /\ x = 0 /\ y = u
      BY <2>1
    <2>3. a = Units(stock) /\ Units(stock)' = a + m
      BY <1>15, <2>1, <2>2 DEF Units
    <2>4. x = ShelvedBy(doc[i], returned[i]) /\ y = ShelvedBy(doc'[i], returned'[i]) /\ y = x + m
      BY <1>1, <1>3, <1>8, <1>9, <1>10, <1>12, <2>1, <2>2 DEF ShelvedBy
    <2>5. TradeTables /\ TradeTables' /\ ShelfIsAccounted /\ UNCHANGED <<sold, crossed>>
          /\ amended \subseteq amended'
      BY <1>8, <1>18 DEF TradeIInv
    <2> QED BY <1>20, <2>3, <2>4, <2>5, ShelfMoves
  <1>28. PayableAgrees'
    <2>1. PICK m \in Int, x \in Int, y \in Int, v \in Int, w \in Int :
             m = u /\ x = 0 /\ y = u /\ v = 0 /\ w = 0
      OBVIOUS
    <2>2. /\ x = OwedFor(doc[i], returned[i]) /\ y = OwedFor(doc'[i], returned'[i])
          /\ v = SpentFor(doc[i]) /\ w = SpentFor(doc'[i])
      BY <1>1, <1>8, <1>9, <1>10, <1>12, <2>1, UnitsOfNothing DEF OwedFor, SpentFor
    <2>3. y + w = x + v + m /\ payable' = payable + m
      BY <1>8, <2>1
    <2>4. TradeTables /\ TradeTables' /\ PayableAgrees /\ UNCHANGED <<vouchers, crossed, amended>>
      BY <1>8, <1>18 DEF TradeIInv
    <2> QED BY <1>20, <2>2, <2>3, <2>4, PayableMoves, ZenonT(40)
  <1> QED BY <1>16, <1>18, <1>19, <1>23, <1>24, <1>25, <1>26, <1>27, <1>28 DEF TradeIInv

LEMMA TradeStutterKeeps ==
    ASSUME TradeIInv, UNCHANGED tradeVars
    PROVE  TradeIInv'
  <1>1. UNCHANGED <<order, received, doc, returned, vouchers, stock, payable, sold, counter,
                    crossed, doubled, amended>>
    BY DEF tradeVars, tradeRows
  <1>2. TradeTables' /\ DealsHold' /\ DealtAlone' /\ StillAsLoaded'
    BY <1>1 DEF TradeIInv, TradeTables, DealsHold, DealtAlone, StillAsLoaded, At, Free
  <1>3. ShelfIsAccounted' /\ PayableAgrees'
    BY <1>1 DEF TradeIInv, ShelfIsAccounted, PayableAgrees, Units, Balance, UnpaidExpenses
  <1> QED BY <1>1, <1>2, <1>3, PapersStand DEF TradeIInv

LEMMA TradeStepKeeps == TradeIInv /\ [TradeNext]_tradeVars => TradeIInv'
  <1> SUFFICES ASSUME TradeIInv, [TradeNext]_tradeVars
               PROVE  TradeIInv'
    OBVIOUS
  <1>1. CASE CreateExpense
    BY <1>1, CreateExpenseKeeps
  <1>2. ASSUME NEW l \in Line, SellGoods(l)
        PROVE  TradeIInv'
    BY <1>2, SellGoodsKeeps
  <1>3. ASSUME NEW s \in Session, AbortDeal(s) \/ WriteStatus(s) \/ DeleteInvoice(s) \/ LoadBalance(s)
        PROVE  TradeIInv'
    BY <1>3, AbortDealKeeps, WriteStatusKeeps, DeleteInvoiceKeeps, LoadBalanceKeeps
  <1>4. ASSUME NEW s \in Session, NEW op \in OrderOps, LoadOrder(s, op)
        PROVE  TradeIInv'
    BY <1>4, LoadOrderKeeps
  <1>5. ASSUME NEW s \in Session, NEW lines \in Ordered, UpdateOrder(s, lines)
        PROVE  TradeIInv'
    BY <1>5, UpdateOrderKeeps
  <1>6. ASSUME NEW s \in Session, NEW d \in Deliveries, NEW method \in {"cash", "credit"},
               ReceiveOrder(s, d, method)
        PROVE  TradeIInv'
    BY <1>6, ReceiveOrderKeeps
  <1>7. ASSUME NEW s \in Session, NEW i \in Doc, NEW op \in DocOps, LoadDoc(s, i, op)
        PROVE  TradeIInv'
    BY <1>7, LoadDocKeeps
  <1>8. ASSUME NEW s \in Session, NEW goods \in Ordered, UpdateInvoice(s, goods, "cash")
        PROVE  TradeIInv'
    BY <1>8, UpdateInvoiceKeeps
  <1>9. ASSUME NEW s \in Session, NEW l \in Line, NEW n \in 1..2, ReturnGoods(s, l, n)
        PROVE  TradeIInv'
    BY <1>9, ReturnGoodsKeeps
  <1>10. ASSUME NEW s \in Session, NEW n \in 1..2, PayDoc(s, n) \/ PaySupplier(s, n)
         PROVE  TradeIInv'
    BY <1>10, PayDocKeeps, PaySupplierKeeps
  <1>11. CASE UNCHANGED tradeVars
    BY <1>11, TradeStutterKeeps
  <1> QED BY <1>1, <1>2, <1>3, <1>4, <1>5, <1>6, <1>7, <1>8, <1>9, <1>10, <1>11
          DEF TradeNext, OrderOps, DocOps

LEMMA TradeInvariance == TradeSpec => []TradeIInv
  BY InitTradeIInv, TradeStepKeeps, PTL DEF TradeSpec

\* A purchase order says what was ordered, what arrived, and whether that is all of it.
THEOREM OrdersAreTrue == TradeSpec => []OrderIsTrue
  <1>1. TradeIInv => OrderIsTrue
    <2> SUFFICES ASSUME TradeIInv
                 PROVE  TradeTypeOK
      BY DEF TradeIInv, OrderIsTrue
    <2>1. order.status \in PurchaseOrderStatus
      BY DEF TradeIInv, TradeTables, Orders
    <2>2. \A s \in Session : counter[s].id \in Doc \cup {ThePO}
      BY DEF TradeIInv, TradeTables, Deals
    <2> QED BY <2>1, <2>2 DEF TradeIInv, TradeTables, DocsHold, TradeTypeOK
  <1> QED BY <1>1, TradeInvariance, PTL

\* The shelf, the invoices, what went back and what is owed are one account.
THEOREM GoodsAndMoneyAlwaysAgree == TradeSpec => []GoodsAndMoneyAgree
  <1>1. TradeIInv => GoodsAndMoneyAgree
    BY DEF TradeIInv, GoodsAndMoneyAgree
  <1> QED BY <1>1, TradeInvariance, PTL
=============================================================================
