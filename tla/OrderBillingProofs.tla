------------------------- MODULE OrderBillingProofs -------------------------
(***************************************************************************)
(* Theorems about the billing of orders and quotations, for any number of  *)
(* papers, invoices, customers and requests.                               *)
(***************************************************************************)
EXTENDS OrderBilling, FiniteSetTheorems, WellFoundedInduction, TLAPS

Verdict == {"approve", "reject", "withdraw", "invoice", "drop", "convert"}

Billed == {"invoiced", "converted"}

Status == {"none"} \cup QuotationStatus \cup CustomerOrderStatus

StatusOf(p) == {"none"} \cup IF p \in Quotation THEN QuotationStatus ELSE CustomerOrderStatus

\* A request is placing an order, or deciding on a paper it loaded.
Placing == [op : {"place"}, at : {"count"}, paper : Paper \ Quotation, bill : {0}]

Deciding ==
    {k \in [op : Verdict, at : {"bill", "write"}, paper : Paper, bill : Bill \cup {0}] :
        /\ (k.paper \in Quotation) = (k.op \in OnQuotations)
        /\ k.bill # 0 <=> k.op \in Billing /\ k.at = "write"
        /\ k.at = "bill" => k.op \in Billing}

Tables ==
    /\ paper \in [Paper -> [status : Status, bill : Bill \cup {0}]]
    /\ \A p \in Paper : paper[p].status \in StatusOf(p)
    /\ bill \in [Bill -> Paper \cup {0, -1}]
    /\ desk \in [Session -> Placing \cup Deciding \cup {NoDesk}]
    /\ contested \subseteq Paper /\ cutShort \subseteq Paper /\ crowded \subseteq Buyer

\* A linked invoice was issued for its paper and is still there.
Links == \A p \in Paper : paper[p].bill # 0 => bill[paper[p].bill] = p

Works(s, p) == desk[s].paper = p /\ desk[s].at \in {"bill", "write"}

\* A request that has a paper to itself finds it as it loaded it.
AsRead ==
    /\ \A p \in Paper, s, t \in Session : s # t /\ Works(s, p) /\ Works(t, p) => p \in contested
    /\ \A p \in Paper, s \in Session :
          Works(s, p) => paper[p].status \in Decisions[desk[s].op].from \/ p \in contested

\* Of an undisturbed paper, all invoices are one; it is the one a request has just
\* issued, or the paper says so and is linked to it.
OneBill ==
    \A p \in Paper : ~Disturbed(p) =>
        /\ \A b, c \in Bill : bill[b] = p /\ bill[c] = p => b = c
        /\ \A s \in Session : Works(s, p) /\ desk[s].bill # 0 =>
              \A b \in Bill : bill[b] = p => b = desk[s].bill
        /\ (\A s \in Session : Works(s, p) => desk[s].bill = 0) =>
              (paper[p].status \in Billed <=> \E b \in Bill : bill[b] = p)
        /\ paper[p].status \in Billed => paper[p].bill # 0

\* Who has counted the orders of a customer found room for one, and so it is still.
Room ==
    \A c \in Buyer \ crowded :
        /\ Cardinality(PendingOf(c)) <= MAX_OPEN_ORDERS
        /\ \A s \in Session : desk[s].at = "count" /\ BuyerFor[desk[s].paper] = c =>
              Cardinality(PendingOf(c)) < MAX_OPEN_ORDERS

IInv == Tables /\ Links /\ AsRead /\ OneBill /\ Room

-----------------------------------------------------------------------------
(* Facts about verdicts, requests and the orders that wait *)

LEMMA Verdicts ==
    /\ DOMAIN Decisions = Verdict
    /\ \A op \in Verdict :
          /\ Decisions[op].from \subseteq {"pending", "confirmed", "draft"}
          /\ Decisions[op].to \in {"confirmed", "cancelled", "invoiced", "converted"}
          /\ op \in Billing <=> Decisions[op].to \in Billed
          /\ op \in OnQuotations => Decisions[op].to \in QuotationStatus
          /\ op \notin OnQuotations => Decisions[op].to \in CustomerOrderStatus
  <1>1. DOMAIN Decisions = Verdict
    BY DEF Decisions, Verdict
  <1>2. /\ Decisions["approve"] = [from |-> {"pending"}, to |-> "confirmed"]
        /\ Decisions["reject"] = [from |-> {"pending", "confirmed"}, to |-> "cancelled"]
        /\ Decisions["withdraw"] = [from |-> {"pending"}, to |-> "cancelled"]
        /\ Decisions["invoice"] = [from |-> {"pending", "confirmed"}, to |-> "invoiced"]
        /\ Decisions["drop"] = [from |-> {"draft"}, to |-> "cancelled"]
        /\ Decisions["convert"] = [from |-> {"draft"}, to |-> "converted"]
    BY DEF Decisions
  <1> QED
    BY <1>1, <1>2 DEF Verdict, Billing, Billed, OnQuotations, QuotationStatus, CustomerOrderStatus

LEMMA Idle == NoDesk.at = "idle" /\ NoDesk.bill = 0 /\ NoDesk.op = "none" /\ NoDesk.paper = 0
  BY DEF NoDesk

LEMMA DeskFields ==
    ASSUME NEW k \in Placing \cup Deciding \cup {NoDesk}
    PROVE  /\ k.at \in {"bill", "write"} <=> k \in Deciding
           /\ k.at = "count" <=> k \in Placing
           /\ k \in Deciding =>
                 /\ k.op \in Verdict /\ k.paper \in Paper /\ k.bill \in Bill \cup {0}
                 /\ (k.paper \in Quotation) = (k.op \in OnQuotations)
                 /\ k.bill # 0 <=> k.op \in Billing /\ k.at = "write"
                 /\ k.at = "bill" => k.op \in Billing
           /\ k \in Placing => k.paper \in Paper \ Quotation
           /\ k \notin Deciding => k.bill = 0
  BY DEF Placing, Deciding, NoDesk

LEMMA PendingFinite ==
    ASSUME NEW c
    PROVE  IsFiniteSet(PendingOf(c)) /\ Cardinality(PendingOf(c)) \in Nat
  BY FS_Subset, FS_CardinalityType, BillingAssumption DEF PendingOf

\* Nothing but a new order adds to those that wait.
LEMMA PendingShrinks ==
    ASSUME NEW c, PendingOf(c)' \subseteq PendingOf(c)
    PROVE  /\ Cardinality(PendingOf(c)') \in Nat
           /\ Cardinality(PendingOf(c)') <= Cardinality(PendingOf(c))
  BY FS_Subset, FS_CardinalityType, PendingFinite

LEMMA PendingGrows ==
    ASSUME NEW c, NEW p, PendingOf(c)' = PendingOf(c) \cup {p}
    PROVE  /\ Cardinality(PendingOf(c)') \in Nat
           /\ Cardinality(PendingOf(c)') <= Cardinality(PendingOf(c)) + 1
  <1>1. IsFiniteSet(PendingOf(c)) /\ Cardinality(PendingOf(c)) \in Nat
    BY PendingFinite
  <1>2. CASE p \in PendingOf(c)
    <2>1. PendingOf(c)' = PendingOf(c)
      BY <1>2
    <2> QED BY <1>1, <2>1
  <1>3. CASE p \notin PendingOf(c)
    <2>1. Cardinality(PendingOf(c) \cup {p}) = Cardinality(PendingOf(c)) + 1
      BY <1>1, <1>3, FS_AddElement
    <2> QED BY <1>1, <2>1
  <1> QED BY <1>2, <1>3

\* The next id of a table is one of a row that is not taken.
LEMMA NextFree ==
    ASSUME NextId(bill, Bill, 0) # 0
    PROVE  NextId(bill, Bill, 0) \in Bill /\ bill[NextId(bill, Bill, 0)] = 0
  <1> DEFINE Free == {i \in Bill : bill[i] = 0}
             Below == {pair \in Nat \X Nat : pair[1] < pair[2]}
  <1>1. Free # {} /\ Free \subseteq Nat
    BY BillingAssumption DEF NextId
  <1>2. IsWellFoundedOn(Below, Nat)
    BY NatLessThanWellFounded DEF OpToRel
  <1>3. \E i \in Free : \A j \in Free : <<j, i>> \notin Below
    <2> HIDE DEF Free, Below
    <2> QED BY <1>1, <1>2, WFMin
  <1>4. \E i \in Bill : bill[i] = 0 /\ \A j \in Bill : j < i => bill[j] # 0
    BY <1>1, <1>3
  <1> QED BY <1>4 DEF NextId

LEMMA InvInit == BillingInit => IInv
  <1> SUFFICES ASSUME BillingInit
               PROVE  IInv
    OBVIOUS
  <1>1. Tables
    <2>1. \A p \in Paper : paper[p] = [status |-> "none", bill |-> 0]
      BY DEF BillingInit
    <2>2. paper \in [Paper -> [status : Status, bill : Bill \cup {0}]]
      BY DEF BillingInit, Status
    <2>3. \A p \in Paper : paper[p].status \in StatusOf(p)
      BY <2>1 DEF StatusOf
    <2> QED BY <2>2, <2>3 DEF BillingInit, Tables
  <1>2. Links /\ AsRead /\ OneBill
    BY BillingAssumption, Idle DEF BillingInit, Links, AsRead, OneBill, Works, Billed
  <1>3. Room
    <2>1. \A c \in Buyer : PendingOf(c) = {}
      BY DEF BillingInit, PendingOf
    <2> QED BY <2>1, FS_EmptySet, BillingAssumption, Idle DEF BillingInit, Room
  <1> QED BY <1>1, <1>2, <1>3 DEF IInv

-----------------------------------------------------------------------------
(* Steps that leave a session's desk alone, or clear it *)

LEMMA QuotationStep ==
    ASSUME IInv, NEW p \in Paper, CreateQuotation(p) \/ Expire(p)
    PROVE  IInv'
  <1> USE DEF IInv
  <1>1. CASE Expire(p)
    BY <1>1 DEF Expire, Tables, Links, AsRead, OneBill, Room, Works, Disturbed, PendingOf, StatusOf
  <1>2. CASE CreateQuotation(p)
    <2>1. /\ p \in Quotation /\ paper[p].status = "none"
          /\ paper' = [paper EXCEPT ![p].status = "draft"]
          /\ UNCHANGED <<bill, expired, desk, contested, cutShort, crowded>>
      BY <1>2 DEF CreateQuotation
    <2>2. /\ paper'[p].status = "draft" /\ \A q \in Paper : paper'[q].bill = paper[q].bill
          /\ \A q \in Paper : q # p => paper'[q] = paper[q]
      BY <2>1 DEF Tables
    <2>3. Tables'
      <3>1. paper' \in [Paper -> [status : Status, bill : Bill \cup {0}]]
        BY <2>1 DEF Tables, Status, QuotationStatus
      <3>2. \A q \in Paper : paper'[q].status \in StatusOf(q)
        BY <2>1, <2>2 DEF Tables, StatusOf, QuotationStatus
      <3> QED BY <2>1, <3>1, <3>2 DEF Tables
    <2>4. Links'
      BY <2>1, <2>2 DEF Links
    <2>5. AsRead'
      <3>1. \A s \in Session : Works(s, p) => p \in contested
        <4> SUFFICES ASSUME NEW s \in Session, Works(s, p)
                     PROVE  p \in contested
          OBVIOUS
        <4>1. desk[s].op \in Verdict
          BY DeskFields DEF Tables, Works
        <4> QED BY <2>1, <4>1, Verdicts DEF AsRead
      <3> QED BY <2>1, <2>2, <3>1 DEF AsRead, Works
    <2>6. OneBill'
      BY <2>1, <2>2 DEF OneBill, Works, Disturbed, Billed
    <2>7. Room'
      <3>1. \A c \in Buyer : PendingOf(c)' \subseteq PendingOf(c)
        BY <2>1, <2>2 DEF PendingOf
      <3> QED BY <2>1, <3>1, PendingShrinks, PendingFinite, BillingAssumption DEF Room
    <2> QED BY <2>3, <2>4, <2>5, <2>6, <2>7
  <1> QED BY <1>1, <1>2

LEMMA DeleteStep ==
    ASSUME IInv, NEW d \in Bill, DeleteBill(d)
    PROVE  IInv'
  <1> USE DEF IInv
  <1>1. /\ bill[d] \in Paper /\ \A p \in Paper : paper[p].bill # d
        /\ bill' = [bill EXCEPT ![d] = -1]
        /\ UNCHANGED <<paper, expired, desk, contested, cutShort, crowded>>
    BY DEF DeleteBill, Unlinked
  <1>2. -1 \notin Paper
    BY BillingAssumption
  <1>3. /\ Tables' /\ Links' /\ AsRead' /\ Room'
    BY <1>1, DeskFields DEF Tables, Links, AsRead, Room, Works, PendingOf
  <1>4. OneBill'
    <2> SUFFICES ASSUME NEW p \in Paper, ~Disturbed(p)
                 PROVE  (/\ \A b, c \in Bill : bill[b] = p /\ bill[c] = p => b = c
                         /\ \A s \in Session : Works(s, p) /\ desk[s].bill # 0 =>
                               \A b \in Bill : bill[b] = p => b = desk[s].bill
                         /\ (\A s \in Session : Works(s, p) => desk[s].bill = 0) =>
                               (paper[p].status \in Billed <=> \E b \in Bill : bill[b] = p)
                         /\ paper[p].status \in Billed => paper[p].bill # 0)'
      BY <1>1 DEF OneBill, Disturbed
    <2>1. \A b \in Bill : bill'[b] = p <=> bill[b] = p /\ b # d
      BY <1>1, <1>2 DEF Tables
    <2>2. /\ \A b, c \in Bill : bill[b] = p /\ bill[c] = p => b = c
          /\ \A s \in Session : Works(s, p) /\ desk[s].bill # 0 =>
                \A b \in Bill : bill[b] = p => b = desk[s].bill
          /\ (\A s \in Session : Works(s, p) => desk[s].bill = 0) =>
                (paper[p].status \in Billed <=> \E b \in Bill : bill[b] = p)
          /\ paper[p].status \in Billed => paper[p].bill # 0
      BY DEF OneBill
    <2>3. paper[p].bill # 0 => paper[p].bill \in Bill \ {d} /\ bill[paper[p].bill] = p
      BY <1>1 DEF Links, Tables
    <2> QED BY <1>1, <2>1, <2>2, <2>3 DEF Works
  <1> QED BY <1>3, <1>4

-----------------------------------------------------------------------------
(* Steps of a session at its desk *)

LEMMA CountStep ==
    ASSUME IInv, NEW s \in Session, NEW p \in Paper, CountOrders(s, p)
    PROVE  IInv'
  <1> USE DEF IInv
  <1>1. /\ desk[s] = NoDesk /\ p \in Paper \ Quotation /\ FewEnough(BuyerFor[p])
        /\ desk' = [desk EXCEPT ![s] =
                      [op |-> "place", at |-> "count", paper |-> p, bill |-> 0]]
        /\ UNCHANGED <<paper, bill, expired, contested, cutShort, crowded>>
    BY DEF CountOrders
  <1>2. /\ desk'[s].at = "count" /\ desk'[s].paper = p /\ desk'[s] \in Placing
        /\ \A t \in Session \ {s} : desk'[t] = desk[t]
    BY <1>1 DEF Tables, Placing
  <1>3. \A t \in Session, q \in Paper :
           /\ Works(t, q)' <=> Works(t, q)
           /\ Works(t, q) => desk'[t] = desk[t]
    BY <1>1, <1>2, Idle DEF Works
  <1>4. Tables'
    BY <1>1, <1>2 DEF Tables
  <1>5. Links' /\ AsRead'
    BY <1>1, <1>3 DEF Links, AsRead
  <1>6. OneBill'
    BY <1>1, <1>3 DEF OneBill, Disturbed
  <1>7. Room'
    <2>1. \A c \in Buyer : PendingOf(c)' = PendingOf(c)
      BY <1>1 DEF PendingOf
    <2> QED BY <1>1, <1>2, <2>1 DEF Room, FewEnough
  <1> QED BY <1>4, <1>5, <1>6, <1>7

LEMMA PlaceStep ==
    ASSUME IInv, NEW s \in Session, PlaceOrder(s)
    PROVE  IInv'
  <1> USE DEF IInv
  <1> DEFINE c == BuyerFor[desk[s].paper]
  <1>1. desk[s].at = "count" /\ desk' = [desk EXCEPT ![s] = NoDesk]
        /\ UNCHANGED <<bill, expired, contested, cutShort>>
        /\ crowded' = IF \E r \in Session \ {s} : desk[r].at = "count"
                      THEN crowded \cup {c} ELSE crowded
    BY DEF PlaceOrder
  <1>2. PICK p \in Paper \ Quotation : /\ BuyerFor[p] = c /\ paper[p].status = "none"
                                       /\ paper' = [paper EXCEPT ![p].status = "pending"]
    BY DEF PlaceOrder
  <1>3. /\ paper'[p].status = "pending" /\ \A q \in Paper : paper'[q].bill = paper[q].bill
        /\ \A q \in Paper : q # p => paper'[q] = paper[q]
    BY <1>2 DEF Tables
  <1>4. /\ desk'[s] = NoDesk /\ \A t \in Session \ {s} : desk'[t] = desk[t]
        /\ \A t \in Session, q \in Paper :
              /\ Works(t, q)' <=> Works(t, q)
              /\ Works(t, q) => desk'[t] = desk[t]
    BY <1>1, Idle DEF Works, Tables
  <1>5. c \in Buyer
    BY <1>2, BillingAssumption
  <1>6. Tables'
    <2>1. paper' \in [Paper -> [status : Status, bill : Bill \cup {0}]]
      BY <1>2 DEF Tables, Status, CustomerOrderStatus
    <2>2. \A q \in Paper : paper'[q].status \in StatusOf(q)
      BY <1>2, <1>3 DEF Tables, StatusOf, CustomerOrderStatus
    <2> QED BY <1>1, <1>4, <1>5, <2>1, <2>2 DEF Tables
  <1>7. Links'
    BY <1>1, <1>3 DEF Links
  <1>8. AsRead'
    <2>1. \A t \in Session : Works(t, p) => p \in contested
      <3> SUFFICES ASSUME NEW t \in Session, Works(t, p)
                   PROVE  p \in contested
        OBVIOUS
      <3>1. desk[t].op \in Verdict
        BY DeskFields DEF Tables, Works
      <3> QED BY <1>2, <3>1, Verdicts DEF AsRead
    <2> QED BY <1>1, <1>3, <1>4, <2>1 DEF AsRead
  <1>9. OneBill'
    BY <1>1, <1>2, <1>3, <1>4 DEF OneBill, Disturbed, Billed
  <1>10. Room'
    <2> SUFFICES ASSUME NEW d \in Buyer, d \notin crowded'
                 PROVE  (/\ Cardinality(PendingOf(d)) <= MAX_OPEN_ORDERS
                         /\ \A t \in Session : desk[t].at = "count" /\ BuyerFor[desk[t].paper] = d =>
                               Cardinality(PendingOf(d)) < MAX_OPEN_ORDERS)'
      BY DEF Room
    <2>1. d \notin crowded
      BY <1>1
    <2>2. ASSUME d # c
          PROVE  PendingOf(d)' = PendingOf(d)
      BY <1>2, <1>3, <2>2 DEF PendingOf
    <2>3. ASSUME d = c
          PROVE  PendingOf(d)' = PendingOf(d) \cup {p}
      BY <1>2, <1>3, <2>3 DEF PendingOf
    <2>4. CASE d # c
      BY <1>4, <2>1, <2>2, <2>4, Idle DEF Room
    <2>5. CASE d = c
      <3>1. \A t \in Session : desk'[t].at # "count"
        BY <1>1, <1>4, <2>5, Idle
      <3>2. Cardinality(PendingOf(d)) < MAX_OPEN_ORDERS
        BY <1>1, <2>1, <2>5 DEF Room
      <3>3. /\ Cardinality(PendingOf(d)') \in Nat
            /\ Cardinality(PendingOf(d)') <= Cardinality(PendingOf(d)) + 1
        BY <2>3, <2>5, PendingGrows
      <3> QED BY <3>1, <3>2, <3>3, PendingFinite, BillingAssumption
    <2> QED BY <2>4, <2>5
  <1> QED BY <1>6, <1>7, <1>8, <1>9, <1>10

LEMMA LoadStep ==
    ASSUME IInv, NEW s \in Session, NEW p \in Paper, NEW op \in Verdict, LoadPaper(s, p, op)
    PROVE  IInv'
  <1> USE DEF IInv
  <1> DEFINE k == [op |-> op, at |-> IF op \in Billing THEN "bill" ELSE "write",
                   paper |-> p, bill |-> 0]
  <1>1. /\ desk[s] = NoDesk /\ paper[p].status \in Decisions[op].from
        /\ (p \in Quotation) = (op \in OnQuotations)
        /\ desk' = [desk EXCEPT ![s] = k]
        /\ contested' = IF OthersHave(s, p) THEN contested \cup {p} ELSE contested
        /\ UNCHANGED <<paper, bill, expired, cutShort, crowded>>
    BY DEF LoadPaper, Allows
  <1>2. /\ k.op = op /\ k.at \in {"bill", "write"} /\ k.paper = p /\ k.bill = 0
        /\ k.at = "bill" <=> op \in Billing
    OBVIOUS
  <1>3. k \in Deciding
    BY <1>1, <1>2 DEF Deciding
  <1> HIDE DEF k
  <1>4. desk'[s] = k /\ \A t \in Session \ {s} : desk'[t] = desk[t]
    BY <1>1 DEF Tables
  <1>5. /\ \A q \in Paper : ~Works(s, q) /\ (Works(s, q)' <=> q = p)
        /\ \A t \in Session \ {s}, q \in Paper : Works(t, q)' <=> Works(t, q)
    BY <1>1, <1>2, <1>4, Idle DEF Works
  <1>6. contested \subseteq contested' /\ contested' \subseteq contested \cup {p}
    BY <1>1
  <1>7. Tables' /\ Links'
    BY <1>1, <1>3, <1>4, <1>6 DEF Tables, Links
  <1>8. AsRead'
    <2>1. \A t \in Session \ {s} : Works(t, p) => p \in contested'
      BY <1>1 DEF Works, OthersHave, Loaded
    <2> QED BY <1>1, <1>2, <1>4, <1>5, <1>6, <2>1 DEF AsRead
  <1>9. OneBill'
    BY <1>1, <1>2, <1>4, <1>5, <1>6 DEF OneBill, Disturbed
  <1>10. Room'
    <2>1. \A c \in Buyer : PendingOf(c)' = PendingOf(c)
      BY <1>1 DEF PendingOf
    <2> QED BY <1>1, <1>2, <1>4, <2>1 DEF Room
  <1> QED BY <1>7, <1>8, <1>9, <1>10

LEMMA IssueStep ==
    ASSUME IInv, NEW s \in Session, IssueInvoice(s)
    PROVE  IInv'
  <1> USE DEF IInv
  <1>0. PICK p, n : p = desk[s].paper /\ n = NextId(bill, Bill, 0)
    OBVIOUS
  <1>1. /\ desk[s].at = "bill" /\ n # 0
        /\ bill' = [bill EXCEPT ![n] = p]
        /\ desk' = [desk EXCEPT ![s].bill = n, ![s].at = "write"]
        /\ UNCHANGED <<paper, expired, contested, cutShort, crowded>>
    BY <1>0 DEF IssueInvoice
  <1>2. n \in Bill /\ bill[n] = 0
    BY <1>0, <1>1, NextFree
  <1>3. /\ desk[s] \in Deciding /\ desk[s].op \in Verdict /\ p \in Paper
        /\ desk[s].op \in Billing /\ desk[s].bill = 0
        /\ (p \in Quotation) = (desk[s].op \in OnQuotations)
    BY <1>0, <1>1, DeskFields DEF Tables
  <1>4. /\ desk'[s] = [op |-> desk[s].op, at |-> "write", paper |-> p, bill |-> n]
        /\ \A t \in Session \ {s} : desk'[t] = desk[t]
    BY <1>0, <1>1, <1>3 DEF Tables, Deciding
  <1>5. \A t \in Session, q \in Paper : Works(t, q)' <=> Works(t, q)
    <2>1. desk'[s].paper = p /\ desk'[s].at = "write"
      BY <1>4
    <2> QED BY <1>0, <1>1, <1>4, <2>1 DEF Works
  <1>6. Works(s, p) /\ \A q \in Paper : Works(s, q) => q = p
    BY <1>0, <1>1, <1>3 DEF Works
  <1>7. /\ bill'[n] = p /\ \A b \in Bill \ {n} : bill'[b] = bill[b]
        /\ 0 \notin Paper
    BY <1>1, <1>2, BillingAssumption DEF Tables
  <1>8. Tables'
    <2>1. n # 0 /\ desk'[s] \in Deciding
      BY <1>1, <1>2, <1>3, <1>4 DEF Deciding
    <2>2. desk' \in [Session -> Placing \cup Deciding \cup {NoDesk}]
      BY <1>1, <2>1 DEF Tables
    <2> QED BY <1>1, <1>2, <1>3, <2>2 DEF Tables
  <1>9. Links'
    BY <1>1, <1>2, <1>7 DEF Links, Tables
  <1>10. AsRead'
    <2>1. \A t \in Session : desk'[t].op = desk[t].op
      BY <1>4
    <2> QED BY <1>1, <1>5, <2>1 DEF AsRead
  <1>11. OneBill'
    <2> SUFFICES ASSUME NEW q \in Paper, ~Disturbed(q)
                 PROVE  (/\ \A b, c \in Bill : bill[b] = q /\ bill[c] = q => b = c
                         /\ \A t \in Session : Works(t, q) /\ desk[t].bill # 0 =>
                               \A b \in Bill : bill[b] = q => b = desk[t].bill
                         /\ (\A t \in Session : Works(t, q) => desk[t].bill = 0) =>
                               (paper[q].status \in Billed <=> \E b \in Bill : bill[b] = q)
                         /\ paper[q].status \in Billed => paper[q].bill # 0)'
      BY <1>1 DEF OneBill, Disturbed
    <2>1. CASE q # p
      <3>1. \A b \in Bill : bill'[b] = q <=> bill[b] = q
        BY <1>2, <1>7, <2>1
      <3>2. \A t \in Session : /\ Works(t, q)' <=> Works(t, q)
                               /\ Works(t, q) => desk'[t].bill = desk[t].bill
        BY <1>4, <1>5, <1>6, <2>1
      <3>3. paper'[q] = paper[q]
        BY <1>1
      <3> QED BY <3>1, <3>2, <3>3 DEF OneBill
    <2>2. CASE q = p
      <3>1. \A t \in Session : Works(t, p) => t = s
        BY <1>3, <1>6, <2>2 DEF AsRead, Disturbed
      <3>2. paper[p].status \notin Billed
        BY <1>3, <1>6, <2>2, Verdicts DEF AsRead, Disturbed, Billed
      <3>3. \A b \in Bill : bill[b] # p
        BY <1>3, <2>2, <3>1, <3>2 DEF OneBill
      <3>4. \A b \in Bill : bill'[b] = p <=> b = n
        BY <1>2, <1>7, <3>3
      <3>5. desk'[s].bill = n /\ Works(s, p)'
        BY <1>3, <1>4, <1>5, <1>6
      <3>6. \A t \in Session : Works(t, p)' => t = s
        BY <1>3, <1>5, <3>1
      <3> QED BY <1>1, <2>2, <3>2, <3>4, <3>5, <3>6
    <2> QED BY <2>1, <2>2
  <1>12. Room'
    <2>1. \A c \in Buyer : PendingOf(c)' = PendingOf(c)
      BY <1>1 DEF PendingOf
    <2>2. \A t \in Session : desk'[t].at = "count" => desk'[t] = desk[t]
      BY <1>4
    <2> QED BY <1>1, <2>1, <2>2 DEF Room
  <1> QED BY <1>8, <1>9, <1>10, <1>11, <1>12

LEMMA WriteStep ==
    ASSUME IInv, NEW s \in Session, WriteDecision(s)
    PROVE  IInv'
  <1> USE DEF IInv
  <1>0. PICK k, p : k = desk[s] /\ p = k.paper
    OBVIOUS
  <1>1. /\ k.at = "write"
        /\ k.op \in Billing => bill[k.bill] = p
        /\ paper' = [paper EXCEPT ![p] =
                       [status |-> Decisions[k.op].to,
                        bill |-> IF k.op \in Billing THEN k.bill ELSE @.bill]]
        /\ desk' = [desk EXCEPT ![s] = NoDesk]
        /\ UNCHANGED <<bill, expired, contested, cutShort, crowded>>
    BY <1>0 DEF WriteDecision
  <1>2. /\ k.op \in Verdict /\ p \in Paper /\ k.bill \in Bill \cup {0}
        /\ (p \in Quotation) = (k.op \in OnQuotations)
        /\ k.bill # 0 <=> k.op \in Billing
    BY <1>0, <1>1, DeskFields DEF Tables
  <1>3. /\ paper'[p].status = Decisions[k.op].to
        /\ paper'[p].bill = IF k.op \in Billing THEN k.bill ELSE paper[p].bill
        /\ \A q \in Paper \ {p} : paper'[q] = paper[q]
    BY <1>1, <1>2 DEF Tables
  <1>4. /\ desk'[s] = NoDesk /\ \A t \in Session \ {s} : desk'[t] = desk[t]
        /\ Works(s, p) /\ \A q \in Paper : Works(s, q) => q = p
    BY <1>0, <1>1, <1>2 DEF Works, Tables
  <1>5. /\ \A q \in Paper : ~Works(s, q)'
        /\ \A t \in Session \ {s}, q \in Paper : Works(t, q)' <=> Works(t, q)
    BY <1>4, Idle DEF Works
  <1>6. Tables'
    <2>1. Decisions[k.op].to \in StatusOf(p) /\ Decisions[k.op].to \in Status
      BY <1>2, Verdicts DEF StatusOf, Status
    <2>2. paper[p].bill \in Bill \cup {0}
      BY <1>2 DEF Tables
    <2>3. paper' \in [Paper -> [status : Status, bill : Bill \cup {0}]]
      BY <1>1, <1>2, <2>1, <2>2 DEF Tables
    <2>4. \A q \in Paper : paper'[q].status \in StatusOf(q)
      BY <1>3, <2>1 DEF Tables
    <2> QED BY <1>1, <2>3, <2>4 DEF Tables
  <1>7. Links'
    BY <1>1, <1>2, <1>3 DEF Links
  <1>8. AsRead'
    <2>1. \A t \in Session \ {s} : Works(t, p) => p \in contested
      BY <1>2, <1>4 DEF AsRead
    <2> QED BY <1>1, <1>3, <1>4, <1>5, <2>1 DEF AsRead
  <1>9. OneBill'
    <2> SUFFICES ASSUME NEW q \in Paper, ~Disturbed(q)
                 PROVE  (/\ \A b, c \in Bill : bill[b] = q /\ bill[c] = q => b = c
                         /\ \A t \in Session : Works(t, q) /\ desk[t].bill # 0 =>
                               \A b \in Bill : bill[b] = q => b = desk[t].bill
                         /\ (\A t \in Session : Works(t, q) => desk[t].bill = 0) =>
                               (paper[q].status \in Billed <=> \E b \in Bill : bill[b] = q)
                         /\ paper[q].status \in Billed => paper[q].bill # 0)'
      BY <1>1 DEF OneBill, Disturbed
    <2>1. CASE q # p
      <3>1. paper'[q] = paper[q]
        BY <1>3, <2>1
      <3>2. \A t \in Session : /\ Works(t, q)' <=> Works(t, q)
                               /\ Works(t, q) => desk'[t] = desk[t]
        BY <1>4, <1>5, <2>1
      <3> QED BY <1>1, <3>1, <3>2 DEF OneBill
    <2>2. CASE q = p
      <3>1. \A t \in Session : Works(t, p) => t = s
        BY <1>2, <1>4, <2>2 DEF AsRead, Disturbed
      <3>2. paper[p].status \notin Billed
        BY <1>0, <1>2, <1>4, <2>2, Verdicts DEF AsRead, Disturbed, Billed
      <3>3. /\ \A b, c \in Bill : bill[b] = p /\ bill[c] = p => b = c
            /\ k.bill # 0 => \A b \in Bill : bill[b] = p => b = k.bill
            /\ k.bill = 0 => \A b \in Bill : bill[b] # p
        BY <1>0, <1>2, <1>4, <2>2, <3>1, <3>2 DEF OneBill
      <3>4. k.op \in Billing => k.bill \in Bill /\ bill[k.bill] = p
        BY <1>1, <1>2
      <3>5. paper'[p].status \in Billed <=> k.op \in Billing
        BY <1>2, <1>3, Verdicts
      <3>6. \A t \in Session : ~Works(t, p)'
        BY <1>2, <1>5, <3>1
      <3> QED BY <1>1, <1>2, <1>3, <2>2, <3>3, <3>4, <3>5, <3>6
    <2> QED BY <2>1, <2>2
  <1>10. Room'
    <2>1. paper'[p].status # "pending"
      BY <1>2, <1>3, Verdicts
    <2>2. \A c \in Buyer : PendingOf(c)' \subseteq PendingOf(c)
      BY <1>3, <2>1 DEF PendingOf
    <2>3. \A t \in Session : desk'[t].at = "count" => desk'[t] = desk[t]
      BY <1>4, Idle
    <2> QED BY <1>1, <2>2, <2>3, PendingShrinks, PendingFinite, BillingAssumption DEF Room
  <1> QED BY <1>6, <1>7, <1>8, <1>9, <1>10

LEMMA AbortStep ==
    ASSUME IInv, NEW s \in Session, AbortDesk(s)
    PROVE  IInv'
  <1> USE DEF IInv
  <1>1. /\ desk[s] # NoDesk /\ desk' = [desk EXCEPT ![s] = NoDesk]
        /\ cutShort' = IF desk[s].bill # 0 THEN cutShort \cup {desk[s].paper} ELSE cutShort
        /\ UNCHANGED <<paper, bill, expired, contested, crowded>>
    BY DEF AbortDesk
  <1>2. /\ desk'[s] = NoDesk /\ \A t \in Session \ {s} : desk'[t] = desk[t]
    BY <1>1 DEF Tables
  <1>3. /\ \A q \in Paper : ~Works(s, q)'
        /\ \A t \in Session \ {s}, q \in Paper : Works(t, q)' <=> Works(t, q)
    BY <1>2, Idle DEF Works
  <1>4. desk[s].bill # 0 => desk[s].paper \in Paper
    BY DeskFields DEF Tables
  <1>5. Tables' /\ Links'
    BY <1>1, <1>4 DEF Tables, Links
  <1>6. AsRead'
    BY <1>1, <1>2, <1>3 DEF AsRead
  <1>7. OneBill'
    <2>1. cutShort \subseteq cutShort'
      BY <1>1
    <2>2. \A q \in Paper : Works(s, q) /\ desk[s].bill # 0 => q \in cutShort'
      BY <1>1 DEF Works
    <2> QED BY <1>1, <1>2, <1>3, <2>1, <2>2 DEF OneBill, Disturbed
  <1>8. Room'
    <2>1. \A c \in Buyer : PendingOf(c)' = PendingOf(c)
      BY <1>1 DEF PendingOf
    <2>2. \A t \in Session : desk'[t].at = "count" => desk'[t] = desk[t]
      BY <1>2, Idle
    <2> QED BY <1>1, <2>1, <2>2 DEF Room
  <1> QED BY <1>5, <1>6, <1>7, <1>8

-----------------------------------------------------------------------------
LEMMA InvStep == IInv /\ [BillingNext]_billingVars => IInv'
  <1> SUFFICES ASSUME IInv, [BillingNext]_billingVars
               PROVE  IInv'
    OBVIOUS
  <1>1. CASE UNCHANGED billingVars
    BY <1>1 DEF billingVars, IInv, Tables, Links, AsRead, OneBill, Room, Works, Disturbed, PendingOf
  <1>2. CASE BillingNext
    <2>1. ASSUME NEW p \in Paper, CreateQuotation(p) \/ Expire(p)
          PROVE  IInv'
      BY <2>1, QuotationStep
    <2>2. ASSUME NEW b \in Bill, DeleteBill(b)
          PROVE  IInv'
      BY <2>2, DeleteStep
    <2>3. ASSUME NEW s \in Session,
                 PlaceOrder(s) \/ IssueInvoice(s) \/ WriteDecision(s) \/ AbortDesk(s)
          PROVE  IInv'
      BY <2>3, PlaceStep, IssueStep, WriteStep, AbortStep
    <2>4. ASSUME NEW s \in Session, NEW p \in Paper, CountOrders(s, p)
          PROVE  IInv'
      BY <2>4, CountStep
    <2>5. ASSUME NEW s \in Session, NEW p \in Paper, NEW op \in Verdict, LoadPaper(s, p, op)
          PROVE  IInv'
      BY <2>5, LoadStep
    <2> QED
      BY <1>2, <2>1, <2>2, <2>3, <2>4, <2>5, Verdicts DEF BillingNext, BillingStep
  <1> QED BY <1>1, <1>2

LEMMA Invariance == BillingSpec => []IInv
  BY InvInit, InvStep, PTL DEF BillingSpec

LEMMA InvBilledOnce == IInv => BilledOnce
  <1> SUFFICES ASSUME IInv
               PROVE  BilledOnce
    OBVIOUS
  <1> USE DEF IInv
  <1>1. BillingTypeOK
    <2>1. \A p \in Paper : paper[p].bill \in {0} \cup BillsOf(p)
      BY DEF Tables, Links, BillsOf
    <2>2. \A s \in Session : desk[s].paper \in Paper \cup {0} /\ desk[s].bill \in Bill \cup {0}
      <3> SUFFICES ASSUME NEW s \in Session
                   PROVE  desk[s].paper \in Paper \cup {0} /\ desk[s].bill \in Bill \cup {0}
        OBVIOUS
      <3>1. desk[s] \in Placing \cup Deciding \cup {NoDesk}
        BY DEF Tables
      <3> QED BY <3>1, DeskFields, Idle
    <2> QED BY <2>1, <2>2 DEF BillingTypeOK, Tables, StatusOf
  <1>2. OneInvoicePerRequest
    <2> SUFFICES ASSUME NEW p \in Paper, ~Disturbed(p)
                 PROVE  Cardinality(BillsOf(p)) <= 1
      BY DEF OneInvoicePerRequest
    <2>1. BillsOf(p) = {} \/ \E b \in Bill : BillsOf(p) = {b}
      BY DEF OneBill, BillsOf
    <2>2. ASSUME BillsOf(p) = {}
          PROVE  Cardinality(BillsOf(p)) <= 1
      <3>1. Cardinality(BillsOf(p)) = 0
        BY <2>2, FS_EmptySet
      <3> QED BY <3>1
    <2>3. ASSUME NEW b \in Bill, BillsOf(p) = {b}
          PROVE  Cardinality(BillsOf(p)) <= 1
      <3>1. Cardinality(BillsOf(p)) = 1
        BY <2>3, FS_Singleton
      <3> QED BY <3>1
    <2> QED BY <2>1, <2>2, <2>3
  <1>3. BilledAsItSays
    <2> SUFFICES ASSUME NEW p \in Paper, ~Disturbed(p),
                        \A s \in Session : ~(Loaded(s, p) /\ desk[s].bill # 0)
                 PROVE  (paper[p].status \in {"invoiced", "converted"}) = (BillsOf(p) # {})
      BY DEF BilledAsItSays
    <2>1. \A s \in Session : Works(s, p) => desk[s].bill = 0
      BY DEF Works, Loaded
    <2>2. paper[p].status \in Billed <=> \E b \in Bill : bill[b] = p
      BY <2>1 DEF OneBill
    <2> QED BY <2>2 DEF BillsOf, Billed
  <1>4. OpenOrdersBounded
    BY DEF Room, OpenOrdersBounded
  <1> QED BY <1>1, <1>2, <1>3, <1>4 DEF BilledOnce

\* For any number of papers, invoices, customers and requests: one request of a
\* customer is billed once and says so (to_invoice, convert_quotation_to_invoice), and
\* no shop has more than MAX_OPEN_ORDERS waiting (place_order), but where two requests
\* meet on the paper or the shop, or one dies between its two commits.
THEOREM AlwaysBilledOnce == BillingSpec => []BilledOnce
  BY Invariance, InvBilledOnce, PTL

-----------------------------------------------------------------------------
\* What a step may do to the papers no two requests met on.
Stands ==
    \A p \in Paper \ contested :
        /\ paper[p].status \in {"invoiced", "converted", "cancelled"} => paper'[p] = paper[p]
        /\ paper[p].status = "confirmed" => paper'[p].status # "pending"

LEMMA StepStands == IInv /\ [BillingNext]_billingVars => Stands
  <1> SUFFICES ASSUME IInv, [BillingNext]_billingVars
               PROVE  Stands
    OBVIOUS
  <1> USE DEF IInv
  <1>1. ASSUME UNCHANGED paper
        PROVE  Stands
    BY <1>1 DEF Stands
  <1>2. ASSUME NEW p \in Paper, CreateQuotation(p)
        PROVE  Stands
    <2>1. /\ paper[p].status = "none" /\ paper' = [paper EXCEPT ![p].status = "draft"]
      BY <1>2 DEF CreateQuotation
    <2> QED BY <2>1 DEF Stands, Tables
  <1>3. ASSUME NEW s \in Session, PlaceOrder(s)
        PROVE  Stands
    <2>1. \E p \in Paper : /\ paper[p].status = "none"
                           /\ paper' = [paper EXCEPT ![p].status = "pending"]
      BY <1>3 DEF PlaceOrder
    <2> QED BY <2>1 DEF Stands, Tables
  <1>4. ASSUME NEW s \in Session, WriteDecision(s)
        PROVE  Stands
    <2>0. PICK p : p = desk[s].paper
      OBVIOUS
    <2>1. /\ desk[s].at = "write"
          /\ \E v : paper' = [paper EXCEPT ![p] = [status |-> Decisions[desk[s].op].to,
                                                   bill |-> v]]
      BY <1>4, <2>0 DEF WriteDecision
    <2>2. desk[s].op \in Verdict /\ p \in Paper
      BY <2>0, <2>1, DeskFields DEF Tables
    <2>3. paper[p].status \in Decisions[desk[s].op].from \/ p \in contested
      BY <2>0, <2>1, <2>2 DEF AsRead, Works
    <2>4. /\ \A q \in Paper : q # p => paper'[q] = paper[q]
          /\ paper'[p].status = Decisions[desk[s].op].to
      BY <2>1, <2>2 DEF Tables
    <2> QED BY <2>2, <2>3, <2>4, Verdicts DEF Stands
  <1>5. \/ UNCHANGED paper
        \/ \E p \in Paper : CreateQuotation(p)
        \/ \E s \in Session : PlaceOrder(s) \/ WriteDecision(s)
    BY DEF BillingNext, BillingStep, billingVars, Expire, DeleteBill, IssueInvoice, AbortDesk,
           CountOrders, LoadPaper
  <1> QED BY <1>1, <1>2, <1>3, <1>4, <1>5

\* An answer given to the customer is not taken back: reject and to_invoice (and the
\* withdrawal, the conversion and the cancellation) write over a paper that is settled
\* only where two requests had loaded it.
THEOREM AnswersAlwaysStand == BillingSpec => AnswerStands
  <1>1. IInv /\ [BillingNext]_billingVars => [Stands]_billingVars
    BY StepStands
  <1> QED BY <1>1, Invariance, PTL DEF BillingSpec, AnswerStands, Stands
=============================================================================
