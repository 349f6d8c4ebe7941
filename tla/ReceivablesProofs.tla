------------------------- MODULE ReceivablesProofs -------------------------
(***************************************************************************)
(* Theorems about the receivables, for any number of sessions, invoices,   *)
(* notes and documents.                                                    *)
(***************************************************************************)
EXTENDS Receivables, SumLemmas

LEMMA DocumentFields ==
    ASSUME NEW d \in Bill
    PROVE  /\ d.method \in Method
           /\ d.lines \in Seq([batch : Batch, n : Nat \ {0}])
           /\ d.price \in Nat \ {0}
           /\ d.subtotal \in Nat /\ d.vat \in Nat /\ d.discount \in Nat
           /\ Total(d) \in Int
  <1>1. d \in Document
    BY DocumentAssumption
  <1> DEFINE L == Seq([batch : Batch, n : Nat \ {0}])
  <1>2. d \in [method : Method, lines : L, price : Nat \ {0},
               subtotal : Nat, vat : Nat, discount : Nat]
    BY <1>1 DEF Document
  <1> HIDE DEF L
  <1>3. /\ d.method \in Method /\ d.lines \in L /\ d.price \in Nat \ {0}
        /\ d.subtotal \in Nat /\ d.vat \in Nat /\ d.discount \in Nat
    BY <1>2
  <1> QED BY <1>3 DEF L, Total

LEMMA ElementOf ==
    ASSUME NEW S, NEW q \in Seq(S), NEW k \in 1..Len(q)
    PROVE  q[k] \in S
  OBVIOUS

LEMMA LineIsLine ==
    ASSUME NEW d \in Bill, NEW k \in 1..Len(d.lines)
    PROVE  d.lines[k].batch \in Batch /\ d.lines[k].n \in Nat \ {0}
  <1> DEFINE S == [batch : Batch, n : Nat \ {0}]
  <1>1. d.lines \in Seq(S)
    BY DocumentFields
  <1> HIDE DEF S
  <1>2. d.lines[k] \in S
    BY <1>1, ElementOf
  <1> QED BY <1>2 DEF S

LEMMA RoundIsInteger ==
    ASSUME NEW a \in Int, NEW b \in Nat \ {0}
    PROVE  RoundHalfUp(a, b) \in Int
  BY DEF RoundHalfUp

LEMMA DiscountIsInteger ==
    ASSUME NEW d \in Bill, NEW prior \in Sums, NEW sub \in Int
    PROVE  DiscountShare(d, prior, sub) \in Int
  <1>1. CASE d.discount = 0 \/ d.subtotal = 0
    BY <1>1 DEF DiscountShare
  <1>2. CASE ~(d.discount = 0 \/ d.subtotal = 0)
    <2>1. /\ d.discount \in Nat /\ d.subtotal \in Nat \ {0}
          /\ prior.sub \in Int /\ prior.discount \in Int
      BY <1>2, DocumentFields DEF Sums
    <2>2. d.discount * (prior.sub + sub) \in Int
      BY <2>1
    <2>3. RoundHalfUp(d.discount * (prior.sub + sub), d.subtotal) \in Int
      BY <2>1, <2>2, RoundIsInteger
    <2> QED BY <1>2, <2>1, <2>3 DEF DiscountShare, Lesser, Greater
  <1> QED BY <1>1, <1>2

LEMMA TaxIsInteger ==
    ASSUME NEW d \in Bill, NEW sub \in Int
    PROVE  TaxShare(d, sub) \in Int
  <1>1. CASE d.vat = 0 \/ d.subtotal = 0
    BY <1>1 DEF TaxShare
  <1>2. CASE ~(d.vat = 0 \/ d.subtotal = 0)
    <2>1. d.vat \in Nat /\ d.subtotal \in Nat \ {0}
      BY <1>2, DocumentFields
    <2>2. sub * d.vat \in Int
      BY <2>1
    <2> QED BY <1>2, <2>1, <2>2, RoundIsInteger DEF TaxShare
  <1> QED BY <1>1, <1>2

LEMMA IdleIsCarried == Idle \in Carried
  <1>1. NoUnits \in [Batch -> Nat] /\ NoUnits \in Units
    BY DEF NoUnits, Units
  <1>2. "idle" \in Place /\ "none" \in CreditState /\ "none" \in Operation \cup {"none"}
    BY DEF Place, CreditState
  <1> QED BY <1>1, <1>2 DEF Idle, Carried

LEMMA InitType == Init => TypeOK
  <1> SUFFICES ASSUME Init PROVE TypeOK
    OBVIOUS
  <1>1. NoUnits \in [Batch -> Nat] /\ NoUnits \in Units
    BY DEF NoUnits, Units
  <1>2. Nothing \in Sums
    BY <1>1 DEF Nothing, Sums
  <1>3. Unwritten \in Written
    BY <1>1 DEF Unwritten, Written
  <1>4. [state |-> "none", amount |-> 0] \in [state : CreditState, amount : Nat]
    BY DEF CreditState
  <1>5. /\ bill \in [Invoice -> Bill \cup {None, Deleted}]
        /\ confirmed \in [Invoice -> BOOLEAN]
    BY DocumentAssumption DEF Init
  <1> QED BY <1>2, <1>3, <1>4, <1>5, IdleIsCarried DEF Init, TypeOK

-----------------------------------------------------------------------------
(* What the helpers of the actions preserve. *)

LEMMA GoesType ==
    ASSUME TypeOK, NEW s \in Session, NEW r \in Carried, Goes(s, r)
    PROVE  req' \in [Session -> Carried]
  BY DEF TypeOK, Goes

LEMMA QuietType ==
    ASSUME TypeOK, NEW s \in Session, NEW r \in Carried, Goes(s, r),
           UNCHANGED <<documents, notes, books, locks>>
    PROVE  TypeOK'
  <1>1. req' \in [Session -> Carried]
    BY GoesType
  <1> QED BY <1>1 DEF TypeOK, documents, notes, books, locks

LEMMA EndType ==
    ASSUME TypeOK, NEW s \in Session, End(s)
    PROVE  /\ held' \in [Invoice -> Session \cup {None}]
           /\ claimed' \in [Note -> Session \cup {None}]
           /\ req' \in [Session -> Carried]
  <1>1. req' \in [Session -> Carried]
    BY IdleIsCarried, GoesType DEF End
  <1> QED BY <1>1 DEF TypeOK, End, Release

LEMMA LoadIsCarried ==
    ASSUME TypeOK, NEW s \in Session, NEW op \in Operation, NEW i \in Invoice
    PROVE  /\ Load(s, op, i) \in Carried
           /\ Load(s, op, i).line = 1 /\ Load(s, op, i).take = NoUnits
           /\ Load(s, op, i).op = op /\ Load(s, op, i).invoice = i
           /\ Load(s, op, i).paid = paid[i]
  <1>1. paid[i] \in Nat /\ confirmed[i] \in BOOLEAN
    BY DEF TypeOK
  <1>2. Load(s, op, i) = [Idle EXCEPT !.op = op, !.invoice = i,
                               !.paid = paid[i], !.confirmed = confirmed[i]]
    BY DEF Load
  <1>3. Load(s, op, i) \in Carried
    BY <1>1, <1>2, IdleIsCarried, ZenonT(40) DEF Carried
  <1> QED BY <1>2, <1>3 DEF Idle

LEMMA AddedType ==
    ASSUME NEW sums \in Sums, NEW n \in Written, NEW sign \in {-1, 1}
    PROVE  Added(sums, n, sign) \in Sums
  <1>1. /\ sums.units \in [Batch -> Int] /\ sums.sub \in Int /\ sums.discount \in Int
        /\ sums.total \in Int
    BY DEF Sums, Units
  <1>2. /\ n.units \in [Batch -> Nat] /\ n.sub \in Int /\ n.discount \in Int
        /\ n.total \in Int
    BY DEF Written
  <1>3. [b \in Batch |-> sums.units[b] + sign * n.units[b]] \in Units
    <2>1. \A b \in Batch : sums.units[b] + sign * n.units[b] \in Int
      BY <1>1, <1>2
    <2> QED BY <2>1 DEF Units
  <1>4. /\ sums.sub + sign * n.sub \in Int /\ sums.discount + sign * n.discount \in Int
        /\ sums.total + sign * n.total \in Int
    BY <1>1, <1>2
  <1> QED BY <1>3, <1>4 DEF Added, Sums

LEMMA AddedUnits ==
    ASSUME NEW sums, NEW n, NEW sign, NEW b \in Batch
    PROVE  Added(sums, n, sign).units[b] = sums.units[b] + sign * n.units[b]
  BY DEF Added

LEMMA NoteTotalType ==
    ASSUME TypeOK, NEW s \in Session, req[s].invoice \in Invoice, Live(req[s].invoice)
    PROVE  NoteTotal(s) \in Int /\ req[s].asked * bill[req[s].invoice].price \in Int
  <1>1. bill[req[s].invoice] \in Bill
    BY DEF Live
  <1>2. req[s].asked \in Nat /\ req[s].sum \in Int
    BY DEF TypeOK, Carried
  <1>3. bill[req[s].invoice].price \in Nat
    BY <1>1, DocumentFields
  <1>4. req[s].asked * bill[req[s].invoice].price \in Int
    BY <1>2, <1>3
  <1>5. TaxShare(bill[req[s].invoice], req[s].asked * bill[req[s].invoice].price) \in Int
    BY <1>1, <1>4, TaxIsInteger
  <1> QED BY <1>2, <1>4, <1>5 DEF NoteTotal

-----------------------------------------------------------------------------
(* The strengthening: what a request may rely on between its steps.  A      *)
(* return holds the row of a live invoice, a cancellation the row of a      *)
(* posted note; without it the columns a step reads need not be there.      *)

Sound(s, r) ==
    /\ r.op \in {"invoice", "update", "collect"} => r.bill \in Bill
    /\ r.op \in {"update", "delete", "return", "collect"} => r.invoice \in Invoice
    /\ r.op \in {"cancel", "resolve", "refund"} => r.note \in Note
    /\ r.op = "return" => Live(r.invoice) /\ held[r.invoice] = s
    /\ r.op = "cancel" => /\ claimed[r.note] = s
                          /\ note[r.note].status = "posted"
                          /\ note[r.note].invoice \in Invoice

Carrying ==
    /\ \A s \in Session : Sound(s, req[s])
    /\ \A n \in Note : note[n].status = "posted" => note[n].invoice \in Invoice

LEMMA IdleIsSound ==
    ASSUME NEW s \in Session
    PROVE  Sound(s, Idle) /\ Sound(s, Idle)'
  BY DEF Sound, Idle

LEMMA InitCarrying == Init => Carrying
  <1> SUFFICES ASSUME Init PROVE Carrying
    OBVIOUS
  <1>1. \A s \in Session : Sound(s, req[s])
    BY IdleIsSound DEF Init
  <1>2. \A n \in Note : note[n].status = "none"
    BY DEF Init, Unwritten
  <1> QED BY <1>1, <1>2 DEF Carrying

\* A step that changes nothing but the request.
LEMMA QuietCarrying ==
    ASSUME TypeOK, Carrying, NEW s \in Session, NEW r \in Carried, Goes(s, r), Sound(s, r),
           UNCHANGED <<documents, notes, books, locks>>
    PROVE  Carrying'
  <1>1. req' = [req EXCEPT ![s] = r] /\ req \in [Session -> Carried]
    BY DEF Goes, TypeOK
  <1>2. bill' = bill /\ held' = held /\ claimed' = claimed /\ note' = note
    BY DEF documents, notes, locks
  <1>3. ASSUME NEW t \in Session PROVE Sound(t, req[t])'
    <2>1. req'[t] = IF t = s THEN r ELSE req[t]
      BY <1>1
    <2>2. Sound(t, req'[t])
      BY <2>1 DEF Carrying
    <2> QED BY <1>2, <2>2 DEF Sound, Live
  <1> QED BY <1>2, <1>3 DEF Carrying

\* A step that ends a request: what others hold, it leaves as it is.
LEMMA EndCarrying ==
    ASSUME TypeOK, Carrying, NEW s \in Session, End(s),
           \A i \in Invoice : Live(i) /\ held[i] \notin {None, s} => Live(i)',
           \A n \in Note : claimed[n] \notin {None, s} =>
               note'[n].status = note[n].status /\ note'[n].invoice = note[n].invoice,
           \A n \in Note : note'[n].status = "posted" => note'[n].invoice \in Invoice
    PROVE  Carrying'
  <1>1. req' = [req EXCEPT ![s] = Idle] /\ req \in [Session -> Carried]
    BY DEF End, Goes, TypeOK
  <1>2. /\ held' = [i \in Invoice |-> IF held[i] = s THEN None ELSE held[i]]
        /\ claimed' = [n \in Note |-> IF claimed[n] = s THEN None ELSE claimed[n]]
    BY DEF End, Release
  <1>3. ASSUME NEW t \in Session PROVE Sound(t, req[t])'
    <2>1. CASE t = s
      <3>1. req'[t] = Idle
        BY <1>1, <2>1
      <3> QED BY <3>1 DEF Sound, Idle
    <2>2. CASE t # s
      <3>1. req'[t] = req[t] /\ Sound(t, req[t]) /\ t # None
        BY <1>1, <2>2, DocumentAssumption DEF Carrying
      <3>2. ASSUME req[t].op = "return"
            PROVE  Live(req[t].invoice)' /\ held'[req[t].invoice] = t
        <4>1. /\ req[t].invoice \in Invoice /\ Live(req[t].invoice)
              /\ held[req[t].invoice] = t
          BY <3>1, <3>2 DEF Sound
        <4>2. held'[req[t].invoice] = t
          BY <1>2, <2>2, <4>1
        <4>3. held[req[t].invoice] \notin {None, s}
          BY <2>2, <3>1, <4>1
        <4>4. Live(req[t].invoice)'
          <5> DEFINE j == req[t].invoice
          <5>1. j \in Invoice /\ Live(j) /\ held[j] \notin {None, s}
            BY <4>1, <4>3
          <5>2. bill'[j] \in Bill
            BY <5>1 DEF Live
          <5>3. req'[t].invoice = j
            BY <3>1
          <5> QED BY <5>2, <5>3 DEF Live
        <4> QED BY <4>2, <4>4
      <3>3. ASSUME req[t].op = "cancel"
            PROVE  /\ claimed'[req[t].note] = t
                   /\ note'[req[t].note].status = "posted"
                   /\ note'[req[t].note].invoice \in Invoice
        <4>1. /\ req[t].note \in Note /\ claimed[req[t].note] = t
              /\ note[req[t].note].status = "posted"
              /\ note[req[t].note].invoice \in Invoice
          BY <3>1, <3>3 DEF Sound
        <4>2. claimed'[req[t].note] = t
          BY <1>2, <2>2, <4>1
        <4> QED BY <2>2, <3>1, <4>1, <4>2
      <3>4. Live(req[t].invoice)' <=> bill'[req[t].invoice] \in Bill
        BY <3>1 DEF Live
      <3> QED BY <3>1, <3>2, <3>3, <3>4 DEF Sound, Live
    <2> QED BY <2>1, <2>2
  <1> QED BY <1>3 DEF Carrying

-----------------------------------------------------------------------------
(* Steps that change only what the session knows. *)

LEMMA QuietSteps ==
    ASSUME TypeOK, Carrying, NEW s \in Session,
           \/ BeginInvoice(s) \/ BeginEdit(s) \/ CountReturns(s)
           \/ ReturnLine(s) \/ PriceReturn(s) \/ WeighReturn(s)
           \/ ReadCredit(s) \/ BeginResolve(s) \/ BeginRefund(s)
           \/ BeginCollect(s) \/ ReadReturned(s) \/ BeginReceipt(s) \/ ReadBalance(s)
    PROVE  \E r \in Carried :
              /\ Goes(s, r) /\ Sound(s, r)
              /\ UNCHANGED <<documents, notes, books, locks>>
  <1>1. req[s] \in Carried /\ Sound(s, req[s])
    BY DEF TypeOK, Carrying
  <1>2. CASE BeginInvoice(s)
    <2>1. PICK d \in Bill :
             Goes(s, [Idle EXCEPT !.op = "invoice", !.bill = d, !.at = AfterPricing(d)])
      BY <1>2 DEF BeginInvoice
    <2> DEFINE r == [Idle EXCEPT !.op = "invoice", !.bill = d, !.at = AfterPricing(d)]
    <2>2. AfterPricing(d) \in Place
      BY DEF AfterPricing, Place
    <2>3. r \in Carried
      BY <2>2, IdleIsCarried DEF Carried, Operation
    <2>4. r.op = "invoice" /\ r.bill = d
      BY DEF Idle
    <2> HIDE DEF r
    <2>5. Sound(s, r)
      BY <2>4 DEF Sound
    <2> QED BY <1>2, <2>1, <2>3, <2>5 DEF BeginInvoice, r
  <1>3. CASE BeginEdit(s)
    <2>1. PICK i \in Invoice :
             \/ \E d \in Bill : Goes(s, [Load(s, "update", i) EXCEPT !.bill = d, !.at = "count"])
             \/ Goes(s, [Load(s, "delete", i) EXCEPT !.at = "count"])
      BY <1>3 DEF BeginEdit
    <2>2. ASSUME NEW d \in Bill,
                 Goes(s, [Load(s, "update", i) EXCEPT !.bill = d, !.at = "count"])
          PROVE  \E r \in Carried : Goes(s, r) /\ Sound(s, r)
      <3> DEFINE r == [Load(s, "update", i) EXCEPT !.bill = d, !.at = "count"]
      <3>1. Load(s, "update", i) \in Carried /\ Load(s, "update", i).op = "update"
            /\ Load(s, "update", i).invoice = i
        BY LoadIsCarried DEF Operation
      <3>2. r \in Carried
        BY <3>1 DEF Carried, Place
      <3>3. r.op = "update" /\ r.invoice = i /\ r.bill = d
        BY <3>1 DEF Carried
      <3> HIDE DEF r
      <3>4. Sound(s, r)
        BY <3>3 DEF Sound
      <3> QED BY <2>2, <3>2, <3>4 DEF r
    <2>3. ASSUME Goes(s, [Load(s, "delete", i) EXCEPT !.at = "count"])
          PROVE  \E r \in Carried : Goes(s, r) /\ Sound(s, r)
      <3> DEFINE r == [Load(s, "delete", i) EXCEPT !.at = "count"]
      <3>1. Load(s, "delete", i) \in Carried /\ Load(s, "delete", i).op = "delete"
            /\ Load(s, "delete", i).invoice = i
        BY LoadIsCarried DEF Operation
      <3>2. r \in Carried
        BY <3>1 DEF Carried, Place
      <3>3. r.op = "delete" /\ r.invoice = i
        BY <3>1 DEF Carried
      <3> HIDE DEF r
      <3>4. Sound(s, r)
        BY <3>3 DEF Sound
      <3> QED BY <2>3, <3>2, <3>4 DEF r
    <2> QED BY <1>3, <2>1, <2>2, <2>3 DEF BeginEdit
  <1>4. CASE CountReturns(s)
    <2> DEFINE r == [req[s] EXCEPT !.at = IF req[s].op = "update" THEN "reset" ELSE "post"]
    <2>1. r \in Carried
      BY <1>1 DEF Carried, Place
    <2>2. r.op = req[s].op /\ r.invoice = req[s].invoice /\ r.bill = req[s].bill
          /\ r.note = req[s].note
      BY <1>1 DEF Carried
    <2>3. Goes(s, r) /\ UNCHANGED <<documents, notes, books, locks>>
      BY <1>4 DEF CountReturns
    <2> HIDE DEF r
    <2>4. Sound(s, r)
      BY <1>1, <2>2, SMTT(30) DEF Sound
    <2> QED BY <2>1, <2>3, <2>4
  <1>5. CASE ReturnLine(s)
    <2>1. req[s].op = "return" /\ req[s].left > 0
          /\ req[s].line <= Len(bill[req[s].invoice].lines)
      BY <1>5 DEF ReturnLine, Doing
    <2>2. req[s].invoice \in Invoice /\ bill[req[s].invoice] \in Bill
      BY <1>1, <2>1 DEF Sound, Live
    <2>3. /\ req[s].left \in Nat /\ req[s].line \in Nat \ {0}
          /\ req[s].seen \in [Batch -> Int] /\ req[s].take \in [Batch -> Nat]
      BY <1>1 DEF Carried, Units
    <2> DEFINE ln == bill[req[s].invoice].lines[req[s].line]
               b == ln.batch
               take == Greater(Lesser(ln.n - req[s].seen[b], req[s].left), 0)
               r == [req[s] EXCEPT !.line = @ + 1, !.left = @ - take,
                                   !.seen[b] = @ + take, !.take[b] = @ + take]
    <2>4. req[s].line \in 1..Len(bill[req[s].invoice].lines)
      <3> DEFINE k == req[s].line
                 l == Len(bill[req[s].invoice].lines)
      <3>1. k \in Nat \ {0} /\ k <= l /\ l \in Nat
        BY <2>1, <2>2, <2>3, DocumentFields
      <3> HIDE DEF k, l
      <3>2. k \in 1..l
        BY <3>1
      <3> QED BY <3>2 DEF k, l
    <2>5. b \in Batch /\ ln.n \in Nat
      BY <2>2, <2>4, LineIsLine
    <2> HIDE DEF ln, b
    <2>6. take \in Nat /\ take <= req[s].left
      BY <2>1, <2>3, <2>5 DEF Greater, Lesser
    <2> HIDE DEF take
    <2>7. /\ req[s].line + 1 \in Nat \ {0} /\ req[s].left - take \in Nat
          /\ [req[s].seen EXCEPT ![b] = @ + take] \in Units
          /\ [req[s].take EXCEPT ![b] = @ + take] \in [Batch -> Nat]
      BY <2>3, <2>5, <2>6 DEF Units
    <2>8. r \in Carried
      BY <1>1, <2>7 DEF Carried
    <2>9. r.op = req[s].op /\ r.invoice = req[s].invoice /\ r.bill = req[s].bill
          /\ r.note = req[s].note
      BY <1>1 DEF Carried
    <2>10. Goes(s, r) /\ UNCHANGED <<documents, notes, books, locks>>
      BY <1>5 DEF ReturnLine, take, ln, b
    <2> HIDE DEF r
    <2>11. Sound(s, r)
      BY <1>1, <2>9 DEF Sound
    <2> QED BY <2>8, <2>10, <2>11
  <1>6. CASE PriceReturn(s)
    <2> DEFINE d == bill[req[s].invoice]
               share == DiscountShare(d, back[req[s].invoice], req[s].asked * d.price)
               r == [req[s] EXCEPT !.at = "weigh", !.sum = share]
    <2>0. share \in Int
      <3>1. req[s].op = "return"
        BY <1>6 DEF PriceReturn, Doing
      <3>2. req[s].invoice \in Invoice /\ Live(req[s].invoice)
        BY <1>1, <3>1 DEF Sound
      <3>3. d \in Bill /\ back[req[s].invoice] \in Sums
        BY <3>2 DEF Live, TypeOK
      <3>4. req[s].asked * d.price \in Int
        BY <3>2, NoteTotalType
      <3> QED BY <3>3, <3>4, DiscountIsInteger
    <2> HIDE DEF share
    <2>1. r \in Carried
      BY <1>1, <2>0 DEF Carried, Place
    <2>2. r.op = req[s].op /\ r.invoice = req[s].invoice /\ r.bill = req[s].bill
          /\ r.note = req[s].note
      BY <1>1 DEF Carried
    <2>3. Goes(s, r) /\ UNCHANGED <<documents, notes, books, locks>>
      BY <1>6 DEF PriceReturn, share, d
    <2> HIDE DEF r
    <2>4. Sound(s, r)
      BY <1>1, <2>2 DEF Sound
    <2> QED BY <2>1, <2>3, <2>4
  <1>7. CASE WeighReturn(s)
    <2> DEFINE i == req[s].invoice
               over == req[s].paid - (Total(bill[i]) - (back[i].total + NoteTotal(s)))
               r == [req[s] EXCEPT !.at = "post", !.over = over]
    <2>0. over \in Int
      <3>1. req[s].op = "return"
        BY <1>7 DEF WeighReturn, Doing
      <3>2. i \in Invoice /\ Live(i)
        BY <1>1, <3>1 DEF Sound
      <3>3. Total(bill[i]) \in Int
        BY <3>2, DocumentFields DEF Live
      <3>4. back[i].total \in Int
        BY <3>2 DEF TypeOK, Sums
      <3>5. NoteTotal(s) \in Int
        BY <3>2, NoteTotalType
      <3>6. req[s].paid \in Nat
        BY <1>1 DEF Carried
      <3> HIDE DEF i
      <3> QED BY <3>3, <3>4, <3>5, <3>6
    <2> HIDE DEF over
    <2>1. r \in Carried
      BY <1>1, <2>0 DEF Carried, Place
    <2>2. r.op = req[s].op /\ r.invoice = req[s].invoice /\ r.bill = req[s].bill
          /\ r.note = req[s].note
      BY <1>1 DEF Carried
    <2>3. Goes(s, r) /\ UNCHANGED <<documents, notes, books, locks>>
      BY <1>7 DEF WeighReturn, over, i
    <2> HIDE DEF r
    <2>4. Sound(s, r)
      BY <1>1, <2>2 DEF Sound
    <2> QED BY <2>1, <2>3, <2>4
  <1>8. CASE ReadCredit(s)
    <2> DEFINE state == credit[req[s].note].state
               r == [req[s] EXCEPT !.at = "post", !.was = state]
    <2>0. state \in CreditState
      <3>1. req[s].note \in Note
        BY <1>1, <1>8 DEF ReadCredit, Doing, Sound
      <3> QED BY <3>1 DEF TypeOK
    <2> HIDE DEF state
    <2>1. r \in Carried
      BY <1>1, <2>0 DEF Carried, Place
    <2>2. r.op = req[s].op /\ r.invoice = req[s].invoice /\ r.bill = req[s].bill
          /\ r.note = req[s].note
      BY <1>1 DEF Carried
    <2>3. Goes(s, r) /\ UNCHANGED <<documents, notes, books, locks>>
      BY <1>8 DEF ReadCredit, state
    <2> HIDE DEF r
    <2>4. Sound(s, r)
      BY <1>1, <2>2 DEF Sound
    <2> QED BY <2>1, <2>3, <2>4
  <1>9. CASE BeginResolve(s)
    <2>1. PICK n \in Note :
             Goes(s, [Idle EXCEPT !.op = "resolve", !.note = n, !.at = "post"])
      BY <1>9 DEF BeginResolve
    <2> DEFINE r == [Idle EXCEPT !.op = "resolve", !.note = n, !.at = "post"]
    <2>2. r \in Carried
      BY IdleIsCarried DEF Carried, Operation, Place
    <2>3. r.op = "resolve" /\ r.note = n
      BY DEF Idle
    <2> HIDE DEF r
    <2>4. Sound(s, r)
      BY <2>3 DEF Sound
    <2> QED BY <1>9, <2>1, <2>2, <2>4 DEF BeginResolve, r
  <1>10. CASE BeginRefund(s)
    <2>1. PICK n \in Note :
             Goes(s, [Idle EXCEPT !.op = "refund", !.note = n, !.at = "post"])
      BY <1>10 DEF BeginRefund
    <2> DEFINE r == [Idle EXCEPT !.op = "refund", !.note = n, !.at = "post"]
    <2>2. r \in Carried
      BY IdleIsCarried DEF Carried, Operation, Place
    <2>3. r.op = "refund" /\ r.note = n
      BY DEF Idle
    <2> HIDE DEF r
    <2>4. Sound(s, r)
      BY <2>3 DEF Sound
    <2> QED BY <1>10, <2>1, <2>2, <2>4 DEF BeginRefund, r
  <1>11. CASE BeginCollect(s)
    <2>1. PICK i \in Invoice :
             /\ Live(i)
             /\ Goes(s, [Load(s, "collect", i) EXCEPT !.bill = bill[i], !.at = "returned"])
      BY <1>11 DEF BeginCollect
    <2> DEFINE r == [Load(s, "collect", i) EXCEPT !.bill = bill[i], !.at = "returned"]
    <2>2. /\ Load(s, "collect", i) \in Carried /\ Load(s, "collect", i).op = "collect"
          /\ Load(s, "collect", i).invoice = i
      BY LoadIsCarried DEF Operation
    <2>3. bill[i] \in Bill
      BY <2>1 DEF Live
    <2>4. r \in Carried
      BY <2>2, <2>3 DEF Carried, Place
    <2>5. r.op = "collect" /\ r.invoice = i /\ r.bill = bill[i]
      BY <2>2 DEF Carried
    <2> HIDE DEF r
    <2>6. Sound(s, r)
      BY <2>3, <2>5 DEF Sound
    <2> QED BY <1>11, <2>1, <2>4, <2>6 DEF BeginCollect, r
  <1>12. CASE ReadReturned(s)
    <2> DEFINE net == Total(req[s].bill) - back[req[s].invoice].total
               r == [req[s] EXCEPT !.at = "post", !.sum = net]
    <2>0. net \in Int
      <3>1. req[s].bill \in Bill /\ req[s].invoice \in Invoice
        BY <1>1, <1>12 DEF ReadReturned, Doing, Sound
      <3>2. Total(req[s].bill) \in Int /\ back[req[s].invoice].total \in Int
        BY <3>1, DocumentFields DEF TypeOK, Sums
      <3> QED BY <3>2
    <2> HIDE DEF net
    <2>1. r \in Carried
      BY <1>1, <2>0 DEF Carried, Place
    <2>2. r.op = req[s].op /\ r.invoice = req[s].invoice /\ r.bill = req[s].bill
          /\ r.note = req[s].note
      BY <1>1 DEF Carried
    <2>3. Goes(s, r) /\ UNCHANGED <<documents, notes, books, locks>>
      BY <1>12 DEF ReadReturned, net
    <2> HIDE DEF r
    <2>4. Sound(s, r)
      BY <1>1, <2>2 DEF Sound
    <2> QED BY <2>1, <2>3, <2>4
  <1>13. CASE BeginReceipt(s)
    <2> DEFINE r == [Idle EXCEPT !.op = "receipt", !.at = "balance"]
    <2>1. r \in Carried
      BY IdleIsCarried DEF Carried, Operation, Place
    <2>2. r.op = "receipt"
      BY DEF Idle
    <2> HIDE DEF r
    <2>3. Sound(s, r)
      BY <2>2 DEF Sound
    <2> QED BY <1>13, <2>1, <2>3 DEF BeginReceipt, r
  <1>14. CASE ReadBalance(s)
    <2> DEFINE k == req[s].term
               r == [req[s] EXCEPT !.term = k + 1, !.at = IF k = 4 THEN "post" ELSE "balance"]
    <2>0. k + 1 \in Nat
      BY <1>1 DEF Carried
    <2>1. r \in Carried
      BY <1>1, <2>0 DEF Carried, Place
    <2>2. r.op = req[s].op /\ r.invoice = req[s].invoice /\ r.bill = req[s].bill
          /\ r.note = req[s].note
      BY <1>1 DEF Carried
    <2>3. Goes(s, r) /\ UNCHANGED <<documents, notes, books, locks>>
      BY <1>14 DEF ReadBalance
    <2> HIDE DEF r
    <2>4. Sound(s, r)
      BY <1>1, <2>2 DEF Sound
    <2> QED BY <2>1, <2>3, <2>4
  <1> QED
    BY <1>2, <1>3, <1>4, <1>5, <1>6, <1>7, <1>8, <1>9, <1>10, <1>11, <1>12, <1>13, <1>14

-----------------------------------------------------------------------------
(* Steps that lock a row or write one. *)

\* A step that takes rows nobody else holds, and changes nothing else.
LEMMA LockCarrying ==
    ASSUME TypeOK, Carrying, NEW s \in Session, NEW r \in Carried, Goes(s, r), Sound(s, r)',
           bill' = bill, note' = note,
           \A i \in Invoice : held[i] \notin {None, s} => held'[i] = held[i],
           \A n \in Note : claimed[n] \notin {None, s} => claimed'[n] = claimed[n]
    PROVE  Carrying'
  <1>1. req' = [req EXCEPT ![s] = r] /\ req \in [Session -> Carried]
    BY DEF Goes, TypeOK
  <1>2. ASSUME NEW t \in Session PROVE Sound(t, req[t])'
    <2>1. CASE t = s
      <3>1. req'[t] = r
        BY <1>1, <2>1
      <3> QED BY <2>1, <3>1 DEF Sound, Live
    <2>2. CASE t # s
      <3>1. req'[t] = req[t] /\ Sound(t, req[t]) /\ t \notin {None, s}
        BY <1>1, <2>2, DocumentAssumption DEF Carrying
      <3>2. req[t].op = "return" => held'[req[t].invoice] = t
        BY <3>1 DEF Sound
      <3>3. req[t].op = "cancel" => claimed'[req[t].note] = t
        BY <3>1 DEF Sound
      <3> QED BY <3>1, <3>2, <3>3 DEF Sound, Live
    <2> QED BY <2>1, <2>2
  <1> QED BY <1>2 DEF Carrying

LEMMA LockSteps ==
    ASSUME TypeOK, Carrying, NEW s \in Session,
           ResetInvoice(s) \/ BeginReturn(s) \/ BeginCancel(s)
    PROVE  TypeOK' /\ Carrying'
  <1>1. req[s] \in Carried /\ Sound(s, req[s])
    BY DEF TypeOK, Carrying
  <1>2. CASE ResetInvoice(s)
    <2> DEFINE x == [req[s] EXCEPT !.at = AfterPricing(req[s].bill)]
    <2>1. Goes(s, x) /\ req[s].op = "update" /\ req[s].invoice \in Invoice
          /\ held' = [held EXCEPT ![req[s].invoice] = s]
          /\ held[req[s].invoice] \in {None, s}
          /\ UNCHANGED <<documents, notes, books, claimed>>
      BY <1>1, <1>2 DEF ResetInvoice, Doing, Writable, Sound
    <2>2. AfterPricing(req[s].bill) \in Place
      BY DEF AfterPricing, Place
    <2>3. x \in Carried
      BY <1>1, <2>2 DEF Carried
    <2>4. x.op = "update" /\ x.invoice = req[s].invoice /\ x.bill = req[s].bill
      BY <1>1, <2>1 DEF Carried
    <2> HIDE DEF x
    <2>5. PICK r \in Carried : r = x
      BY <2>3
    <2>6. Goes(s, r) /\ r.op = "update" /\ r.invoice \in Invoice /\ r.bill \in Bill
      BY <1>1, <2>1, <2>4, <2>5 DEF Sound
    <2>7. Sound(s, r)'
      BY <2>6 DEF Sound
    <2>8. req' \in [Session -> Carried]
      BY <2>6, GoesType
    <2>9. TypeOK'
      BY <2>1, <2>8 DEF TypeOK, documents, notes, books
    <2>10. /\ bill' = bill /\ note' = note /\ claimed' = claimed
           /\ \A i \in Invoice : held[i] \notin {None, s} => held'[i] = held[i]
      BY <2>1 DEF documents, notes, TypeOK
    <2>11. Carrying'
      BY <2>6, <2>7, <2>10, LockCarrying
    <2> QED BY <2>9, <2>11
  <1>3. CASE BeginReturn(s)
    <2>1. PICK i \in Invoice, q \in Nat :
             /\ Live(i) /\ held[i] = None
             /\ held' = [held EXCEPT ![i] = s]
             /\ Goes(s, [Load(s, "return", i) EXCEPT !.at = "lines", !.asked = q, !.left = q,
                                                     !.seen = back[i].units])
      <3>1. PICK i \in Invoice :
               /\ Live(i) /\ held[i] = None
               /\ held' = [held EXCEPT ![i] = s]
               /\ \E q \in 1..bill[i].subtotal \div bill[i].price :
                     Goes(s, [Load(s, "return", i) EXCEPT !.at = "lines", !.asked = q,
                                      !.left = q, !.seen = back[i].units])
        BY <1>3 DEF BeginReturn
      <3> DEFINE most == bill[i].subtotal \div bill[i].price
      <3>2. most \in Int
        BY <3>1, DocumentFields DEF Live
      <3> HIDE DEF most
      <3>3. PICK q \in 1..most :
               Goes(s, [Load(s, "return", i) EXCEPT !.at = "lines", !.asked = q,
                                !.left = q, !.seen = back[i].units])
        BY <3>1 DEF most
      <3>4. q \in Nat
        BY <3>2
      <3> QED BY <3>1, <3>3, <3>4
    <2> DEFINE x == [Load(s, "return", i) EXCEPT !.at = "lines", !.asked = q, !.left = q,
                                                 !.seen = back[i].units]
    <2>2. Load(s, "return", i) \in Carried /\ Load(s, "return", i).op = "return"
          /\ Load(s, "return", i).invoice = i
      BY LoadIsCarried DEF Operation
    <2>3. q \in Nat /\ back[i].units \in Units
      BY DEF TypeOK, Sums
    <2>4. x \in Carried
      BY <2>2, <2>3 DEF Carried, Place
    <2>5. x.op = "return" /\ x.invoice = i
      BY <2>2 DEF Carried
    <2> HIDE DEF x
    <2>6. PICK r \in Carried : r = x
      BY <2>4
    <2>7. Goes(s, r) /\ r.op = "return" /\ r.invoice = i
      BY <2>1, <2>5, <2>6 DEF x
    <2>8. UNCHANGED <<documents, notes, books, claimed>>
      BY <1>3 DEF BeginReturn
    <2>9. /\ bill' = bill /\ note' = note /\ claimed' = claimed
          /\ \A j \in Invoice : held[j] \notin {None, s} => held'[j] = held[j]
          /\ held'[i] = s
      BY <2>1, <2>8 DEF documents, notes, TypeOK
    <2>10. Sound(s, r)'
      BY <2>1, <2>7, <2>9 DEF Sound, Live
    <2>11. req' \in [Session -> Carried]
      BY <2>7, GoesType
    <2>12. TypeOK'
      BY <2>1, <2>8, <2>11 DEF TypeOK, documents, notes, books
    <2>13. Carrying'
      BY <2>7, <2>9, <2>10, LockCarrying
    <2> QED BY <2>12, <2>13
  <1>4. CASE BeginCancel(s)
    <2>1. PICK n \in Note :
             /\ claimed[n] = None /\ note[n].status = "posted"
             /\ claimed' = [claimed EXCEPT ![n] = s]
             /\ Goes(s, [Idle EXCEPT !.op = "cancel", !.note = n, !.at = "credit"])
      BY <1>4 DEF BeginCancel
    <2> DEFINE r == [Idle EXCEPT !.op = "cancel", !.note = n, !.at = "credit"]
    <2>2. r \in Carried
      BY IdleIsCarried DEF Carried, Operation, Place
    <2>3. r.op = "cancel" /\ r.note = n
      BY DEF Idle
    <2>4. Goes(s, r)
      BY <2>1
    <2> HIDE DEF r
    <2>5. UNCHANGED <<documents, notes, books, held>>
      BY <1>4 DEF BeginCancel
    <2>6. /\ bill' = bill /\ note' = note /\ held' = held
          /\ \A m \in Note : claimed[m] \notin {None, s} => claimed'[m] = claimed[m]
          /\ claimed'[n] = s
      BY <2>1, <2>5 DEF documents, notes, TypeOK
    <2>7. note[n].invoice \in Invoice
      BY <2>1 DEF Carrying
    <2>8. Sound(s, r)'
      BY <2>1, <2>3, <2>6, <2>7 DEF Sound
    <2>9. req' \in [Session -> Carried]
      BY <2>2, <2>4, GoesType
    <2>10. TypeOK'
      BY <2>1, <2>5, <2>9 DEF TypeOK, documents, notes, books
    <2>11. Carrying'
      BY <2>2, <2>4, <2>6, <2>8, LockCarrying
    <2> QED BY <2>10, <2>11
  <1> QED BY <1>2, <1>3, <1>4

LEMMA InvoiceSteps ==
    ASSUME TypeOK, Carrying, NEW s \in Session,
           PostInvoice(s) \/ RepostInvoice(s) \/ DeleteInvoice(s)
    PROVE  TypeOK' /\ Carrying'
  <1>1. req[s] \in Carried /\ Sound(s, req[s])
    BY DEF TypeOK, Carrying
  <1>2. End(s) /\ UNCHANGED <<back, notes, books>>
    BY DEF PostInvoice, RepostInvoice, DeleteInvoice
  <1>3. /\ bill' \in [Invoice -> Bill \cup {None, Deleted}]
        /\ paid' \in [Invoice -> Nat]
        /\ confirmed' \in [Invoice -> BOOLEAN]
        /\ \A i \in Invoice : Live(i) /\ held[i] \notin {None, s} => bill'[i] \in Bill
    <2>1. CASE PostInvoice(s)
      <3>1. req[s].bill \in Bill /\ UNCHANGED paid
        BY <1>1, <2>1 DEF PostInvoice, Doing, Sound
      <3>2. PICK i \in Invoice :
               /\ bill' = [bill EXCEPT ![i] = req[s].bill]
               /\ confirmed' = [confirmed EXCEPT ![i] = req[s].bill.method = "credit"]
        BY <2>1 DEF PostInvoice
      <3> QED BY <3>1, <3>2 DEF TypeOK, Live
    <2>2. CASE RepostInvoice(s)
      <3> DEFINE i == req[s].invoice
                 yes == req[s].bill.method = "credit" \/ (confirmed[i] /\ ~req[s].confirmed)
      <3>1. req[s].bill \in Bill /\ i \in Invoice
        BY <1>1, <2>2 DEF RepostInvoice, Doing, Sound
      <3>2. /\ bill' = [bill EXCEPT ![i] = req[s].bill]
            /\ paid' = [paid EXCEPT ![i] = IF req[s].paid = 0 THEN @ ELSE 0]
            /\ confirmed' = [confirmed EXCEPT ![i] = yes]
        BY <2>2, <3>1 DEF RepostInvoice, TypeOK
      <3>3. yes \in BOOLEAN
        OBVIOUS
      <3> HIDE DEF i, yes
      <3> QED BY <3>1, <3>2, <3>3 DEF TypeOK, Live
    <2>3. CASE DeleteInvoice(s)
      <3> DEFINE i == req[s].invoice
      <3>1. i \in Invoice /\ held[i] \in {None, s}
        BY <1>1, <2>3 DEF DeleteInvoice, Doing, Sound, Writable
      <3>2. /\ bill' = [bill EXCEPT ![i] = Deleted]
            /\ paid' = [paid EXCEPT ![i] = 0]
            /\ confirmed' = [confirmed EXCEPT ![i] = FALSE]
        BY <2>3 DEF DeleteInvoice
      <3> HIDE DEF i
      <3> QED BY <3>1, <3>2 DEF TypeOK, Live
    <2> QED BY <2>1, <2>2, <2>3
  <1>4. TypeOK'
    BY <1>2, <1>3, EndType DEF TypeOK, notes, books
  <1>5. Carrying'
    <2>1. \A i \in Invoice : Live(i) /\ held[i] \notin {None, s} => Live(i)'
      BY <1>3 DEF Live
    <2>2. note' = note
      BY <1>2 DEF notes
    <2>3. \A n \in Note : note'[n].status = "posted" => note'[n].invoice \in Invoice
      BY <2>2 DEF Carrying
    <2> QED BY <1>2, <2>1, <2>2, <2>3, EndCarrying
  <1> QED BY <1>4, <1>5

LEMMA PostReturnStep ==
    ASSUME TypeOK, Carrying, NEW s \in Session, PostReturn(s)
    PROVE  TypeOK' /\ Carrying'
  <1> DEFINE i == req[s].invoice
             x == [invoice |-> i, status |-> "posted", units |-> req[s].take,
                   sub |-> req[s].asked * bill[i].price,
                   discount |-> req[s].sum, total |-> NoteTotal(s)]
  <1>1. req[s] \in Carried /\ Sound(s, req[s])
    BY DEF TypeOK, Carrying
  <1>2. req[s].op = "return" /\ i \in Invoice /\ Live(i)
    BY <1>1 DEF PostReturn, Doing, Sound
  <1>3. x \in Written
    <2>1. NoteTotal(s) \in Int /\ req[s].asked * bill[i].price \in Int
      BY <1>2, NoteTotalType
    <2>2. req[s].take \in [Batch -> Nat] /\ req[s].sum \in Int
      BY <1>1 DEF Carried
    <2> QED BY <1>2, <2>1, <2>2 DEF Written
  <1>4. x.status = "posted" /\ x.invoice = i /\ x.total \in Int
    BY <1>3 DEF Written
  <1>5. PICK n \in Note :
           /\ note[n].status = "none"
           /\ note' = [note EXCEPT ![n] = x]
           /\ back' = [back EXCEPT ![i] = Added(@, x, 1)]
           /\ entered' = [entered EXCEPT ![n] = @ + x.total]
           /\ credit' = IF req[s].over > 0
                        THEN [credit EXCEPT ![n] = [state |-> "pending", amount |-> req[s].over]]
                        ELSE credit
    BY DEF PostReturn, IsNext
  <1>6. End(s) /\ UNCHANGED <<bill, paid, confirmed, received, taken, paidOut>>
    BY DEF PostReturn
  <1> HIDE DEF x
  <1>7. back' \in [Invoice -> Sums]
    <2>1. back[i] \in Sums
      BY <1>2 DEF TypeOK
    <2>2. Added(back[i], x, 1) \in Sums
      BY <1>3, <2>1, AddedType
    <2> QED BY <1>2, <1>5, <2>2 DEF TypeOK
  <1>8. credit' \in [Note -> [state : CreditState, amount : Nat]]
    <2>1. req[s].over \in Int
      BY <1>1 DEF Carried
    <2>2. req[s].over > 0 =>
             [state |-> "pending", amount |-> req[s].over] \in [state : CreditState, amount : Nat]
      BY <2>1 DEF CreditState
    <2> QED BY <1>5, <2>2 DEF TypeOK
  <1>9. /\ note' \in [Note -> Written]
        /\ entered' \in [Note -> Int]
    BY <1>3, <1>4, <1>5 DEF TypeOK
  <1>10. TypeOK'
    BY <1>6, <1>7, <1>8, <1>9, EndType DEF TypeOK
  <1>11. Carrying'
    <2>1. \A j \in Invoice : Live(j) /\ held[j] \notin {None, s} => Live(j)'
      BY <1>6 DEF Live
    <2>2. \A m \in Note : m # n => note'[m] = note[m]
      BY <1>5 DEF TypeOK
    <2>3. note'[n] = x
      BY <1>5 DEF TypeOK
    <2>4. \A m \in Note : note'[m].status = "posted" => note'[m].invoice \in Invoice
      BY <1>2, <1>4, <2>2, <2>3 DEF Carrying
    <2>5. ASSUME NEW t \in Session, t # s PROVE Sound(t, req[t])'
      <3>1. req'[t] = req[t] /\ Sound(t, req[t]) /\ t # None
        BY <1>6, <2>5, DocumentAssumption DEF End, Goes, TypeOK, Carrying
      <3>2. req[t].op = "return" => held'[req[t].invoice] = t
        BY <1>6, <2>5, <3>1 DEF Sound, End, Release
      <3>3. req[t].op = "cancel" => claimed'[req[t].note] = t /\ req[t].note # n
        BY <1>5, <1>6, <2>5, <3>1 DEF Sound, End, Release
      <3> QED BY <1>6, <2>2, <3>1, <3>2, <3>3 DEF Sound, Live
    <2>6. req'[s] = Idle
      BY <1>6 DEF End, Goes, TypeOK
    <2>7. Sound(s, req[s])'
      BY <2>6, IdleIsSound DEF Sound, Idle
    <2> QED BY <2>4, <2>5, <2>7 DEF Carrying
  <1> QED BY <1>10, <1>11

LEMMA CancelNoteStep ==
    ASSUME TypeOK, Carrying, NEW s \in Session, CancelNote(s)
    PROVE  TypeOK' /\ Carrying'
  <1> DEFINE n == req[s].note
             i == note[n].invoice
  <1>1. req[s] \in Carried /\ Sound(s, req[s])
    BY DEF TypeOK, Carrying
  <1>2. n \in Note /\ claimed[n] = s /\ note[n].status = "posted" /\ i \in Invoice
    BY <1>1 DEF CancelNote, Doing, Sound
  <1>3. /\ note' = [note EXCEPT ![n].status = "cancelled"]
        /\ back' = [back EXCEPT ![i] = Added(@, note[n], -1)]
        /\ entered' = [entered EXCEPT ![n] = @ - note[n].total]
        /\ credit' = [credit EXCEPT ![n].state =
                         IF req[s].was = "none" THEN @ ELSE "deleted"]
        /\ End(s)
        /\ UNCHANGED <<bill, paid, confirmed, received, taken, paidOut>>
    BY DEF CancelNote
  <1>4. note[n] \in Written /\ note[n].total \in Int
    BY <1>2 DEF TypeOK, Written
  <1> HIDE DEF n
  <1>5. note' \in [Note -> Written]
    BY <1>2, <1>3, <1>4 DEF TypeOK, Written
  <1>6. back' \in [Invoice -> Sums]
    <2>1. back[i] \in Sums
      BY <1>2 DEF TypeOK
    <2>2. Added(back[i], note[n], -1) \in Sums
      BY <1>4, <2>1, AddedType
    <2> QED BY <1>2, <1>3, <2>2 DEF TypeOK
  <1>7. entered' \in [Note -> Int]
    BY <1>2, <1>3, <1>4 DEF TypeOK
  <1>8. credit' \in [Note -> [state : CreditState, amount : Nat]]
    BY <1>2, <1>3 DEF TypeOK, CreditState
  <1>9. TypeOK'
    BY <1>3, <1>5, <1>6, <1>7, <1>8, EndType DEF TypeOK
  <1>10. Carrying'
    <2>1. \A j \in Invoice : Live(j) /\ held[j] \notin {None, s} => Live(j)'
      BY <1>3 DEF Live
    <2>2. \A m \in Note : m # n => note'[m] = note[m]
      BY <1>2, <1>3 DEF TypeOK
    <2>3. note'[n].status = "cancelled"
      BY <1>2, <1>3, <1>4 DEF TypeOK, Written
    <2>4. \A m \in Note : claimed[m] \notin {None, s} =>
             note'[m].status = note[m].status /\ note'[m].invoice = note[m].invoice
      BY <1>2, <2>2
    <2>5. \A m \in Note : note'[m].status = "posted" => note'[m].invoice \in Invoice
      BY <2>2, <2>3 DEF Carrying
    <2> QED BY <1>3, <2>1, <2>4, <2>5, EndCarrying
  <1> QED BY <1>9, <1>10

LEMMA MoneySteps ==
    ASSUME TypeOK, Carrying, NEW s \in Session,
           ResolveCredit(s) \/ RefundCredit(s) \/ CollectPayment(s) \/ CreatePayment(s) \/ Abort(s)
    PROVE  TypeOK' /\ Carrying'
  <1>1. req[s] \in Carried /\ Sound(s, req[s])
    BY DEF TypeOK, Carrying
  <1>2. End(s) /\ UNCHANGED <<bill, back, note, entered>>
    BY DEF ResolveCredit, RefundCredit, CollectPayment, CreatePayment, Abort,
           documents, notes, books
  <1>3. /\ paid' \in [Invoice -> Nat] /\ taken' \in [Invoice -> Nat]
        /\ confirmed' \in [Invoice -> BOOLEAN]
        /\ credit' \in [Note -> [state : CreditState, amount : Nat]]
        /\ paidOut' \in [Note -> Nat] /\ received' \in Nat
    <2>1. CASE ResolveCredit(s)
      <3>1. PICK r \in {"awaiting_refund", "credited"} :
               credit' = [credit EXCEPT ![req[s].note].state = r]
        BY <2>1 DEF ResolveCredit
      <3>2. UNCHANGED <<documents, books>>
        BY <2>1 DEF ResolveCredit
      <3> QED BY <3>1, <3>2 DEF TypeOK, CreditState, documents, books
    <2>2. CASE RefundCredit(s)
      <3> DEFINE n == req[s].note
      <3>1. n \in Note
        BY <1>1, <2>2 DEF RefundCredit, Doing, Sound
      <3>2. /\ credit' = [credit EXCEPT ![n].state = "refunded"]
            /\ paidOut' = [paidOut EXCEPT ![n] = @ + credit[n].amount]
            /\ UNCHANGED <<documents, received, taken>>
        BY <2>2 DEF RefundCredit
      <3> HIDE DEF n
      <3> QED BY <3>1, <3>2 DEF TypeOK, CreditState, documents
    <2>3. CASE CollectPayment(s)
      <3> DEFINE i == req[s].invoice
      <3>1. i \in Invoice /\ req[s].paid \in Nat
        BY <1>1, <2>3 DEF CollectPayment, Doing, Sound, Carried
      <3>2. PICK amount \in Amount :
               /\ paid' = [paid EXCEPT ![i] = req[s].paid + amount]
               /\ confirmed' = [confirmed EXCEPT ![i] = @ \/ req[s].paid + amount >= req[s].sum]
               /\ taken' = [taken EXCEPT ![i] = @ + amount]
        BY <2>3 DEF CollectPayment
      <3>3. UNCHANGED <<credit, paidOut, received>>
        BY <2>3 DEF CollectPayment, notes
      <3>4. amount \in Nat
        BY DocumentAssumption
      <3> HIDE DEF i
      <3>5. (confirmed[i] \/ req[s].paid + amount >= req[s].sum) \in BOOLEAN
        OBVIOUS
      <3>6. confirmed' \in [Invoice -> BOOLEAN]
        BY <3>1, <3>2, <3>5 DEF TypeOK
      <3> QED BY <3>1, <3>2, <3>3, <3>4, <3>6 DEF TypeOK
    <2>4. CASE CreatePayment(s)
      <3>1. PICK amount \in Amount : received' = received + amount
        BY <2>4 DEF CreatePayment
      <3>2. UNCHANGED <<documents, notes, taken, paidOut>>
        BY <2>4 DEF CreatePayment
      <3> QED BY <3>1, <3>2, DocumentAssumption DEF TypeOK, documents, notes
    <2>5. CASE Abort(s)
      BY <2>5 DEF Abort, TypeOK, documents, notes, books
    <2> QED BY <2>1, <2>2, <2>3, <2>4, <2>5
  <1>4. TypeOK'
    BY <1>2, <1>3, EndType DEF TypeOK
  <1>5. Carrying'
    <2>1. \A i \in Invoice : Live(i) /\ held[i] \notin {None, s} => Live(i)'
      BY <1>2 DEF Live
    <2>2. \A n \in Note : note'[n].status = "posted" => note'[n].invoice \in Invoice
      BY <1>2 DEF Carrying
    <2> QED BY <1>2, <2>1, <2>2, EndCarrying
  <1> QED BY <1>4, <1>5

LEMMA StepCarrying ==
    ASSUME TypeOK, Carrying, NEW s \in Session, Step(s)
    PROVE  TypeOK' /\ Carrying'
  <1>1. CASE \/ BeginInvoice(s) \/ BeginEdit(s) \/ CountReturns(s)
             \/ ReturnLine(s) \/ PriceReturn(s) \/ WeighReturn(s)
             \/ ReadCredit(s) \/ BeginResolve(s) \/ BeginRefund(s)
             \/ BeginCollect(s) \/ ReadReturned(s) \/ BeginReceipt(s) \/ ReadBalance(s)
    <2>1. PICK r \in Carried :
             /\ Goes(s, r) /\ Sound(s, r)
             /\ UNCHANGED <<documents, notes, books, locks>>
      BY <1>1, QuietSteps
    <2> QED BY <2>1, QuietType, QuietCarrying
  <1>2. CASE ResetInvoice(s) \/ BeginReturn(s) \/ BeginCancel(s)
    BY <1>2, LockSteps
  <1>3. CASE PostInvoice(s) \/ RepostInvoice(s) \/ DeleteInvoice(s)
    BY <1>3, InvoiceSteps
  <1>4. CASE PostReturn(s)
    BY <1>4, PostReturnStep
  <1>5. CASE CancelNote(s)
    BY <1>5, CancelNoteStep
  <1>6. CASE ResolveCredit(s) \/ RefundCredit(s) \/ CollectPayment(s)
             \/ CreatePayment(s) \/ Abort(s)
    BY <1>6, MoneySteps
  <1> QED BY <1>1, <1>2, <1>3, <1>4, <1>5, <1>6 DEF Step

LEMMA NextCarrying == TypeOK /\ Carrying /\ [Next]_vars => TypeOK' /\ Carrying'
  <1> SUFFICES ASSUME TypeOK, Carrying, [Next]_vars PROVE TypeOK' /\ Carrying'
    OBVIOUS
  <1>1. CASE Next
    BY <1>1, StepCarrying DEF Next
  <1>2. CASE UNCHANGED vars
    BY <1>2 DEF vars, documents, notes, books, locks, TypeOK, Carrying, Sound, Live
  <1> QED BY <1>1, <1>2

\* Every variable of the receivables keeps its type: no payment, refund or
\* credit is ever negative, and no document, note or credit leaves its states.
THEOREM MoneyTypeCorrect == Spec => []TypeOK
  <1>1. Init => TypeOK /\ Carrying
    BY InitType, InitCarrying
  <1>2. TypeOK /\ Carrying /\ [Next]_vars => (TypeOK /\ Carrying)'
    BY NextCarrying
  <1> QED BY <1>1, <1>2, PTL DEF Spec

-----------------------------------------------------------------------------
(* No more comes back than was sold, as long as no invoice is edited.  An   *)
(* edit that has counted the returns may replace the lines under a return   *)
(* posted since, which the runs show; a deletion may not, for the rows that *)
(* refer to the invoice stop it.                                            *)

NoEdits == \A s \in Session : "update" \notin Duties[s]

Assigned == \A s \in Session : req[s].op \in Duties[s] \cup {"none"}

\* What a return in progress has counted is what has come back and what it is
\* about to take, and stays within a line of each batch it takes from.
Counted(r) ==
    r.op = "return" =>
        \A b \in Batch :
            /\ back[r.invoice].units[b] + r.take[b] <= r.seen[b]
            /\ r.take[b] > 0 =>
                 \E k \in DOMAIN bill[r.invoice].lines :
                     /\ bill[r.invoice].lines[k].batch = b
                     /\ r.seen[b] <= bill[r.invoice].lines[k].n

\* Nothing has come back of an invoice no note refers to.
Referred ==
    /\ \A n \in Note : note[n].status = "none" => note[n].invoice = None
    /\ \A i \in Invoice : (\A n \in Note : note[n].invoice # i) => back[i].units = NoUnits

Within ==
    /\ Assigned
    /\ \A s \in Session : Counted(req[s])
    /\ Referred
    /\ ReturnedWithinSold

LEMMA InitWithin == Init => Within
  <1> SUFFICES ASSUME Init PROVE Within
    OBVIOUS
  <1>1. \A s \in Session : req[s].op = "none"
    BY DEF Init, Idle
  <1>2. \A n \in Note : note[n].status = "none" /\ note[n].invoice = None
    BY DEF Init, Unwritten
  <1>3. \A i \in Invoice : back[i].units = NoUnits
    BY DEF Init, Nothing
  <1>4. \A i \in Invoice, b \in Batch : back[i].units[b] = 0
    BY <1>3 DEF NoUnits
  <1> QED BY <1>1, <1>2, <1>3, <1>4 DEF Within, Assigned, Counted, Referred, ReturnedWithinSold

\* A step is its session's own: the others' requests stay as they are.
LEMMA OthersStay ==
    ASSUME TypeOK, NEW s \in Session, Step(s)
    PROVE  \A t \in Session : t # s => req'[t] = req[t]
  <1>1. \E r : req' = [req EXCEPT ![s] = r]
    BY DEF Step, Goes, End, ReadBalance, BeginInvoice, PostInvoice, BeginEdit, CountReturns,
           ResetInvoice, RepostInvoice, DeleteInvoice, BeginReturn, ReturnLine, PriceReturn,
           WeighReturn, PostReturn, BeginCancel, ReadCredit, CancelNote, BeginResolve,
           ResolveCredit, BeginRefund, RefundCredit, BeginCollect, ReadReturned,
           CollectPayment, BeginReceipt, CreatePayment, Abort
  <1> QED BY <1>1, SMTT(30) DEF TypeOK

\* What a step leaves of its request: nothing, a request of another kind, or
\* the same as far as a return is concerned.  Two steps of a return do more.
LEMMA RequestSteps ==
    ASSUME TypeOK, Assigned, NEW s \in Session, Step(s), ~BeginReturn(s), ~ReturnLine(s)
    PROVE  \/ req'[s].op \in (Duties[s] \cup {"none"}) \ {"return"}
           \/ /\ req'[s].op = req[s].op /\ req'[s].invoice = req[s].invoice
              /\ req'[s].seen = req[s].seen /\ req'[s].take = req[s].take
  <1>1. req[s] \in Carried /\ req \in [Session -> Carried]
    BY DEF TypeOK
  <1>2. CASE \/ PostInvoice(s) \/ RepostInvoice(s) \/ DeleteInvoice(s) \/ PostReturn(s)
             \/ CancelNote(s) \/ ResolveCredit(s) \/ RefundCredit(s) \/ CollectPayment(s)
             \/ CreatePayment(s) \/ Abort(s)
    <2>1. End(s)
      BY <1>2 DEF PostInvoice, RepostInvoice, DeleteInvoice, PostReturn, CancelNote,
                  ResolveCredit, RefundCredit, CollectPayment, CreatePayment, Abort
    <2>2. req'[s] = Idle
      BY <1>1, <2>1 DEF End, Goes
    <2> QED BY <2>2, SMTT(30) DEF Idle
  <1>3. CASE CountReturns(s) \/ ResetInvoice(s) \/ PriceReturn(s) \/ WeighReturn(s)
             \/ ReadCredit(s) \/ ReadReturned(s) \/ ReadBalance(s)
    <2>1. CASE CountReturns(s)
      BY <1>1, <2>1 DEF CountReturns, Goes, Carried
    <2>2. CASE ResetInvoice(s)
      BY <1>1, <2>2 DEF ResetInvoice, Goes, Carried
    <2>3. CASE PriceReturn(s)
      BY <1>1, <2>3 DEF PriceReturn, Goes, Carried
    <2>4. CASE WeighReturn(s)
      BY <1>1, <2>4 DEF WeighReturn, Goes, Carried
    <2>5. CASE ReadCredit(s)
      BY <1>1, <2>5 DEF ReadCredit, Goes, Carried
    <2>6. CASE ReadReturned(s)
      BY <1>1, <2>6 DEF ReadReturned, Goes, Carried
    <2>7. CASE ReadBalance(s)
      BY <1>1, <2>7 DEF ReadBalance, Goes, Carried
    <2> QED BY <1>3, <2>1, <2>2, <2>3, <2>4, <2>5, <2>6, <2>7
  <1>4. CASE BeginInvoice(s) \/ BeginEdit(s) \/ BeginCancel(s) \/ BeginResolve(s)
             \/ BeginRefund(s) \/ BeginCollect(s) \/ BeginReceipt(s)
    <2>1. \A i \in Invoice, op \in Operation : Load(s, op, i) \in Carried /\ Load(s, op, i).op = op
      BY LoadIsCarried
    <2>2. CASE BeginInvoice(s)
      <3>1. "invoice" \in Duties[s]
        BY <2>2 DEF BeginInvoice, Start
      <3>2. req'[s].op = "invoice"
        BY <1>1, <2>2 DEF BeginInvoice, Goes, Idle
      <3> QED BY <3>1, <3>2
    <2>3. CASE BeginEdit(s)
      <3>1. PICK i \in Invoice :
               \/ /\ "update" \in Duties[s]
                  /\ \E d \in Bill : Goes(s, [Load(s, "update", i) EXCEPT !.bill = d, !.at = "count"])
               \/ /\ "delete" \in Duties[s]
                  /\ Goes(s, [Load(s, "delete", i) EXCEPT !.at = "count"])
        BY <2>3 DEF BeginEdit, Start
      <3>2. /\ Load(s, "update", i) \in Carried /\ Load(s, "update", i).op = "update"
            /\ Load(s, "delete", i) \in Carried /\ Load(s, "delete", i).op = "delete"
        BY <2>1 DEF Operation
      <3>3. CASE "delete" \in Duties[s] /\ Goes(s, [Load(s, "delete", i) EXCEPT !.at = "count"])
        <4>1. req'[s].op = "delete"
          BY <1>1, <3>2, <3>3 DEF Goes, Carried
        <4> QED BY <3>3, <4>1
      <3>4. CASE /\ "update" \in Duties[s]
                 /\ \E d \in Bill : Goes(s, [Load(s, "update", i) EXCEPT !.bill = d, !.at = "count"])
        <4>1. PICK d \in Bill : Goes(s, [Load(s, "update", i) EXCEPT !.bill = d, !.at = "count"])
          BY <3>4
        <4>2. req'[s].op = "update"
          BY <1>1, <3>2, <4>1 DEF Goes, Carried
        <4> QED BY <3>4, <4>2
      <3> QED BY <3>1, <3>3, <3>4
    <2>4. CASE BeginCancel(s)
      <3>1. "cancel" \in Duties[s]
        BY <2>4 DEF BeginCancel, Start
      <3>2. req'[s].op = "cancel"
        BY <1>1, <2>4 DEF BeginCancel, Goes, Idle
      <3> QED BY <3>1, <3>2
    <2>5. CASE BeginResolve(s)
      <3>1. "resolve" \in Duties[s]
        BY <2>5 DEF BeginResolve, Start
      <3>2. req'[s].op = "resolve"
        BY <1>1, <2>5 DEF BeginResolve, Goes, Idle
      <3> QED BY <3>1, <3>2
    <2>6. CASE BeginRefund(s)
      <3>1. "refund" \in Duties[s]
        BY <2>6 DEF BeginRefund, Start
      <3>2. req'[s].op = "refund"
        BY <1>1, <2>6 DEF BeginRefund, Goes, Idle
      <3> QED BY <3>1, <3>2
    <2>7. CASE BeginCollect(s)
      <3>1. "collect" \in Duties[s]
        BY <2>7 DEF BeginCollect, Start
      <3>2. PICK i \in Invoice :
               Goes(s, [Load(s, "collect", i) EXCEPT !.bill = bill[i], !.at = "returned"])
        BY <2>7 DEF BeginCollect
      <3>3. Load(s, "collect", i) \in Carried /\ Load(s, "collect", i).op = "collect"
        BY <2>1 DEF Operation
      <3>4. req'[s].op = "collect"
        BY <1>1, <3>2, <3>3 DEF Goes, Carried
      <3> QED BY <3>1, <3>4
    <2>8. CASE BeginReceipt(s)
      <3>1. "receipt" \in Duties[s]
        BY <2>8 DEF BeginReceipt, Start
      <3>2. req'[s].op = "receipt"
        BY <1>1, <2>8 DEF BeginReceipt, Goes, Idle
      <3> QED BY <3>1, <3>2
    <2> QED BY <1>4, <2>2, <2>3, <2>4, <2>5, <2>6, <2>7, <2>8
  <1> QED BY <1>2, <1>3, <1>4 DEF Step

\* Assigned' of a step whose request ends up with an operation of its session.
LEMMA StepAssigned ==
    ASSUME TypeOK, Assigned, NEW s \in Session, Step(s)
    PROVE  Assigned'
  <1>1. req'[s].op \in Duties[s] \cup {"none"}
    <2>1. CASE BeginReturn(s)
      <3>0. PICK i \in Invoice :
               \E q, u : Goes(s, [Load(s, "return", i) EXCEPT !.at = "lines", !.asked = q,
                                                              !.left = q, !.seen = u])
        BY <2>1 DEF BeginReturn
      <3>1. PICK q, u :
               Goes(s, [Load(s, "return", i) EXCEPT !.at = "lines", !.asked = q, !.left = q,
                                                    !.seen = u])
        BY <3>0
      <3>2. Load(s, "return", i) \in Carried /\ Load(s, "return", i).op = "return"
        BY LoadIsCarried DEF Operation
      <3>3. req'[s].op = "return"
        BY <3>1, <3>2 DEF Goes, Carried, TypeOK
      <3> QED BY <2>1, <3>3 DEF BeginReturn, Start
    <2>2. CASE ReturnLine(s)
      <3>1. req[s] \in Carried
        BY SMTT(30) DEF TypeOK
      <3>2. req'[s].op = req[s].op
        BY <2>2, <3>1, ZenonT(40) DEF ReturnLine, Goes, Carried, TypeOK
      <3> QED BY <3>2 DEF Assigned
    <2>3. CASE ~BeginReturn(s) /\ ~ReturnLine(s)
      BY <2>3, RequestSteps DEF Assigned
    <2> QED BY <2>1, <2>2, <2>3
  <1> QED BY <1>1, OthersStay DEF Assigned

\* What another session has counted stands, if the step leaves the invoices
\* that session may hold as they are and brings nothing of them back.
LEMMA OthersCounted ==
    ASSUME TypeOK, TypeOK', Carrying, Within, NEW s \in Session, Step(s),
           \A i \in Invoice : held[i] \notin {None, s} =>
               /\ bill'[i] = bill[i]
               /\ \A b \in Batch : back'[i].units[b] <= back[i].units[b]
    PROVE  \A t \in Session : t # s => Counted(req[t])'
  <1> SUFFICES ASSUME NEW t \in Session, t # s PROVE Counted(req[t])'
    OBVIOUS
  <1>1. req'[t] = req[t] /\ req[t] \in Carried /\ Sound(t, req[t]) /\ Counted(req[t])
    BY OthersStay DEF TypeOK, Carrying, Within
  <1> SUFFICES ASSUME req[t].op = "return", NEW b \in Batch
               PROVE  /\ back'[req[t].invoice].units[b] + req[t].take[b] <= req[t].seen[b]
                      /\ req[t].take[b] > 0 =>
                           \E k \in DOMAIN bill'[req[t].invoice].lines :
                               /\ bill'[req[t].invoice].lines[k].batch = b
                               /\ req[t].seen[b] <= bill'[req[t].invoice].lines[k].n
    BY <1>1 DEF Counted
  <1> DEFINE i == req[t].invoice
  <1>2. i \in Invoice /\ held[i] = t /\ t # None
    BY <1>1, DocumentAssumption DEF Sound
  <1>3. bill'[i] = bill[i] /\ back'[i].units[b] <= back[i].units[b]
    BY <1>2
  <1>4. /\ back[i].units[b] \in Int /\ back'[i].units[b] \in Int
        /\ req[t].take[b] \in Nat /\ req[t].seen[b] \in Int
    BY <1>1, <1>2 DEF TypeOK, Sums, Units, Carried
  <1>5. /\ back[i].units[b] + req[t].take[b] <= req[t].seen[b]
        /\ req[t].take[b] > 0 =>
             \E k \in DOMAIN bill[i].lines :
                 bill[i].lines[k].batch = b /\ req[t].seen[b] <= bill[i].lines[k].n
    BY <1>1 DEF Counted
  <1> HIDE DEF i
  <1>6. back'[i].units[b] + req[t].take[b] <= req[t].seen[b]
    BY <1>3, <1>4, <1>5
  <1> QED BY <1>3, <1>5, <1>6 DEF i

\* A step that leaves the invoices as they are, and brings nothing back, keeps
\* what its own request has counted.
LEMMA OwnCounted ==
    ASSUME TypeOK, TypeOK', Carrying, Within, NEW s \in Session, Step(s),
           bill' = bill, back' = back
    PROVE  Counted(req[s])'
  <1>1. req[s] \in Carried /\ Sound(s, req[s]) /\ Counted(req[s]) /\ req \in [Session -> Carried]
    BY DEF TypeOK, Carrying, Within
  <1>2. CASE BeginReturn(s)
    <2>0. PICK i \in Invoice :
             \E q : Goes(s, [Load(s, "return", i) EXCEPT !.at = "lines", !.asked = q, !.left = q,
                                                         !.seen = back[i].units])
      BY <1>2 DEF BeginReturn
    <2>1. PICK q :
             Goes(s, [Load(s, "return", i) EXCEPT !.at = "lines", !.asked = q, !.left = q,
                                                  !.seen = back[i].units])
      BY <2>0
    <2>2. /\ Load(s, "return", i) \in Carried /\ Load(s, "return", i).take = NoUnits
          /\ Load(s, "return", i).invoice = i
      BY LoadIsCarried DEF Operation
    <2>3. req'[s].take = NoUnits /\ req'[s].invoice = i /\ req'[s].seen = back[i].units
      BY <1>1, <2>1, <2>2 DEF Goes, Carried
    <2>4. ASSUME NEW b \in Batch
          PROVE  back'[i].units[b] + req'[s].take[b] <= req'[s].seen[b] /\ req'[s].take[b] = 0
      <3>1. back[i].units[b] \in Int
        BY DEF TypeOK, Sums, Units
      <3> QED BY <2>3, <3>1 DEF NoUnits
    <2> QED BY <2>3, <2>4 DEF Counted
  <1>3. CASE ReturnLine(s)
    <2> DEFINE i == req[s].invoice
               ls == bill[i].lines
               k == req[s].line
               a == ls[k].batch
               take == Greater(Lesser(ls[k].n - req[s].seen[a], req[s].left), 0)
    <2>1. /\ req[s].op = "return" /\ req[s].left > 0 /\ k <= Len(ls)
          /\ Goes(s, [req[s] EXCEPT !.line = @ + 1, !.left = @ - take,
                                    !.seen[a] = @ + take, !.take[a] = @ + take])
      BY <1>3, ZenonT(40) DEF ReturnLine, Doing
    <2>2. i \in Invoice /\ bill[i] \in Bill
      BY <1>1, <2>1 DEF Sound, Live
    <2>3. /\ req[s].left \in Nat /\ k \in Nat \ {0}
          /\ req[s].seen \in [Batch -> Int] /\ req[s].take \in [Batch -> Nat]
      BY <1>1 DEF Carried, Units
    <2>4. k \in DOMAIN ls /\ a \in Batch /\ ls[k].n \in Nat
      <3> DEFINE L == Len(ls)
      <3>1. L \in Nat /\ DOMAIN ls = 1..L
        BY <2>2, DocumentFields, SMTT(30)
      <3>2. k <= L
        BY <2>1
      <3> HIDE DEF L, k
      <3>3. k \in 1..L
        BY <2>3, <3>1, <3>2
      <3> USE DEF k
      <3>4. k \in 1..Len(ls)
        BY <3>3, SMTT(30) DEF L
      <3> QED BY <2>2, <3>1, <3>3, <3>4, LineIsLine
    <2> DEFINE x == [req[s] EXCEPT !.line = @ + 1, !.left = @ - take,
                                   !.seen[a] = @ + take, !.take[a] = @ + take]
    <2>5. req'[s] = x
      BY <1>1, <2>1 DEF Goes
    <2> HIDE DEF take, a
    <2>6. /\ x.op = "return" /\ x.invoice = i
          /\ x.seen = [req[s].seen EXCEPT ![a] = @ + take]
          /\ x.take = [req[s].take EXCEPT ![a] = @ + take]
      BY <1>1, <2>1 DEF Carried
    <2> HIDE DEF x
    <2>7. take \in Nat /\ (take > 0 => req[s].seen[a] + take <= ls[k].n)
      <3>1. ls[k].n \in Nat /\ req[s].seen[a] \in Int /\ req[s].left \in Nat
        BY <2>3, <2>4
      <3> HIDE DEF ls, k
      <3> QED BY <3>1 DEF take, Lesser, Greater
    <2>8. ASSUME NEW b \in Batch
          PROVE  /\ back'[i].units[b] + x.take[b] <= x.seen[b]
                 /\ x.take[b] > 0 =>
                      \E l \in DOMAIN ls : ls[l].batch = b /\ x.seen[b] <= ls[l].n
      <3>1. /\ back[i].units[b] + req[s].take[b] <= req[s].seen[b]
            /\ req[s].take[b] > 0 =>
                 \E l \in DOMAIN ls : ls[l].batch = b /\ req[s].seen[b] <= ls[l].n
        BY <1>1, <2>1 DEF Counted
      <3>2. back[i].units[b] \in Int /\ req[s].take[b] \in Nat /\ req[s].seen[b] \in Int
        BY <2>2, <2>3 DEF TypeOK, Sums, Units
      <3> DEFINE back0 == back[i].units[b]
                 take0 == req[s].take[b]
                 seen0 == req[s].seen[b]
      <3>3. back'[i].units[b] = back0
        OBVIOUS
      <3> HIDE DEF ls, k, i
      <3>4. CASE b = a
        <4>1. x.seen[b] = seen0 + take /\ x.take[b] = take0 + take
          BY <2>3, <2>4, <2>6, <3>4, SMTT(30)
        <4>2. CASE take > 0
          <5>1. x.seen[b] <= ls[k].n /\ ls[k].batch = b
            BY <2>7, <3>4, <4>1, <4>2 DEF a
          <5>2. back0 + (take0 + take) <= seen0 + take
            BY <2>7, <3>1, <3>2
          <5> QED BY <2>4, <3>3, <4>1, <5>1, <5>2, SMTT(30)
        <4>3. CASE take = 0
          <5>1. x.seen[b] = seen0 /\ x.take[b] = take0
            BY <3>2, <4>1, <4>3
          <5>2. back'[i].units[b] + x.take[b] <= x.seen[b]
            BY <3>1, <3>3, <5>1
          <5> QED BY <3>1, <5>1, <5>2
        <4> QED BY <2>7, <4>2, <4>3
      <3>5. CASE b # a
        <4>1. x.seen[b] = seen0 /\ x.take[b] = take0
          BY <2>3, <2>6, <3>5
        <4> QED BY <3>1, <3>3, <4>1
      <3> QED BY <3>4, <3>5
    <2> QED BY <2>5, <2>6, <2>8, SMTT(30) DEF Counted
  <1>4. CASE ~BeginReturn(s) /\ ~ReturnLine(s)
    <2>1. \/ req'[s].op # "return"
          \/ /\ req'[s].op = req[s].op /\ req'[s].invoice = req[s].invoice
             /\ req'[s].seen = req[s].seen /\ req'[s].take = req[s].take
      BY <1>4, RequestSteps DEF Within
    <2> QED BY <1>1, <2>1 DEF Counted
  <1> QED BY <1>2, <1>3, <1>4

\* The rest of the strengthening, action by action.
LEMMA PostReturnWithin ==
    ASSUME TypeOK, TypeOK', Carrying, Within, NEW s \in Session, PostReturn(s)
    PROVE  Within'
  <1> DEFINE i == req[s].invoice
             x == [invoice |-> i, status |-> "posted", units |-> req[s].take,
                   sub |-> req[s].asked * bill[i].price,
                   discount |-> req[s].sum, total |-> NoteTotal(s)]
  <1>1. /\ req[s] \in Carried /\ Sound(s, req[s]) /\ Counted(req[s]) /\ req[s].op = "return"
        /\ Step(s) /\ Assigned /\ Referred /\ ReturnedWithinSold
    BY DEF TypeOK, Carrying, Within, PostReturn, Doing, Step
  <1>2. i \in Invoice /\ Live(i) /\ held[i] = s
    BY <1>1 DEF Sound
  <1>3. PICK n \in Note :
           /\ note[n].status = "none"
           /\ note' = [note EXCEPT ![n] = x]
           /\ back' = [back EXCEPT ![i] = Added(@, x, 1)]
    BY DEF PostReturn, IsNext
  <1>4. End(s) /\ bill' = bill
    BY DEF PostReturn
  <1>5. x.invoice = i /\ x.status = "posted" /\ x.units = req[s].take
    OBVIOUS
  <1> HIDE DEF x
  <1>6. \A j \in Invoice : j # i => back'[j] = back[j]
    BY <1>2, <1>3 DEF TypeOK
  <1>7. \A b \in Batch : back'[i].units[b] = back[i].units[b] + req[s].take[b]
    <2>1. back'[i] = Added(back[i], x, 1)
      BY <1>2, <1>3 DEF TypeOK
    <2>2. \A b \in Batch : back[i].units[b] \in Int /\ req[s].take[b] \in Nat
      BY <1>1, <1>2 DEF TypeOK, Sums, Units, Carried
    <2> QED BY <1>5, <2>1, <2>2 DEF Added
  <1>8. Assigned'
    BY <1>1, StepAssigned
  <1>9. \A t \in Session : Counted(req[t])'
    <2>1. s # None
      BY DocumentAssumption
    <2>2. \A j \in Invoice : held[j] \notin {None, s} =>
             /\ bill'[j] = bill[j]
             /\ \A b \in Batch : back'[j].units[b] <= back[j].units[b]
      <3>1. \A j \in Invoice, b \in Batch : back[j].units[b] \in Int
        BY DEF TypeOK, Sums, Units
      <3>2. \A j \in Invoice : held[j] \notin {None, s} => bill'[j] = bill[j] /\ back'[j] = back[j]
        BY <1>2, <1>4, <1>6
      <3> QED BY <3>1, <3>2
    <2>3. \A t \in Session : t # s => Counted(req[t])'
      BY <1>1, <2>2, OthersCounted
    <2>4. req'[s] = Idle
      BY <1>4 DEF End, Goes, TypeOK
    <2>5. Counted(req[s])'
      BY <2>4 DEF Counted, Idle
    <2> QED BY <2>3, <2>5
  <1>10. Referred'
    <2>1. note[n].invoice = None /\ i # None
      BY <1>1, <1>2, <1>3, DocumentAssumption DEF Referred
    <2>2. note'[n] = x /\ \A m \in Note : m # n => note'[m] = note[m]
      BY <1>3 DEF TypeOK
    <2>3. ASSUME NEW j \in Invoice, \A m \in Note : note'[m].invoice # j
          PROVE  back'[j].units = NoUnits
      <3>1. j # i
        BY <1>5, <2>2, <2>3
      <3>2. \A m \in Note : note[m].invoice # j
        BY <2>1, <2>2, <2>3, DocumentAssumption
      <3> QED BY <1>1, <1>6, <3>1, <3>2 DEF Referred
    <2>4. \A m \in Note : note'[m].status = "none" => note'[m].invoice = None
      BY <1>1, <1>5, <2>2 DEF Referred
    <2>5. NoUnits' = NoUnits
      BY DEF NoUnits
    <2> QED BY <2>3, <2>4, <2>5 DEF Referred
  <1>11. ReturnedWithinSold'
    <2> SUFFICES ASSUME NEW j \in Invoice, NEW b \in Batch, back'[j].units[b] > 0
                 PROVE  /\ bill'[j] \in Bill
                        /\ \E k \in DOMAIN bill'[j].lines :
                              /\ bill'[j].lines[k].batch = b
                              /\ back'[j].units[b] <= bill'[j].lines[k].n
      BY DEF ReturnedWithinSold, Live
    <2>1. CASE j # i
      BY <1>1, <1>4, <1>6, <2>1 DEF ReturnedWithinSold, Live
    <2>2. CASE j = i
      <3>1. back[i].units[b] \in Int /\ req[s].take[b] \in Nat /\ req[s].seen[b] \in Int
        BY <1>1, <1>2, SMTT(30) DEF TypeOK, Sums, Units, Carried
      <3>2. CASE req[s].take[b] > 0
        <4>1. back'[i].units[b] <= req[s].seen[b]
          BY <1>1, <1>7 DEF Counted
        <4>2. PICK k \in DOMAIN bill[i].lines :
                 bill[i].lines[k].batch = b /\ req[s].seen[b] <= bill[i].lines[k].n
          BY <1>1, <3>2 DEF Counted
        <4>3. bill[i].lines[k].n \in Nat /\ back'[i].units[b] \in Int
          <5>1. k \in 1..Len(bill[i].lines)
            BY <1>2, <4>2, DocumentFields DEF Live
          <5>2. bill[i].lines[k].n \in Nat
            BY <1>2, <5>1, LineIsLine DEF Live
          <5> QED BY <1>7, <3>1, <5>2
        <4>4. back'[i].units[b] <= bill[i].lines[k].n
          <5> DEFINE n1 == bill[i].lines[k].n
                     u1 == back'[i].units[b]
                     v1 == req[s].seen[b]
          <5>1. n1 \in Nat /\ u1 \in Int /\ v1 \in Int /\ u1 <= v1 /\ v1 <= n1
            BY <3>1, <4>1, <4>2, <4>3
          <5> HIDE DEF n1, u1, v1
          <5>2. u1 <= n1
            BY <5>1
          <5> QED BY <5>2 DEF n1, u1
        <4> QED BY <1>2, <1>4, <2>2, <4>2, <4>4 DEF Live
      <3>3. CASE req[s].take[b] = 0
        <4>1. back'[i].units[b] = back[i].units[b]
          BY <1>7, <3>1, <3>3
        <4> QED BY <1>1, <1>4, <2>2, <4>1 DEF ReturnedWithinSold, Live
      <3> QED BY <3>1, <3>2, <3>3
    <2> QED BY <2>1, <2>2
  <1> QED BY <1>8, <1>9, <1>10, <1>11 DEF Within

LEMMA CancelNoteWithin ==
    ASSUME TypeOK, TypeOK', Carrying, Within, NEW s \in Session, CancelNote(s)
    PROVE  Within'
  <1> DEFINE n == req[s].note
             i == note[n].invoice
  <1>1. /\ Sound(s, req[s]) /\ req[s].op = "cancel"
        /\ Step(s) /\ Assigned /\ Referred /\ ReturnedWithinSold
    BY DEF Carrying, Within, CancelNote, Doing, Step
  <1>2. n \in Note /\ note[n].status = "posted" /\ i \in Invoice
    BY <1>1 DEF Sound
  <1>3. /\ note' = [note EXCEPT ![n].status = "cancelled"]
        /\ back' = [back EXCEPT ![i] = Added(@, note[n], -1)]
        /\ End(s) /\ bill' = bill
    BY DEF CancelNote
  <1>4. \A j \in Invoice : j # i => back'[j] = back[j]
    BY <1>2, <1>3 DEF TypeOK
  <1>5. \A b \in Batch : /\ back[i].units[b] \in Int /\ back'[i].units[b] \in Int
                         /\ back'[i].units[b] <= back[i].units[b]
    <2>1. back'[i] = Added(back[i], note[n], -1)
      BY <1>2, <1>3 DEF TypeOK
    <2>2. \A b \in Batch : back[i].units[b] \in Int /\ note[n].units[b] \in Nat
      BY <1>2 DEF TypeOK, Sums, Units, Written
    <2>3. \A b \in Batch : back'[i].units[b] = back[i].units[b] + (-1) * note[n].units[b]
      BY <2>1, AddedUnits
    <2> SUFFICES ASSUME NEW b \in Batch
                 PROVE  /\ back[i].units[b] \in Int /\ back'[i].units[b] \in Int
                        /\ back'[i].units[b] <= back[i].units[b]
      OBVIOUS
    <2> DEFINE old == back[i].units[b]
               new == back'[i].units[b]
               less == note[n].units[b]
    <2>4. old \in Int /\ less \in Nat /\ new = old + (-1) * less
      BY <2>2, <2>3
    <2> HIDE DEF old, new, less
    <2>5. new \in Int /\ new <= old
      BY <2>4
    <2> QED BY <2>4, <2>5 DEF old, new
  <1>6. \A j \in Invoice, b \in Batch : /\ back[j].units[b] \in Int /\ back'[j].units[b] \in Int
                                        /\ back'[j].units[b] <= back[j].units[b]
    <2>1. \A j \in Invoice, b \in Batch : back[j].units[b] \in Int
      BY DEF TypeOK, Sums, Units
    <2> QED BY <1>4, <1>5, <2>1
  <1>7. Assigned'
    BY <1>1, StepAssigned
  <1>8. \A t \in Session : Counted(req[t])'
    <2>1. \A t \in Session : t # s => Counted(req[t])'
      BY <1>1, <1>3, <1>6, OthersCounted
    <2>2. req'[s] = Idle
      BY <1>3 DEF End, Goes, TypeOK
    <2> QED BY <2>1, <2>2, SMTT(30) DEF Counted, Idle
  <1>9. Referred'
    <2>1. /\ \A m \in Note : m # n => note'[m] = note[m]
          /\ note'[n].invoice = i /\ note'[n].status = "cancelled"
      BY <1>2, <1>3 DEF TypeOK, Written
    <2>2. \A m \in Note : note'[m].status = "none" => note'[m].invoice = None
      BY <1>1, <2>1 DEF Referred
    <2>3. ASSUME NEW j \in Invoice, \A m \in Note : note'[m].invoice # j
          PROVE  back'[j].units = NoUnits
      <3>1. j # i /\ \A m \in Note : note[m].invoice # j
        BY <1>2, <2>1, <2>3
      <3> QED BY <1>1, <1>4, <3>1 DEF Referred
    <2>4. NoUnits' = NoUnits
      BY DEF NoUnits
    <2> QED BY <2>2, <2>3, <2>4 DEF Referred
  <1>10. ReturnedWithinSold'
    <2> SUFFICES ASSUME NEW j \in Invoice, NEW b \in Batch, back'[j].units[b] > 0
                 PROVE  /\ bill[j] \in Bill
                        /\ \E k \in DOMAIN bill[j].lines :
                              /\ bill[j].lines[k].batch = b
                              /\ back'[j].units[b] <= bill[j].lines[k].n
      BY <1>3 DEF ReturnedWithinSold, Live
    <2>1. back[j].units[b] > 0
      BY <1>6
    <2>2. PICK k \in DOMAIN bill[j].lines :
             bill[j].lines[k].batch = b /\ back[j].units[b] <= bill[j].lines[k].n
      BY <1>1, <2>1 DEF ReturnedWithinSold
    <2>3. bill[j] \in Bill
      BY <1>1, <2>1 DEF ReturnedWithinSold, Live
    <2>4. bill[j].lines[k].n \in Nat
      <3>1. k \in 1..Len(bill[j].lines)
        BY <2>2, <2>3, DocumentFields
      <3> QED BY <2>3, <3>1, LineIsLine
    <2>5. back'[j].units[b] <= bill[j].lines[k].n
      <3> DEFINE n1 == bill[j].lines[k].n
                 u1 == back'[j].units[b]
                 v1 == back[j].units[b]
      <3>1. n1 \in Nat /\ u1 \in Int /\ v1 \in Int /\ u1 <= v1 /\ v1 <= n1
        BY <1>6, <2>2, <2>4
      <3> HIDE DEF n1, u1, v1
      <3>2. u1 <= n1
        BY <3>1
      <3> QED BY <3>2 DEF n1, u1
    <2> QED BY <2>2, <2>3, <2>5, SMTT(30)
  <1> QED BY <1>7, <1>8, <1>9, <1>10 DEF Within

\* The step that posts or deletes an invoice meets one of which nothing has
\* come back, and that no return is at work on.
LEMMA BillWithin ==
    ASSUME TypeOK, TypeOK', Carrying, Within, NEW s \in Session,
           PostInvoice(s) \/ DeleteInvoice(s)
    PROVE  Within'
  <1>1. /\ Sound(s, req[s]) /\ Step(s) /\ Assigned /\ Referred /\ ReturnedWithinSold
        /\ req \in [Session -> Carried]
    BY DEF Carrying, Within, Step, TypeOK
  <1>2. End(s) /\ back' = back /\ note' = note
    BY DEF PostInvoice, DeleteInvoice, notes
  <1>3. \A j \in Invoice, b \in Batch : back[j].units[b] \in Int
    BY DEF TypeOK, Sums, Units
  <1>4. PICK i \in Invoice :
           /\ \A j \in Invoice : j # i => bill'[j] = bill[j]
           /\ \A b \in Batch : ~(back[i].units[b] > 0)
           /\ held[i] \in {None, s} \/ ~Live(i)
    <2>1. CASE PostInvoice(s)
      <3>1. PICK i \in Invoice : bill[i] = None /\ bill' = [bill EXCEPT ![i] = req[s].bill]
        BY <2>1 DEF PostInvoice, IsNext
      <3>2. ~Live(i)
        BY <3>1, DocumentAssumption DEF Live
      <3>3. \A b \in Batch : ~(back[i].units[b] > 0)
        BY <1>1, <3>2 DEF ReturnedWithinSold
      <3> QED BY <3>1, <3>2, <3>3 DEF TypeOK
    <2>2. CASE DeleteInvoice(s)
      <3> DEFINE i == req[s].invoice
      <3>1. i \in Invoice /\ held[i] \in {None, s} /\ \A n \in Note : note[n].invoice # i
        BY <1>1, <2>2 DEF DeleteInvoice, Doing, Sound, Writable
      <3>2. bill' = [bill EXCEPT ![i] = Deleted]
        BY <2>2 DEF DeleteInvoice
      <3> HIDE DEF i
      <3>3. back[i].units = NoUnits
        BY <1>1, <3>1 DEF Referred
      <3>4. \A b \in Batch : ~(back[i].units[b] > 0)
        BY <3>3 DEF NoUnits
      <3> QED BY <3>1, <3>2, <3>4 DEF TypeOK
    <2> QED BY <2>1, <2>2
  <1>5. Assigned'
    BY <1>1, StepAssigned
  <1>6. \A t \in Session : Counted(req[t])'
    <2> SUFFICES ASSUME NEW t \in Session PROVE Counted(req[t])'
      OBVIOUS
    <2>1. CASE t = s
      <3>1. req'[s] = Idle
        BY <1>1, <1>2 DEF End, Goes
      <3> QED BY <2>1, <3>1 DEF Counted, Idle
    <2>2. CASE t # s
      <3>1. req'[t] = req[t] /\ Sound(t, req[t]) /\ Counted(req[t]) /\ t # None
        BY <1>1, <2>2, OthersStay, DocumentAssumption DEF Carrying, Within
      <3>2. CASE req[t].op = "return"
        <4>1. req[t].invoice \in Invoice /\ Live(req[t].invoice) /\ held[req[t].invoice] = t
          BY <3>1, <3>2 DEF Sound
        <4>2. req[t].invoice # i
          BY <1>4, <2>2, <3>1, <4>1
        <4>3. bill'[req[t].invoice] = bill[req[t].invoice]
          BY <1>4, <4>1, <4>2
        <4> QED BY <1>2, <3>1, <4>3 DEF Counted
      <3>3. CASE req[t].op # "return"
        BY <3>1, <3>3 DEF Counted
      <3> QED BY <3>2, <3>3
    <2> QED BY <2>1, <2>2
  <1>7. Referred'
    BY <1>1, <1>2 DEF Referred, NoUnits
  <1>8. ReturnedWithinSold'
    BY <1>1, <1>2, <1>4 DEF ReturnedWithinSold, Live
  <1> QED BY <1>5, <1>6, <1>7, <1>8 DEF Within

\* Every other step leaves documents' lines, returns and notes as they are.
LEMMA OtherWithin ==
    ASSUME TypeOK, TypeOK', Carrying, Within, NEW s \in Session, Step(s),
           bill' = bill, back' = back, note' = note
    PROVE  Within'
  <1>1. Assigned'
    BY StepAssigned DEF Within
  <1>2. \A t \in Session : Counted(req[t])'
    <2>1. \A i \in Invoice, b \in Batch : back[i].units[b] \in Int
      BY DEF TypeOK, Sums, Units
    <2>2. \A t \in Session : t # s => Counted(req[t])'
      BY <2>1, OthersCounted
    <2>3. Counted(req[s])'
      BY OwnCounted
    <2> QED BY <2>2, <2>3
  <1>3. Referred' /\ ReturnedWithinSold'
    BY DEF Within, Referred, ReturnedWithinSold, Live, NoUnits
  <1> QED BY <1>1, <1>2, <1>3 DEF Within

LEMMA StepWithin ==
    ASSUME NoEdits, TypeOK, TypeOK', Carrying, Within, NEW s \in Session, Step(s)
    PROVE  Within'
  <1>1. CASE PostReturn(s)
    BY <1>1, PostReturnWithin
  <1>2. CASE CancelNote(s)
    BY <1>2, CancelNoteWithin
  <1>3. CASE PostInvoice(s) \/ DeleteInvoice(s)
    BY <1>3, BillWithin
  <1>4. CASE RepostInvoice(s)
    BY <1>4 DEF RepostInvoice, Doing, Within, Assigned, NoEdits
  <1>5. CASE ~(PostReturn(s) \/ CancelNote(s) \/ PostInvoice(s) \/ DeleteInvoice(s)
               \/ RepostInvoice(s))
    <2>1. bill' = bill /\ back' = back /\ note' = note
      BY <1>5 DEF Step, ReadBalance, BeginInvoice, BeginEdit, CountReturns, ResetInvoice,
                  BeginReturn, ReturnLine, PriceReturn, WeighReturn, BeginCancel, ReadCredit,
                  BeginResolve, ResolveCredit, BeginRefund, RefundCredit, BeginCollect,
                  ReadReturned, CollectPayment, BeginReceipt, CreatePayment, Abort,
                  documents, notes
    <2> QED BY <2>1, OtherWithin, SMTT(30)
  <1> QED BY <1>1, <1>2, <1>3, <1>4, <1>5

\* Whatever returns, cancellations, collections and deletions interleave, no
\* batch takes back more of an invoice than one of its lines sold, and nothing
\* has come back of an invoice that is gone: as long as no session edits.
THEOREM ReturnsWithinSold ==
    ASSUME NoEdits
    PROVE  Spec => []ReturnedWithinSold
  <1>1. Init => TypeOK /\ Carrying /\ Within
    BY InitType, InitCarrying, InitWithin
  <1>2. TypeOK /\ Carrying /\ Within /\ [Next]_vars => (TypeOK /\ Carrying /\ Within)'
    <2> SUFFICES ASSUME TypeOK, Carrying, Within, [Next]_vars
                 PROVE  TypeOK' /\ Carrying' /\ Within'
      OBVIOUS
    <2>1. TypeOK' /\ Carrying'
      BY NextCarrying
    <2>2. CASE Next
      <3>1. PICK s \in Session : Step(s)
        BY <2>2 DEF Next
      <3>2. Within'
        BY <2>1, <3>1, StepWithin
      <3> QED BY <2>1, <3>2
    <2>3. CASE UNCHANGED vars
      <3>1. bill' = bill /\ back' = back /\ note' = note /\ req' = req
        BY <2>3 DEF vars, documents, notes
      <3>2. Assigned' /\ \A s \in Session : Counted(req[s])'
        BY <3>1 DEF Within, Assigned, Counted
      <3>3. Referred' /\ ReturnedWithinSold'
        BY <3>1 DEF Within, Referred, ReturnedWithinSold, Live, NoUnits
      <3> QED BY <2>1, <3>2, <3>3 DEF Within
    <2> QED BY <2>1, <2>2, <2>3
  <1>3. Within => ReturnedWithinSold
    BY DEF Within
  <1> QED BY <1>1, <1>2, <1>3, PTL DEF Spec

-----------------------------------------------------------------------------
(***************************************************************************)
(* The statement and the books agree, and what was paid out stands, as     *)
(* long as one session collects, one (it may be another) decides on        *)
(* credits, pays them out and cancels notes, and no invoice is edited or   *)
(* deleted.  Any number of sessions sell, take back and receive beside     *)
(* them.  An edit leaves the entry of a collection behind; two tills add   *)
(* to what each of them loaded; a credit loaded by one session is decided  *)
(* on by another.                                                          *)
(***************************************************************************)

AtTheDesk == {"resolve", "refund", "cancel"}

OneTill ==
    /\ \A s \in Session : Duties[s] \cap {"update", "delete"} = {}
    /\ \A s, t \in Session :
          /\ "collect" \in Duties[s] /\ "collect" \in Duties[t] => s = t
          /\ Duties[s] \cap AtTheDesk # {} /\ Duties[t] \cap AtTheDesk # {} => s = t

\* A credit stands only while its note does.
CreditHasNote ==
    \A n \in Note : credit[n].state \notin {"none", "deleted"} => note[n].status = "posted"

\* Of an invoice that is not there nothing was taken.
TakenIsPaid == \A i \in Invoice : taken[i] = paid[i] /\ (~Live(i) => paid[i] = 0)

\* What a session has loaded is still so when it writes.
UpToDate(s) ==
    /\ req[s].op = "collect" => req[s].paid = paid[req[s].invoice]
    /\ req[s].op = "resolve" => credit[req[s].note].state = "pending"
    /\ req[s].op = "refund" => credit[req[s].note].state = "awaiting_refund"
    /\ req[s].op = "cancel" =>
          /\ req[s].at \in {"credit", "post"}
          /\ req[s].at = "post" =>
                req[s].was = credit[req[s].note].state /\ req[s].was # "refunded"

Squared ==
    /\ Assigned
    /\ StatementAgrees
    /\ TakenIsPaid
    /\ CreditHasNote
    /\ \A s \in Session : UpToDate(s)


LEMMA InitSquared == Init => Squared
  <1> SUFFICES ASSUME Init PROVE Squared
    OBVIOUS
  <1>1. \A s \in Session : req[s].op = "none"
    BY DEF Init, Idle
  <1>2. \A n \in Note : /\ note[n].status = "none" /\ credit[n].state = "none"
                        /\ entered[n] = 0 /\ paidOut[n] = 0
    BY DEF Init, Unwritten
  <1>3. \A i \in Invoice : paid[i] = 0 /\ taken[i] = 0
    BY SMTT(30) DEF Init
  <1> QED
    BY <1>1, <1>2, <1>3 DEF Squared, Assigned, StatementAgrees, TakenIsPaid, CreditHasNote, UpToDate

\* Steps that write neither an invoice nor a note nor the books.
Reads(s) ==
    \/ BeginInvoice(s) \/ BeginEdit(s) \/ CountReturns(s) \/ ResetInvoice(s)
    \/ BeginReturn(s) \/ ReturnLine(s) \/ PriceReturn(s) \/ WeighReturn(s)
    \/ BeginCancel(s) \/ ReadCredit(s) \/ BeginResolve(s) \/ BeginRefund(s)
    \/ BeginCollect(s) \/ ReadReturned(s) \/ BeginReceipt(s) \/ ReadBalance(s)

LEMMA ReadsOnly ==
    ASSUME NEW s \in Session, Reads(s)
    PROVE  UNCHANGED <<documents, notes, books>>
  BY DEF Reads, ReadBalance, BeginInvoice, BeginEdit, CountReturns, ResetInvoice,
         BeginReturn, ReturnLine, PriceReturn, WeighReturn, BeginCancel, ReadCredit,
         BeginResolve, BeginRefund, BeginCollect, ReadReturned, BeginReceipt

\* A session that reads is up to date with what it has just read.
LEMMA ReadsUpToDate ==
    ASSUME TypeOK, Carrying, NEW s \in Session, Reads(s), UpToDate(s)
    PROVE  UpToDate(s)'
  <1>1. req[s] \in Carried /\ req \in [Session -> Carried] /\ Sound(s, req[s])
    BY DEF TypeOK, Carrying
  <1>2. paid' = paid /\ credit' = credit
    BY ReadsOnly DEF documents, notes
  <1>3. CASE BeginInvoice(s) \/ BeginReceipt(s)
    <2>1. req'[s].op \in {"invoice", "receipt"}
      BY <1>1, <1>3 DEF BeginInvoice, BeginReceipt, Goes, Idle
    <2> QED BY <2>1 DEF UpToDate
  <1>4. CASE BeginEdit(s)
    <2>1. PICK i \in Invoice :
             \/ \E d \in Bill : Goes(s, [Load(s, "update", i) EXCEPT !.bill = d, !.at = "count"])
             \/ Goes(s, [Load(s, "delete", i) EXCEPT !.at = "count"])
      BY <1>4 DEF BeginEdit
    <2>2. /\ Load(s, "update", i) \in Carried /\ Load(s, "update", i).op = "update"
          /\ Load(s, "delete", i) \in Carried /\ Load(s, "delete", i).op = "delete"
      BY LoadIsCarried DEF Operation
    <2>3. CASE Goes(s, [Load(s, "delete", i) EXCEPT !.at = "count"])
      <3>1. req'[s].op = "delete"
        BY <1>1, <2>2, <2>3 DEF Goes, Carried
      <3> QED BY <3>1 DEF UpToDate
    <2>4. ASSUME NEW d \in Bill,
                 Goes(s, [Load(s, "update", i) EXCEPT !.bill = d, !.at = "count"])
          PROVE  UpToDate(s)'
      <3>1. req'[s].op = "update"
        BY <1>1, <2>2, <2>4 DEF Goes, Carried
      <3> QED BY <3>1 DEF UpToDate
    <2> QED BY <2>1, <2>3, <2>4
  <1>5. CASE BeginReturn(s)
    <2>1. PICK i \in Invoice :
             \E q, u : Goes(s, [Load(s, "return", i) EXCEPT !.at = "lines", !.asked = q,
                                                            !.left = q, !.seen = u])
      BY <1>5 DEF BeginReturn
    <2>2. Load(s, "return", i) \in Carried /\ Load(s, "return", i).op = "return"
      BY LoadIsCarried DEF Operation
    <2>3. req'[s].op = "return"
      BY <1>1, <2>1, <2>2 DEF Goes, Carried
    <2> QED BY <2>3 DEF UpToDate
  <1>6. CASE BeginCancel(s)
    <2>1. req'[s].op = "cancel" /\ req'[s].at = "credit"
      BY <1>1, <1>6 DEF BeginCancel, Goes, Idle
    <2> QED BY <2>1 DEF UpToDate
  <1>7. CASE BeginResolve(s)
    <2>1. PICK n \in Note : /\ credit[n].state = "pending"
                            /\ Goes(s, [Idle EXCEPT !.op = "resolve", !.note = n, !.at = "post"])
      BY <1>7 DEF BeginResolve
    <2>2. req'[s].op = "resolve" /\ req'[s].note = n
      BY <1>1, <2>1 DEF Goes, Idle
    <2> QED BY <1>2, <2>1, <2>2 DEF UpToDate
  <1>8. CASE BeginRefund(s)
    <2>1. PICK n \in Note : /\ credit[n].state = "awaiting_refund"
                            /\ Goes(s, [Idle EXCEPT !.op = "refund", !.note = n, !.at = "post"])
      BY <1>8 DEF BeginRefund
    <2>2. req'[s].op = "refund" /\ req'[s].note = n
      BY <1>1, <2>1 DEF Goes, Idle
    <2> QED BY <1>2, <2>1, <2>2 DEF UpToDate
  <1>9. CASE BeginCollect(s)
    <2>1. PICK i \in Invoice :
             Goes(s, [Load(s, "collect", i) EXCEPT !.bill = bill[i], !.at = "returned"])
      BY <1>9 DEF BeginCollect
    <2>2. /\ Load(s, "collect", i) \in Carried /\ Load(s, "collect", i).op = "collect"
          /\ Load(s, "collect", i).invoice = i /\ Load(s, "collect", i).paid = paid[i]
      BY LoadIsCarried DEF Operation
    <2>3. req'[s].op = "collect" /\ req'[s].invoice = i /\ req'[s].paid = paid[i]
      BY <1>1, <2>1, <2>2 DEF Goes, Carried
    <2> QED BY <1>2, <2>3 DEF UpToDate
  <1>10. CASE ReadCredit(s)
    <2>1. /\ req[s].op = "cancel" /\ credit[req[s].note].state # "refunded"
          /\ Goes(s, [req[s] EXCEPT !.at = "post", !.was = credit[req[s].note].state])
      BY <1>10 DEF ReadCredit, Doing
    <2>2. /\ req'[s].op = "cancel" /\ req'[s].note = req[s].note /\ req'[s].at = "post"
          /\ req'[s].was = credit[req[s].note].state
      BY <1>1, <2>1 DEF Goes, Carried
    <2> QED BY <1>2, <2>1, <2>2 DEF UpToDate
  <1>11. CASE \/ CountReturns(s) \/ ResetInvoice(s) \/ ReturnLine(s) \/ PriceReturn(s)
              \/ WeighReturn(s) \/ ReadReturned(s) \/ ReadBalance(s)
    <2>1. /\ req'[s].op = req[s].op /\ req'[s].invoice = req[s].invoice
          /\ req'[s].paid = req[s].paid /\ req'[s].note = req[s].note
          /\ req'[s].was = req[s].was
      <3>1. CASE CountReturns(s)
        BY <1>1, <3>1 DEF CountReturns, Goes, Carried
      <3>2. CASE ResetInvoice(s)
        BY <1>1, <3>2, SMTT(30) DEF ResetInvoice, Goes, Carried
      <3>3. CASE ReturnLine(s)
        BY <1>1, <3>3, ZenonT(40) DEF ReturnLine, Goes, Carried
      <3>4. CASE PriceReturn(s)
        BY <1>1, <3>4 DEF PriceReturn, Goes, Carried
      <3>5. CASE WeighReturn(s)
        BY <1>1, <3>5 DEF WeighReturn, Goes, Carried
      <3>6. CASE ReadReturned(s)
        BY <1>1, <3>6 DEF ReadReturned, Goes, Carried
      <3>7. CASE ReadBalance(s)
        BY <1>1, <3>7 DEF ReadBalance, Goes, Carried
      <3> QED BY <1>11, <3>1, <3>2, <3>3, <3>4, <3>5, <3>6, <3>7
    <2>2. req[s].op # "cancel"
      BY <1>11 DEF UpToDate, CountReturns, ResetInvoice, ReturnLine, PriceReturn, WeighReturn,
                   ReadReturned, ReadBalance, Doing
    <2> QED BY <1>2, <2>1, <2>2 DEF UpToDate
  <1> QED
    BY <1>3, <1>4, <1>5, <1>6, <1>7, <1>8, <1>9, <1>10, <1>11 DEF Reads

\* The other sessions, when paid_amount and the credits stay.
LEMMA OthersUpToDate ==
    ASSUME TypeOK, NEW s \in Session, Step(s), paid' = paid, credit' = credit,
           \A t \in Session : UpToDate(t)
    PROVE  \A t \in Session : t # s => UpToDate(t)'
  BY OthersStay DEF UpToDate

LEMMA IdleUpToDate ==
    ASSUME TypeOK, NEW s \in Session, End(s)
    PROVE  UpToDate(s)'
  <1>1. req'[s] = Idle
    BY DEF TypeOK, End, Goes
  <1> QED BY <1>1 DEF UpToDate, Idle

LEMMA ReadSquared ==
    ASSUME TypeOK, Carrying, Squared, NEW s \in Session, Step(s), Reads(s)
    PROVE  Squared'
  <1>1. UNCHANGED <<documents, notes, books>>
    BY ReadsOnly
  <1>2. Assigned'
    BY StepAssigned DEF Squared
  <1>3. UpToDate(s)'
    BY ReadsUpToDate DEF Squared
  <1>4. \A t \in Session : t # s => UpToDate(t)'
    BY <1>1, OthersUpToDate DEF Squared, documents, notes
  <1>5. StatementAgrees' /\ TakenIsPaid' /\ CreditHasNote'
    BY <1>1 DEF Squared, StatementAgrees, TakenIsPaid, CreditHasNote, Live, documents, notes, books
  <1> QED BY <1>2, <1>3, <1>4, <1>5 DEF Squared

\* Steps that leave money, notes and credits alone: a sale, a receipt, a rollback.
LEMMA SaleSquared ==
    ASSUME TypeOK, Carrying, Squared, NEW s \in Session, Step(s),
           PostInvoice(s) \/ CreatePayment(s) \/ Abort(s)
    PROVE  Squared'
  <1>1. End(s) /\ UNCHANGED <<paid, notes, taken, paidOut, entered>>
    BY DEF PostInvoice, CreatePayment, Abort, documents, books
  <1>2. Assigned'
    BY StepAssigned DEF Squared
  <1>3. \A t \in Session : UpToDate(t)'
    BY <1>1, IdleUpToDate, OthersUpToDate DEF Squared, notes
  <1>4. \A i \in Invoice : Live(i) => Live(i)'
    <2>1. CASE PostInvoice(s)
      <3>1. req[s].bill \in Bill
        BY <2>1 DEF PostInvoice, Doing, Carrying, Sound
      <3>2. PICK i \in Invoice : bill' = [bill EXCEPT ![i] = req[s].bill]
        BY <2>1 DEF PostInvoice
      <3> QED BY <3>1, <3>2 DEF TypeOK, Live
    <2>2. CASE CreatePayment(s) \/ Abort(s)
      BY <2>2 DEF CreatePayment, Abort, documents, Live
    <2> QED BY <2>1, <2>2
  <1>5. \A i \in Invoice : taken'[i] = paid'[i] /\ (~Live(i)' => paid'[i] = 0)
    BY <1>1, <1>4 DEF Squared, TakenIsPaid
  <1>6. TakenIsPaid'
    BY <1>5 DEF TakenIsPaid, Live
  <1>7. StatementAgrees' /\ CreditHasNote'
    BY <1>1, <1>5 DEF Squared, StatementAgrees, CreditHasNote, Live, notes
  <1> QED BY <1>2, <1>3, <1>6, <1>7 DEF Squared

LEMMA CollectSquared ==
    ASSUME OneTill, TypeOK, Carrying, Squared, NEW s \in Session, Step(s), CollectPayment(s)
    PROVE  Squared'
  <1> DEFINE i == req[s].invoice
  <1>1. /\ req[s].op = "collect" /\ i \in Invoice /\ Live(i)
        /\ End(s) /\ UNCHANGED <<bill, back, notes, received, paidOut, entered>>
    BY DEF CollectPayment, Doing, Carrying, Sound
  <1>2. PICK amount \in Amount :
           /\ paid' = [paid EXCEPT ![i] = req[s].paid + amount]
           /\ taken' = [taken EXCEPT ![i] = @ + amount]
    BY DEF CollectPayment
  <1>3. req[s].paid = paid[i] /\ "collect" \in Duties[s]
    BY <1>1 DEF Squared, UpToDate, Assigned
  <1> HIDE DEF i
  <1>4. \A j \in Invoice : taken'[j] = paid'[j] /\ (~Live(j) => paid'[j] = 0)
    BY <1>1, <1>2, <1>3 DEF TypeOK, Squared, TakenIsPaid
  <1>5. \A t \in Session : t # s => UpToDate(t)'
    <2> SUFFICES ASSUME NEW t \in Session, t # s PROVE UpToDate(t)'
      OBVIOUS
    <2>1. req[t].op # "collect"
      BY <1>3 DEF OneTill, Squared, Assigned
    <2>2. req'[t] = req[t] /\ credit' = credit
      BY <1>1, OthersStay DEF notes
    <2> QED BY <2>1, <2>2 DEF Squared, UpToDate
  <1>6. Assigned'
    BY StepAssigned DEF Squared
  <1>7. UpToDate(s)'
    BY <1>1, IdleUpToDate
  <1>8. StatementAgrees' /\ TakenIsPaid' /\ CreditHasNote'
    BY <1>1, <1>4 DEF Squared, StatementAgrees, TakenIsPaid, CreditHasNote, Live, notes
  <1> QED BY <1>5, <1>6, <1>7, <1>8 DEF Squared

\* A credit in the hands of one desk: what the others have loaded is not it.
LEMMA DeskSquared ==
    ASSUME OneTill, TypeOK, Carrying, Squared, NEW s \in Session, Step(s),
           ResolveCredit(s) \/ RefundCredit(s) \/ CancelNote(s)
    PROVE  Squared'
  <1> DEFINE n == req[s].note
  <1>1. /\ req[s].op \in AtTheDesk /\ n \in Note /\ req[s].op \in Duties[s]
        /\ End(s) /\ UNCHANGED <<bill, paid, taken>>
    BY DocumentAssumption DEF ResolveCredit, RefundCredit, CancelNote, Doing, Carrying, Sound,
           AtTheDesk, Squared, Assigned, documents, books
  <1>2. \A t \in Session : t # s => UpToDate(t)'
    <2> SUFFICES ASSUME NEW t \in Session, t # s PROVE UpToDate(t)'
      OBVIOUS
    <2>1. req[t].op \notin AtTheDesk
      BY <1>1 DEF OneTill, Squared, Assigned, AtTheDesk
    <2>2. req'[t] = req[t]
      BY OthersStay
    <2> QED BY <1>1, <2>1, <2>2 DEF Squared, UpToDate, AtTheDesk
  <1>3. Assigned' /\ UpToDate(s)'
    BY <1>1, StepAssigned, IdleUpToDate DEF Squared
  <1>4. /\ credit[n] \in [state : CreditState, amount : Nat] /\ note[n] \in Written
        /\ paidOut[n] \in Nat /\ entered[n] \in Int
    BY <1>1 DEF TypeOK
  <1>5. UpToDate(s)
    BY DEF Squared
  <1>6. CreditHasNote /\ TakenIsPaid /\ StatementAgrees
    BY DEF Squared
  <1>7. TakenIsPaid'
    BY <1>1, <1>6 DEF TakenIsPaid, Live
  <1>8. CASE ResolveCredit(s)
    <2>1. PICK r \in {"awaiting_refund", "credited"} :
             credit' = [credit EXCEPT ![n].state = r]
      BY <1>8 DEF ResolveCredit
    <2>2. credit[n].state = "pending" /\ UNCHANGED <<note, entered, paidOut>>
      BY <1>5, <1>8 DEF ResolveCredit, Doing, UpToDate, books
    <2> HIDE DEF n
    <2>3. \A m \in Note : IF m = n THEN credit'[m].state = r
                          ELSE credit'[m] = credit[m]
      BY <1>1, <1>4, <2>1 DEF TypeOK
    <2>4. CreditHasNote'
      BY <1>6, <2>2, <2>3 DEF CreditHasNote
    <2>5. StatementAgrees'
      BY <1>1, <1>6, <2>2, <2>3 DEF StatementAgrees, Live
    <2> QED BY <1>2, <1>3, <1>7, <2>4, <2>5 DEF Squared
  <1>9. CASE RefundCredit(s)
    <2>1. /\ credit' = [credit EXCEPT ![n].state = "refunded"]
          /\ paidOut' = [paidOut EXCEPT ![n] = @ + credit[n].amount]
          /\ UNCHANGED <<note, entered>>
      BY <1>9 DEF RefundCredit
    <2>2. credit[n].state = "awaiting_refund"
      BY <1>5, <1>9 DEF RefundCredit, Doing, UpToDate
    <2> HIDE DEF n
    <2>3. \A m \in Note : IF m = n THEN /\ credit'[m].state = "refunded"
                                        /\ credit'[m].amount = credit[m].amount
                                        /\ paidOut'[m] = paidOut[m] + credit[m].amount
                          ELSE credit'[m] = credit[m] /\ paidOut'[m] = paidOut[m]
      BY <1>1, <1>4, <2>1 DEF TypeOK
    <2>4. CreditHasNote'
      BY <1>6, <2>1, <2>2, <2>3 DEF CreditHasNote
    <2>5. paidOut[n] = 0
      BY <1>1, <1>6, <2>2 DEF StatementAgrees
    <2>6. StatementAgrees'
      BY <1>1, <1>4, <1>6, <2>1, <2>3, <2>5 DEF StatementAgrees, Live
    <2> QED BY <1>2, <1>3, <1>7, <2>4, <2>6 DEF Squared
  <1>10. CASE CancelNote(s)
    <2>1. /\ note' = [note EXCEPT ![n].status = "cancelled"]
          /\ entered' = [entered EXCEPT ![n] = @ - note[n].total]
          /\ credit' = [credit EXCEPT ![n].state =
                            IF req[s].was = "none" THEN @ ELSE "deleted"]
          /\ UNCHANGED paidOut
      BY <1>10 DEF CancelNote
    <2>2. /\ req[s].was = credit[n].state /\ req[s].was # "refunded"
          /\ note[n].status = "posted"
      BY <1>5, <1>10 DEF CancelNote, Doing, UpToDate, Carrying, Sound
    <2> HIDE DEF n
    <2>3. \A m \in Note : IF m = n THEN /\ note'[m].status = "cancelled"
                                        /\ entered'[m] = entered[m] - note[m].total
                                        /\ credit'[m].state \in {"none", "deleted"}
                          ELSE /\ note'[m] = note[m] /\ entered'[m] = entered[m]
                               /\ credit'[m] = credit[m]
      BY <1>1, <1>4, <2>1, <2>2 DEF TypeOK, Written
    <2>4. CreditHasNote'
      BY <1>6, <2>3 DEF CreditHasNote
    <2>5. entered[n] = note[n].total /\ paidOut[n] = 0 /\ note[n].total \in Int
      BY <1>1, <1>4, <1>6, <2>2 DEF StatementAgrees, Written
    <2>6. StatementAgrees'
      BY <1>1, <1>4, <1>6, <2>1, <2>3, <2>5 DEF StatementAgrees, Live
    <2> QED BY <1>2, <1>3, <1>7, <2>4, <2>6 DEF Squared
  <1> QED BY <1>8, <1>9, <1>10

LEMMA ReturnSquared ==
    ASSUME TypeOK, Carrying, Squared, NEW s \in Session, Step(s), PostReturn(s)
    PROVE  Squared'
  <1>1. PICK n, x :
           /\ n \in Note
           /\ note[n].status = "none"
           /\ note' = [note EXCEPT ![n] = x] /\ x.status = "posted" /\ x.total = NoteTotal(s)
           /\ entered' = [entered EXCEPT ![n] = @ + x.total]
           /\ credit' = IF req[s].over > 0
                        THEN [credit EXCEPT ![n] = [state |-> "pending", amount |-> req[s].over]]
                        ELSE credit
    <2>1. PICK n \in Note :
             /\ note[n].status = "none"
             /\ LET i == req[s].invoice
                    x == [invoice |-> i, status |-> "posted", units |-> req[s].take,
                          sub |-> req[s].asked * bill[i].price,
                          discount |-> req[s].sum, total |-> NoteTotal(s)]
                IN  /\ note' = [note EXCEPT ![n] = x]
                    /\ entered' = [entered EXCEPT ![n] = @ + x.total]
             /\ credit' = IF req[s].over > 0
                          THEN [credit EXCEPT ![n] = [state |-> "pending", amount |-> req[s].over]]
                          ELSE credit
      BY DEF PostReturn, IsNext
    <2> QED BY <2>1
  <1>2. End(s) /\ UNCHANGED <<bill, paid, taken, paidOut>>
    BY DEF PostReturn
  <1>3. NoteTotal(s) \in Int /\ entered[n] \in Int
    BY <1>1, NoteTotalType DEF PostReturn, Doing, Carrying, Sound, TypeOK
  <1>4. CreditHasNote /\ TakenIsPaid /\ StatementAgrees
    BY DEF Squared
  <1>5. credit[n].state \in {"none", "deleted"} /\ paidOut[n] = 0 /\ entered[n] = 0
    BY <1>1, <1>4 DEF CreditHasNote, StatementAgrees
  <1>6. \A m \in Note : IF m = n THEN /\ note'[m].status = "posted"
                                      /\ note'[m].total = NoteTotal(s)
                                      /\ entered'[m] = NoteTotal(s)
                                      /\ credit'[m].state # "refunded"
                        ELSE /\ note'[m] = note[m] /\ entered'[m] = entered[m]
                             /\ credit'[m] = credit[m]
    BY <1>1, <1>3, <1>5 DEF TypeOK
  <1>7. \A t \in Session : t # s => UpToDate(t)'
    <2> SUFFICES ASSUME NEW t \in Session, t # s PROVE UpToDate(t)'
      OBVIOUS
    <2>1. req'[t] = req[t] /\ UpToDate(t) /\ Sound(t, req[t])
      BY OthersStay DEF Squared, Carrying
    <2>2. req[t].op \in AtTheDesk => req[t].note \in Note
      BY <2>1 DEF Sound, AtTheDesk
    <2>3. req[t].op \in {"resolve", "refund"} => req[t].note # n
      BY <1>5, <2>1 DEF UpToDate
    <2>4. req[t].op = "cancel" => req[t].note # n
      BY <1>1, <2>1 DEF Sound
    <2> QED BY <1>2, <1>6, <2>1, <2>2, <2>3, <2>4 DEF UpToDate, AtTheDesk
  <1>8. Assigned' /\ UpToDate(s)'
    BY <1>2, StepAssigned, IdleUpToDate DEF Squared
  <1>9. TakenIsPaid'
    BY <1>2, <1>4 DEF TakenIsPaid, Live
  <1>10. CreditHasNote'
    BY <1>4, <1>6 DEF CreditHasNote
  <1>11. StatementAgrees'
    BY <1>2, <1>4, <1>5, <1>6 DEF StatementAgrees, Live
  <1> QED BY <1>7, <1>8, <1>9, <1>10, <1>11 DEF Squared

LEMMA StepSquared ==
    ASSUME OneTill, TypeOK, Carrying, Squared, NEW s \in Session, Step(s)
    PROVE  Squared'
  <1>1. CASE Reads(s)
    BY <1>1, ReadSquared
  <1>2. CASE PostInvoice(s) \/ CreatePayment(s) \/ Abort(s)
    BY <1>2, SaleSquared
  <1>3. CASE CollectPayment(s)
    BY <1>3, CollectSquared
  <1>4. CASE ResolveCredit(s) \/ RefundCredit(s) \/ CancelNote(s)
    BY <1>4, DeskSquared
  <1>5. CASE PostReturn(s)
    BY <1>5, ReturnSquared
  <1>6. ~(RepostInvoice(s) \/ DeleteInvoice(s))
    BY DEF RepostInvoice, DeleteInvoice, Doing, Squared, Assigned, OneTill
  <1> QED BY <1>1, <1>2, <1>3, <1>4, <1>5, <1>6 DEF Step, Reads

LEMMA SquaredSpec == OneTill => (Spec => [](Squared))
  <1>1. Init => TypeOK /\ Carrying /\ Squared
    BY InitType, InitCarrying, InitSquared
  <1>2. OneTill /\ TypeOK /\ Carrying /\ Squared /\ [Next]_vars
           => TypeOK' /\ Carrying' /\ Squared'
    <2> SUFFICES ASSUME OneTill, TypeOK, Carrying, Squared, [Next]_vars
                 PROVE  TypeOK' /\ Carrying' /\ Squared'
      OBVIOUS
    <2>1. TypeOK' /\ Carrying'
      BY NextCarrying
    <2>2. CASE Next
      BY <2>1, <2>2, StepSquared DEF Next
    <2>3. CASE UNCHANGED vars
      BY <2>1, <2>3 DEF vars, documents, notes, books, Squared, Assigned, StatementAgrees,
                        TakenIsPaid, CreditHasNote, UpToDate, Live
    <2> QED BY <2>1, <2>2, <2>3
  <1>3. SUFFICES ASSUME OneTill PROVE Spec => []Squared
    OBVIOUS
  <1>4. TypeOK /\ Carrying /\ Squared /\ [Next]_vars => (TypeOK /\ Carrying /\ Squared)'
    BY <1>2, <1>3
  <1> QED BY <1>1, <1>4, PTL DEF Spec

\* What the customer's statement says and what the account says never differ,
\* document by document, under one till and one desk.
THEOREM StatementAlwaysAgrees ==
    ASSUME OneTill
    PROVE  Spec => []StatementAgrees
  <1>1. Spec => []Squared
    BY SquaredSpec
  <1>2. Squared => StatementAgrees
    BY DEF Squared
  <1> QED BY <1>1, <1>2, PTL

\* A note whose credit was paid out in cash is never undone.
THEOREM RefundsAlwaysStand ==
    ASSUME OneTill
    PROVE  Spec => []RefundStands
  <1>1. Spec => []Squared
    BY SquaredSpec
  <1>2. Squared => RefundStands
    BY DEF Squared, StatementAgrees, CreditHasNote, RefundStands
  <1> QED BY <1>1, <1>2, PTL

-----------------------------------------------------------------------------
(***************************************************************************)
(* A posted return freezes its invoice, as long as whoever edits is the    *)
(* only one who takes back.  Deletions need no such duty: the rows that    *)
(* refer to the invoice stop them.                                         *)
(***************************************************************************)

EditorReturns ==
    \A s, t \in Session : "update" \in Duties[s] /\ "return" \in Duties[t] => s = t

PostedOn(n, i) == note[n].status = "posted" /\ note[n].invoice = i

\* An edit past its count found no return, and none was posted since.
Uncredited(r) ==
    r.op = "update" /\ r.at # "count" => \A n \in Note : ~PostedOn(n, r.invoice)

Frozen ==
    /\ Assigned
    /\ \A n \in Note : note[n].status = "posted" => bill[note[n].invoice] # None
    /\ \A s \in Session : Uncredited(req[s])

LEMMA InitFrozen == Init => Frozen
  <1> SUFFICES ASSUME Init PROVE Frozen
    OBVIOUS
  <1>1. \A s \in Session : req[s].op = "none"
    BY DEF Init, Idle
  <1>2. \A n \in Note : note[n].status = "none"
    BY DEF Init, Unwritten
  <1> QED BY <1>1, <1>2 DEF Frozen, Assigned, Uncredited

\* Only the count of the returns takes an edit past it.
LEMMA ReadsUncredited ==
    ASSUME TypeOK, NEW s \in Session, Reads(s), Uncredited(req[s])
    PROVE  Uncredited(req[s])'
  <1>1. req[s] \in Carried /\ req \in [Session -> Carried]
    BY DEF TypeOK
  <1>2. note' = note
    BY ReadsOnly DEF notes
  <1>3. CASE BeginEdit(s)
    <2>1. PICK i \in Invoice :
             \/ \E d \in Bill : Goes(s, [Load(s, "update", i) EXCEPT !.bill = d, !.at = "count"])
             \/ Goes(s, [Load(s, "delete", i) EXCEPT !.at = "count"])
      BY <1>3 DEF BeginEdit
    <2>2. Load(s, "update", i) \in Carried /\ Load(s, "delete", i) \in Carried
      BY LoadIsCarried DEF Operation
    <2>3. CASE Goes(s, [Load(s, "delete", i) EXCEPT !.at = "count"])
      <3>1. req'[s].at = "count"
        BY <1>1, <2>2, <2>3 DEF Goes, Carried
      <3> QED BY <3>1 DEF Uncredited
    <2>4. ASSUME NEW d \in Bill,
                 Goes(s, [Load(s, "update", i) EXCEPT !.bill = d, !.at = "count"])
          PROVE  Uncredited(req[s])'
      <3>1. req'[s].at = "count"
        BY <1>1, <2>2, <2>4 DEF Goes, Carried
      <3> QED BY <3>1 DEF Uncredited
    <2> QED BY <2>1, <2>3, <2>4
  <1>4. CASE CountReturns(s)
    <2>1. \A n \in Note : ~PostedOn(n, req[s].invoice)
      BY <1>4 DEF CountReturns, PostedOn
    <2>2. req'[s].invoice = req[s].invoice
      BY <1>1, <1>4 DEF CountReturns, Goes, Carried
    <2> QED BY <1>2, <2>1, <2>2 DEF Uncredited, PostedOn
  <1>5. CASE ResetInvoice(s) \/ ReadBalance(s)
    <2>1. req[s].at # "count"
      BY <1>5 DEF ResetInvoice, ReadBalance, Doing
    <2>2. req'[s].op = req[s].op /\ req'[s].invoice = req[s].invoice
      <3>1. CASE ResetInvoice(s)
        BY <1>1, <3>1 DEF ResetInvoice, Goes, Carried
      <3>2. CASE ReadBalance(s)
        BY <1>1, <3>2 DEF ReadBalance, Goes, Carried
      <3> QED BY <1>5, <3>1, <3>2
    <2> QED BY <1>2, <2>1, <2>2 DEF Uncredited, PostedOn
  <1>6. CASE BeginInvoice(s) \/ BeginReceipt(s) \/ BeginCancel(s) \/ BeginResolve(s) \/ BeginRefund(s)
    <2>1. CASE BeginInvoice(s)
      <3>1. req'[s].op = "invoice"
        BY <1>1, <2>1 DEF BeginInvoice, Goes, Idle
      <3> QED BY <3>1 DEF Uncredited
    <2>2. CASE BeginReceipt(s)
      <3>1. req'[s].op = "receipt"
        BY <1>1, <2>2 DEF BeginReceipt, Goes, Idle
      <3> QED BY <3>1 DEF Uncredited
    <2>3. CASE BeginCancel(s)
      <3>1. req'[s].op = "cancel"
        BY <1>1, <2>3 DEF BeginCancel, Goes, Idle
      <3> QED BY <3>1 DEF Uncredited
    <2>4. CASE BeginResolve(s)
      <3>1. req'[s].op = "resolve"
        BY <1>1, <2>4 DEF BeginResolve, Goes, Idle
      <3> QED BY <3>1 DEF Uncredited
    <2>5. CASE BeginRefund(s)
      <3>1. req'[s].op = "refund"
        BY <1>1, <2>5 DEF BeginRefund, Goes, Idle
      <3> QED BY <3>1 DEF Uncredited
    <2> QED BY <1>6, <2>1, <2>2, <2>3, <2>4, <2>5
  <1>7. CASE BeginReturn(s)
    <2>1. PICK i \in Invoice :
             \E q, u : Goes(s, [Load(s, "return", i) EXCEPT !.at = "lines", !.asked = q,
                                                            !.left = q, !.seen = u])
      BY <1>7 DEF BeginReturn
    <2>2. Load(s, "return", i) \in Carried /\ Load(s, "return", i).op = "return"
      BY LoadIsCarried DEF Operation
    <2>3. req'[s].op = "return"
      BY <1>1, <2>1, <2>2 DEF Goes, Carried
    <2> QED BY <2>3 DEF Uncredited
  <1>8. CASE BeginCollect(s)
    <2>1. PICK i \in Invoice :
             Goes(s, [Load(s, "collect", i) EXCEPT !.bill = bill[i], !.at = "returned"])
      BY <1>8 DEF BeginCollect
    <2>2. Load(s, "collect", i) \in Carried /\ Load(s, "collect", i).op = "collect"
      BY LoadIsCarried DEF Operation
    <2>3. req'[s].op = "collect"
      BY <1>1, <2>1, <2>2 DEF Goes, Carried
    <2> QED BY <2>3 DEF Uncredited
  <1>9. CASE ReturnLine(s) \/ PriceReturn(s) \/ WeighReturn(s) \/ ReadCredit(s) \/ ReadReturned(s)
    <2>1. req[s].op \in {"return", "cancel", "collect"}
      BY <1>9 DEF ReturnLine, PriceReturn, WeighReturn, ReadCredit, ReadReturned, Doing
    <2>2. req'[s].op = req[s].op
      <3>1. CASE ReturnLine(s)
        BY <1>1, <3>1 DEF ReturnLine, Goes, Carried
      <3>2. CASE PriceReturn(s)
        BY <1>1, <3>2 DEF PriceReturn, Goes, Carried
      <3>3. CASE WeighReturn(s)
        BY <1>1, <3>3 DEF WeighReturn, Goes, Carried
      <3>4. CASE ReadCredit(s)
        BY <1>1, <3>4 DEF ReadCredit, Goes, Carried
      <3>5. CASE ReadReturned(s)
        BY <1>1, <3>5 DEF ReadReturned, Goes, Carried
      <3> QED BY <1>9, <3>1, <3>2, <3>3, <3>4, <3>5, SMTT(30)
    <2> QED BY <2>1, <2>2, SMTT(30) DEF Uncredited
  <1> QED BY <1>3, <1>4, <1>5, <1>6, <1>7, <1>8, <1>9 DEF Reads

\* Which steps write what: the notes and the documents.
LEMMA WhoWrites ==
    ASSUME NEW s \in Session, Step(s)
    PROVE  /\ Reads(s) \/ End(s)
           /\ ~(PostReturn(s) \/ CancelNote(s)) => note' = note
           /\ ~(PostInvoice(s) \/ RepostInvoice(s) \/ DeleteInvoice(s)) => bill' = bill
  <1>1. CASE Reads(s)
    <2>1. UNCHANGED <<documents, notes, books>>
      BY <1>1, ReadsOnly
    <2> QED BY <1>1, <2>1 DEF documents, notes
  <1>2. CASE PostInvoice(s) \/ RepostInvoice(s) \/ DeleteInvoice(s)
    BY <1>2, SMTT(30) DEF PostInvoice, RepostInvoice, DeleteInvoice, notes
  <1>3. CASE PostReturn(s) \/ CancelNote(s)
    BY <1>3 DEF PostReturn, CancelNote
  <1>4. CASE ResolveCredit(s) \/ RefundCredit(s) \/ CollectPayment(s) \/ CreatePayment(s) \/ Abort(s)
    BY <1>4 DEF ResolveCredit, RefundCredit, CollectPayment, CreatePayment, Abort,
                documents, notes
  <1> QED BY <1>1, <1>2, <1>3, <1>4 DEF Step, Reads

\* A document of an invoice with a posted return stays.
LEMMA StepFreezes ==
    ASSUME TypeOK, Carrying, Frozen, NEW s \in Session, Step(s),
           NEW n \in Note, note[n].status = "posted"
    PROVE  bill'[note[n].invoice] = bill[note[n].invoice]
  <1> DEFINE j == note[n].invoice
  <1>1. j \in Invoice /\ bill[j] # None
    BY DEF Carrying, Frozen
  <1>2. CASE PostInvoice(s)
    <2>1. PICK i \in Invoice : bill[i] = None /\ bill' = [bill EXCEPT ![i] = req[s].bill]
      BY <1>2 DEF PostInvoice, IsNext
    <2> QED BY <1>1, <2>1 DEF TypeOK
  <1>3. CASE RepostInvoice(s)
    <2>1. req[s].invoice # j
      BY <1>3 DEF RepostInvoice, Doing, Frozen, Uncredited, PostedOn
    <2>2. bill' = [bill EXCEPT ![req[s].invoice] = req[s].bill]
      BY <1>3 DEF RepostInvoice
    <2> QED BY <1>1, <2>1, <2>2 DEF TypeOK
  <1>4. CASE DeleteInvoice(s)
    <2>1. /\ bill' = [bill EXCEPT ![req[s].invoice] = Deleted]
          /\ j # req[s].invoice
      BY <1>4 DEF DeleteInvoice
    <2> QED BY <1>1, <2>1 DEF TypeOK
  <1> QED BY <1>2, <1>3, <1>4, WhoWrites

LEMMA StepFrozen ==
    ASSUME EditorReturns, TypeOK, Carrying, Frozen, NEW s \in Session, Step(s)
    PROVE  Frozen'
  <1>1. Assigned'
    BY StepAssigned DEF Frozen
  <1>2. CASE PostReturn(s)
    <2>1. req[s].op = "return" /\ Live(req[s].invoice) /\ End(s) /\ bill' = bill
      BY <1>2 DEF PostReturn, Doing, Carrying, Sound
    <2>2. \A t \in Session : req'[t].op # "update"
      <3>1. req'[s] = Idle
        BY <2>1 DEF End, Goes, TypeOK
      <3>2. ASSUME NEW t \in Session, t # s PROVE req[t].op # "update"
        BY <2>1, <3>2 DEF EditorReturns, Frozen, Assigned
      <3> QED BY <3>1, <3>2, OthersStay DEF Idle
    <2> DEFINE x == [invoice |-> req[s].invoice, status |-> "posted", units |-> req[s].take,
                     sub |-> req[s].asked * bill[req[s].invoice].price,
                     discount |-> req[s].sum, total |-> NoteTotal(s)]
    <2>3. x.invoice = req[s].invoice /\ \E n \in Note : note' = [note EXCEPT ![n] = x]
      BY <1>2 DEF PostReturn
    <2> HIDE DEF x
    <2>4. bill[req[s].invoice] # None
      BY <2>1, DocumentAssumption DEF Live
    <2>5. \A m \in Note : note'[m].status = "posted" => bill'[note'[m].invoice] # None
      BY <2>1, <2>3, <2>4 DEF Frozen, TypeOK
    <2> QED BY <1>1, <2>2, <2>5 DEF Frozen, Uncredited
  <1>3. CASE ~PostReturn(s)
    <2>1. \A m \in Note : note'[m].status = "posted" => note[m].status = "posted"
                                                     /\ note'[m].invoice = note[m].invoice
      <3>1. CASE CancelNote(s)
        <4>1. req[s].note \in Note /\ note' = [note EXCEPT ![req[s].note].status = "cancelled"]
          BY <3>1 DEF CancelNote, Doing, Carrying, Sound
        <4> QED BY <4>1 DEF TypeOK, Written
      <3>2. CASE ~CancelNote(s)
        BY <1>3, <3>2, WhoWrites
      <3> QED BY <3>1, <3>2
    <2>2. \A m \in Note : note'[m].status = "posted" => bill'[note'[m].invoice] # None
      BY <2>1, StepFreezes DEF Frozen
    <2>3. Uncredited(req[s])'
      <3>1. CASE Reads(s)
        BY <3>1, ReadsUncredited DEF Frozen
      <3>2. CASE End(s)
        <4>1. req'[s] = Idle
          BY <3>2 DEF End, Goes, TypeOK
        <4> QED BY <4>1 DEF Uncredited, Idle
      <3> QED BY <3>1, <3>2, WhoWrites
    <2>4. ASSUME NEW t \in Session, t # s PROVE Uncredited(req[t])'
      <3>1. req'[t] = req[t] /\ Uncredited(req[t])
        BY <2>4, OthersStay DEF Frozen
      <3> QED BY <2>1, <3>1 DEF Uncredited, PostedOn
    <2> QED BY <1>1, <2>2, <2>3, <2>4 DEF Frozen
  <1> QED BY <1>2, <1>3

\* While an invoice has a posted return nobody edits or deletes it, whatever
\* interleaves, if whoever edits is the only one who takes back.
THEOREM ReturnsAlwaysFreeze ==
    ASSUME EditorReturns
    PROVE  Spec => ReturnsFreezeInvoice
  <1> DEFINE A == \A n \in Note : note[n].status = "posted" =>
                      bill'[note[n].invoice] = bill[note[n].invoice]
  <1>1. Init => TypeOK /\ Carrying /\ Frozen
    BY InitType, InitCarrying, InitFrozen
  <1>2. TypeOK /\ Carrying /\ Frozen /\ [Next]_vars => (TypeOK /\ Carrying /\ Frozen)'
    <2> SUFFICES ASSUME TypeOK, Carrying, Frozen, [Next]_vars
                 PROVE  TypeOK' /\ Carrying' /\ Frozen'
      OBVIOUS
    <2>1. TypeOK' /\ Carrying'
      BY NextCarrying
    <2>2. CASE Next
      BY <2>1, <2>2, StepFrozen DEF Next
    <2>3. CASE UNCHANGED vars
      BY <2>1, <2>3 DEF vars, documents, notes, Frozen, Assigned, Uncredited, PostedOn
    <2> QED BY <2>1, <2>2, <2>3
  <1>3. TypeOK /\ Carrying /\ Frozen /\ [Next]_vars => [A]_vars
    BY StepFreezes DEF Next
  <1> HIDE DEF A
  <1>4. Spec => [][A]_vars
    BY <1>1, <1>2, <1>3, PTL DEF Spec
  <1> QED BY <1>4 DEF A, ReturnsFreezeInvoice

-----------------------------------------------------------------------------
(***************************************************************************)
(* The credit limit.  The balance is read in four statements, and what is  *)
(* read may be out of date when it is compared: as long as only the seller *)
(* does what raises a balance and one session collects, the figure can     *)
(* only be too high.  Of discounted documents it need not be so: a note    *)
(* may then be worth less than nothing (README, section 4).                *)
(***************************************************************************)

Raises == {"invoice", "update", "delete", "cancel", "refund"}

OneSeller ==
    /\ \A d \in Bill : d.discount = 0
    /\ \A s, t \in Session :
          /\ "invoice" \in Duties[s] /\ Duties[t] \cap Raises # {} => s = t
          /\ "collect" \in Duties[s] /\ "collect" \in Duties[t] => s = t

DueOf == [i \in Invoice |-> Due(i)]

BackOf == [i \in Invoice |-> back[i].total]

PaidBackOf == [n \in Note |-> IF credit[n].state = "refunded" THEN credit[n].amount ELSE 0]

\* The terms of the balance a session has read.
ReadSoFar(k) ==
    (IF k > 1 THEN SumFunction(DueOf) ELSE 0) - (IF k > 2 THEN Returned ELSE 0)
        - (IF k > 3 THEN received ELSE 0) + (IF k > 4 THEN PaidBack ELSE 0)

\* What a session has added up, and what it may rely on between its steps.
Adding(s) ==
    /\ req[s].at = "idle" => balance[s] = 0
    /\ req[s].at \notin {"balance", "post"} => req[s].term = 1
    /\ req[s].at = "balance" => req[s].term \in 1..4
    /\ req[s].op = "invoice" => req[s].at \in {"balance", "post"}
    /\ req[s].op = "invoice" /\ req[s].bill.method = "credit" =>
          /\ req[s].at = "post" => req[s].term = 5
          /\ balance[s] >= ReadSoFar(req[s].term)
    /\ req[s].op = "collect" => req[s].paid >= paid[req[s].invoice]
    /\ req[s].op = "return" => req[s].sum = 0
    /\ req[s].op = "update" => bill[req[s].invoice] # None

Limited ==
    /\ Assigned
    /\ balance \in [Session -> Int]
    /\ \A i \in Invoice : bill[i] = None => paid[i] = 0
    /\ \A s \in Session : Adding(s)


LEMMA InitLimited == Init => Limited
  <1> SUFFICES ASSUME Init PROVE Limited
    OBVIOUS
  <1>1. \A s \in Session : /\ req[s].op = "none" /\ req[s].at = "idle" /\ req[s].term = 1
                           /\ balance[s] = 0
    BY DEF Init, Idle
  <1>2. \A i \in Invoice : paid[i] = 0
    BY DEF Init
  <1>3. balance \in [Session -> Int]
    BY DEF Init
  <1> QED BY <1>1, <1>2, <1>3 DEF Limited, Assigned, Adding

-----------------------------------------------------------------------------
(* The figures. *)

LEMMA DueType ==
    ASSUME TypeOK, NEW i \in Invoice
    PROVE  Due(i) \in Int
  <1>1. paid[i] \in Nat
    BY DEF TypeOK
  <1>2. Live(i) => Total(bill[i]) \in Int
    BY DocumentFields DEF Live
  <1> QED BY <1>1, <1>2 DEF Due

LEMMA FigureTypes ==
    ASSUME TypeOK
    PROVE  /\ Whole(DueOf, Invoice) /\ Whole(BackOf, Invoice) /\ Whole(PaidBackOf, Note)
           /\ SumFunction(DueOf) \in Int /\ Returned \in Int /\ PaidBack \in Int
           /\ received \in Nat
  <1>1. Whole(DueOf, Invoice)
    BY DueType DEF DueOf, Whole
  <1>2. Whole(BackOf, Invoice)
    BY DEF BackOf, Whole, TypeOK, Sums
  <1>3. Whole(PaidBackOf, Note)
    BY DEF PaidBackOf, Whole, TypeOK
  <1>4. /\ DOMAIN DueOf = Invoice /\ DOMAIN BackOf = Invoice /\ DOMAIN PaidBackOf = Note
        /\ IsFiniteSet(Invoice) /\ IsFiniteSet(Note)
    BY DocumentAssumption DEF DueOf, BackOf, PaidBackOf
  <1>5. SumFunction(DueOf) \in Int
    BY <1>1, <1>4, SumInt DEF SumFunction
  <1>6. Returned \in Int
    BY <1>2, <1>4, SumInt DEF SumFunction, Returned, BackOf
  <1>7. PaidBack \in Int
    BY <1>3, <1>4, SumInt DEF SumFunction, PaidBack, PaidBackOf
  <1> QED BY <1>1, <1>2, <1>3, <1>5, <1>6, <1>7 DEF TypeOK

LEMMA TermType ==
    ASSUME TypeOK, NEW s \in Session, NEW k \in 1..4
    PROVE  BalanceTerm(s, k) \in Int
  <1> DEFINE f == [i \in Invoice |-> IF Live(i) THEN Owing(s, i) ELSE 0]
  <1>1. Whole(f, Invoice)
    <2> SUFFICES ASSUME NEW i \in Invoice, Live(i) PROVE Owing(s, i) \in Int
      BY DEF Whole
    <2>1. paid[i] \in Nat /\ Total(bill[i]) \in Int
      BY DocumentFields DEF TypeOK, Live
    <2> QED BY <2>1 DEF Owing
  <1>2. DOMAIN f = Invoice /\ IsFiniteSet(Invoice)
    BY DocumentAssumption
  <1> HIDE DEF f
  <1>3. SumFunction(f) \in Int
    BY <1>1, <1>2, SumInt DEF SumFunction
  <1>4. Returned \in Int /\ PaidBack \in Int /\ received \in Nat
    BY FigureTypes
  <1>5. CASE k = 1
    BY <1>3, <1>5 DEF BalanceTerm, f
  <1>6. CASE k \in {2, 3, 4}
    BY <1>4, <1>6 DEF BalanceTerm
  <1> QED BY <1>5, <1>6

\* A request that does not edit reads what the balance is made of.
LEMMA TermRead ==
    ASSUME TypeOK, NEW s \in Session, req[s].op # "update", NEW k \in 1..4
    PROVE  ReadSoFar(k + 1) = ReadSoFar(k) + BalanceTerm(s, k) /\ ReadSoFar(k) \in Int
  <1>1. SumFunction(DueOf) \in Int /\ Returned \in Int /\ PaidBack \in Int /\ received \in Int
    BY FigureTypes
  <1>2. BalanceTerm(s, 1) = SumFunction(DueOf)
    <2>1. [i \in Invoice |-> IF Live(i) THEN Owing(s, i) ELSE 0] = DueOf
      BY DEF DueOf, Owing, Due
    <2>2. BalanceTerm(s, 1) = SumFunction([i \in Invoice |-> IF Live(i) THEN Owing(s, i) ELSE 0])
      BY DEF BalanceTerm
    <2> QED BY <2>1, <2>2
  <1>3. /\ BalanceTerm(s, 2) = -Returned /\ BalanceTerm(s, 3) = -received
        /\ BalanceTerm(s, 4) = PaidBack
    BY DEF BalanceTerm
  <1>4. CASE k = 1
    BY <1>1, <1>2, <1>4 DEF ReadSoFar
  <1>5. CASE k = 2
    BY <1>1, <1>3, <1>5 DEF ReadSoFar
  <1>6. CASE k = 3
    BY <1>1, <1>3, <1>6 DEF ReadSoFar
  <1>7. CASE k = 4
    BY <1>1, <1>3, <1>7 DEF ReadSoFar
  <1> QED BY <1>4, <1>5, <1>6, <1>7

LEMMA QuotientIsNatural ==
    ASSUME NEW a \in Nat, NEW b \in Nat \ {0}
    PROVE  RoundHalfUp(a, b) \in Nat
  <1>1. 2 * a + b \in Nat /\ 2 * b \in Nat \ {0}
    OBVIOUS
  <1>2. \A x \in Nat, y \in Nat \ {0} : x \div y \in Nat
    OBVIOUS
  <1> QED BY <1>1, <1>2 DEF RoundHalfUp

\* Without a discount a note is worth what it takes back and the tax on it.
LEMMA NoteIsWorth ==
    ASSUME TypeOK, Carrying, NEW s \in Session,
           req[s].op = "return", req[s].sum = 0
    PROVE  NoteTotal(s) \in Nat
  <1> DEFINE d == bill[req[s].invoice]
             sub == req[s].asked * d.price
  <1>1. d \in Bill /\ req[s].asked \in Nat
    BY DEF Carrying, Sound, Live, TypeOK, Carried
  <1>2. d.price \in Nat /\ d.vat \in Nat /\ d.subtotal \in Nat
    BY <1>1, DocumentFields
  <1>3. sub \in Nat
    BY <1>1, <1>2
  <1> HIDE DEF d, sub
  <1>4. TaxShare(d, sub) \in Nat
    <2>1. CASE d.vat = 0 \/ d.subtotal = 0
      BY <2>1 DEF TaxShare
    <2>2. CASE ~(d.vat = 0 \/ d.subtotal = 0)
      <3>1. sub * d.vat \in Nat /\ d.subtotal \in Nat \ {0}
        BY <1>2, <1>3, <2>2
      <3>2. RoundHalfUp(sub * d.vat, d.subtotal) \in Nat
        BY <3>1, QuotientIsNatural
      <3> QED BY <2>2, <3>2 DEF TaxShare
    <2> QED BY <2>1, <2>2
  <1>5. NoteTotal(s) = sub + TaxShare(d, sub) - 0
    BY DEF NoteTotal, d, sub
  <1> QED BY <1>3, <1>4, <1>5


-----------------------------------------------------------------------------
(* Steps that read. *)

LEMMA FiguresStay ==
    ASSUME UNCHANGED <<documents, notes, books>>
    PROVE  /\ SumFunction(DueOf)' = SumFunction(DueOf) /\ Returned' = Returned
           /\ received' = received /\ PaidBack' = PaidBack
  <1>1. /\ bill' = bill /\ paid' = paid /\ back' = back /\ credit' = credit
        /\ received' = received
    BY DEF documents, notes, books
  <1>2. DueOf' = DueOf
    BY <1>1 DEF DueOf, Due, Live
  <1> QED BY <1>1, <1>2 DEF Returned, PaidBack

LEMMA LoadStarts ==
    ASSUME NEW s \in Session, NEW op \in Operation, NEW i \in Invoice
    PROVE  Load(s, op, i).term = 1 /\ Load(s, op, i).sum = 0
  BY DEF Load, Idle

\* A session that has just read knows what it may rely on.
LEMMA ReadsAdding ==
    ASSUME OneSeller, TypeOK, Carrying, Limited, NEW s \in Session, Reads(s)
    PROVE  /\ balance' \in [Session -> Int]
           /\ \A t \in Session : t # s => balance'[t] = balance[t]
           /\ Adding(s)'
  <1>1. /\ req[s] \in Carried /\ req \in [Session -> Carried] /\ Sound(s, req[s])
        /\ Adding(s) /\ balance \in [Session -> Int]
    BY DEF TypeOK, Carrying, Limited
  <1>2. bill' = bill /\ paid' = paid
    BY ReadsOnly DEF documents
  <1>3. /\ SumFunction(DueOf)' = SumFunction(DueOf) /\ Returned' = Returned
        /\ received' = received /\ PaidBack' = PaidBack
    BY ReadsOnly, FiguresStay, SMTT(30)
  <1>4. ~ReadBalance(s) => balance' = balance
    BY DEF Reads, BeginInvoice, BeginEdit, CountReturns, ResetInvoice, BeginReturn, ReturnLine,
           PriceReturn, WeighReturn, BeginCancel, ReadCredit, BeginResolve, BeginRefund,
           BeginCollect, ReadReturned, BeginReceipt
  <1>5. CASE BeginInvoice(s)
    <2>1. PICK d \in Bill :
             Goes(s, [Idle EXCEPT !.op = "invoice", !.bill = d, !.at = AfterPricing(d)])
      BY <1>5 DEF BeginInvoice
    <2>2. /\ req'[s].op = "invoice" /\ req'[s].bill = d /\ req'[s].at = AfterPricing(d)
          /\ req'[s].term = 1
      BY <1>1, <2>1 DEF Goes, Idle
    <2>3. balance'[s] = 0 /\ balance' = balance
      BY <1>1, <1>5 DEF BeginInvoice, Start, Adding
    <2>4. ReadSoFar(1)' = 0
      BY DEF ReadSoFar
    <2>5. /\ AfterPricing(d) \in {"balance", "post"}
          /\ d.method = "credit" => AfterPricing(d) = "balance"
      BY DEF AfterPricing
    <2>6. Adding(s)'
      BY <2>2, <2>3, <2>4, <2>5 DEF Adding
    <2> QED BY <1>1, <2>3, <2>6
  <1>6. CASE BeginEdit(s)
    <2>1. PICK i \in Invoice :
             /\ Live(i)
             /\ \/ \E d \in Bill : Goes(s, [Load(s, "update", i) EXCEPT !.bill = d, !.at = "count"])
                \/ Goes(s, [Load(s, "delete", i) EXCEPT !.at = "count"])
      BY <1>6 DEF BeginEdit
    <2>2. /\ Load(s, "update", i) \in Carried /\ Load(s, "update", i).op = "update"
          /\ Load(s, "delete", i) \in Carried /\ Load(s, "delete", i).op = "delete"
          /\ Load(s, "update", i).invoice = i
          /\ Load(s, "update", i).term = 1 /\ Load(s, "delete", i).term = 1
      BY LoadIsCarried, LoadStarts DEF Operation
    <2>3. bill[i] # None
      BY <2>1, DocumentAssumption DEF Live
    <2>4. CASE Goes(s, [Load(s, "delete", i) EXCEPT !.at = "count"])
      <3>1. req'[s].op = "delete" /\ req'[s].at = "count" /\ req'[s].term = 1
        BY <1>1, <2>2, <2>4 DEF Goes, Carried
      <3> QED BY <1>1, <1>4, <1>6, <3>1 DEF Adding, BeginEdit
    <2>5. ASSUME NEW d \in Bill,
                 Goes(s, [Load(s, "update", i) EXCEPT !.bill = d, !.at = "count"])
          PROVE  Adding(s)'
      <3>1. /\ req'[s].op = "update" /\ req'[s].at = "count" /\ req'[s].term = 1
            /\ req'[s].invoice = i
        BY <1>1, <2>2, <2>5 DEF Goes, Carried
      <3> QED BY <1>2, <2>3, <3>1 DEF Adding
    <2>6. balance' = balance
      BY <1>6 DEF BeginEdit
    <2> QED BY <1>1, <2>1, <2>4, <2>5, <2>6
  <1>7. CASE BeginReturn(s)
    <2>1. PICK i \in Invoice :
             \E q, u : Goes(s, [Load(s, "return", i) EXCEPT !.at = "lines", !.asked = q,
                                                            !.left = q, !.seen = u])
      BY <1>7 DEF BeginReturn
    <2>2. /\ Load(s, "return", i) \in Carried /\ Load(s, "return", i).op = "return"
          /\ Load(s, "return", i).term = 1 /\ Load(s, "return", i).sum = 0
      BY LoadIsCarried, LoadStarts DEF Operation
    <2>3. /\ req'[s].op = "return" /\ req'[s].at = "lines" /\ req'[s].term = 1
          /\ req'[s].sum = 0
      BY <1>1, <2>1, <2>2 DEF Goes, Carried
    <2>4. balance' = balance
      BY <1>7 DEF BeginReturn
    <2> QED BY <1>1, <2>3, <2>4 DEF Adding
  <1>8. CASE BeginCancel(s) \/ BeginResolve(s) \/ BeginRefund(s) \/ BeginReceipt(s)
    <2>1. /\ req'[s].op \in {"cancel", "resolve", "refund", "receipt"}
          /\ req'[s].at \in {"credit", "post", "balance"} /\ req'[s].term = 1
      <3>1. CASE BeginCancel(s)
        BY <1>1, <3>1 DEF BeginCancel, Goes, Idle
      <3>2. CASE BeginResolve(s)
        BY <1>1, <3>2 DEF BeginResolve, Goes, Idle
      <3>3. CASE BeginRefund(s)
        BY <1>1, <3>3 DEF BeginRefund, Goes, Idle
      <3>4. CASE BeginReceipt(s)
        BY <1>1, <3>4 DEF BeginReceipt, Goes, Idle
      <3> QED BY <1>8, <3>1, <3>2, <3>3, <3>4
    <2>2. balance' = balance
      BY <1>8 DEF BeginCancel, BeginResolve, BeginRefund, BeginReceipt
    <2> QED BY <1>1, <2>1, <2>2 DEF Adding
  <1>9. CASE BeginCollect(s)
    <2>1. PICK i \in Invoice :
             Goes(s, [Load(s, "collect", i) EXCEPT !.bill = bill[i], !.at = "returned"])
      BY <1>9 DEF BeginCollect
    <2>2. /\ Load(s, "collect", i) \in Carried /\ Load(s, "collect", i).op = "collect"
          /\ Load(s, "collect", i).invoice = i /\ Load(s, "collect", i).paid = paid[i]
          /\ Load(s, "collect", i).term = 1
      BY LoadIsCarried, LoadStarts DEF Operation
    <2>3. /\ req'[s].op = "collect" /\ req'[s].invoice = i /\ req'[s].paid = paid[i]
          /\ req'[s].at = "returned" /\ req'[s].term = 1
      BY <1>1, <2>1, <2>2 DEF Goes, Carried
    <2>4. balance' = balance /\ paid[i] \in Nat
      BY <1>9 DEF BeginCollect, TypeOK
    <2> QED BY <1>1, <1>2, <2>3, <2>4 DEF Adding
  <1>10. CASE CountReturns(s)
    <2>1. /\ req'[s].op = req[s].op /\ req'[s].invoice = req[s].invoice
          /\ req'[s].paid = req[s].paid /\ req'[s].sum = req[s].sum
          /\ req'[s].term = req[s].term /\ req'[s].at \in {"reset", "post"}
          /\ req[s].at = "count" /\ balance' = balance
      BY <1>1, <1>10 DEF CountReturns, Goes, Carried
    <2> QED BY <1>1, <1>2, <2>1 DEF Adding
  <1>11. CASE ResetInvoice(s)
    <2>1. /\ req'[s].op = "update" /\ req'[s].invoice = req[s].invoice
          /\ req'[s].term = req[s].term /\ req'[s].at \in {"balance", "post"}
          /\ req[s].at = "reset" /\ req[s].op = "update" /\ balance' = balance
      BY <1>1, <1>11 DEF ResetInvoice, Doing, Goes, Carried, AfterPricing
    <2> QED BY <1>1, <1>2, <2>1 DEF Adding
  <1>12. CASE ReturnLine(s) \/ WeighReturn(s)
    <2>1. /\ req'[s].op = "return" /\ req'[s].sum = req[s].sum
          /\ req'[s].term = req[s].term /\ req'[s].at \in {"lines", "post"}
          /\ req[s].at \in {"lines", "weigh"} /\ req[s].op = "return" /\ balance' = balance
      <3>1. CASE ReturnLine(s)
        BY <1>1, <3>1 DEF ReturnLine, Doing, Goes, Carried
      <3>2. CASE WeighReturn(s)
        BY <1>1, <3>2 DEF WeighReturn, Doing, Goes, Carried
      <3> QED BY <1>12, <3>1, <3>2, SMTT(30)
    <2> QED BY <1>1, <1>2, <2>1 DEF Adding
  <1>13. CASE PriceReturn(s)
    <2> DEFINE d == bill[req[s].invoice]
    <2>1. req[s].op = "return" /\ req[s].at = "lines" /\ d \in Bill
      BY <1>1, <1>13 DEF PriceReturn, Doing, Sound, Live
    <2>2. d.discount = 0
      BY <2>1 DEF OneSeller
    <2>3. DiscountShare(d, back[req[s].invoice], req[s].asked * d.price) = 0
      BY <2>2 DEF DiscountShare
    <2>4. /\ req'[s].op = "return" /\ req'[s].at = "weigh" /\ req'[s].term = req[s].term
          /\ req'[s].sum = DiscountShare(d, back[req[s].invoice], req[s].asked * d.price)
          /\ balance' = balance
      BY <1>1, <1>13, <2>1 DEF PriceReturn, Goes, Carried
    <2> QED BY <1>1, <2>1, <2>3, <2>4 DEF Adding
  <1>14. CASE ReadCredit(s) \/ ReadReturned(s)
    <2>1. /\ req'[s].op = req[s].op /\ req[s].op \in {"cancel", "collect"}
          /\ req'[s].invoice = req[s].invoice /\ req'[s].paid = req[s].paid
          /\ req'[s].at = "post" /\ balance' = balance
      <3>1. CASE ReadCredit(s)
        BY <1>1, <3>1 DEF ReadCredit, Doing, Goes, Carried
      <3>2. CASE ReadReturned(s)
        BY <1>1, <3>2 DEF ReadReturned, Doing, Goes, Carried
      <3> QED BY <1>14, <3>1, <3>2
    <2> QED BY <1>1, <1>2, <2>1 DEF Adding
  <1>15. CASE ReadBalance(s)
    <2>1. PICK k \in 1..4 : k = req[s].term
      BY <1>1, <1>15 DEF ReadBalance, Adding
    <2>2. /\ req'[s].op = req[s].op /\ req'[s].invoice = req[s].invoice
          /\ req'[s].paid = req[s].paid /\ req'[s].sum = req[s].sum
          /\ req'[s].bill = req[s].bill /\ req[s].at = "balance"
          /\ req'[s].term = k + 1 /\ req'[s].at = IF k = 4 THEN "post" ELSE "balance"
      BY <1>1, <1>15, <2>1 DEF ReadBalance, Goes, Carried
    <2>3. PICK b \in Int : b = BalanceTerm(s, k)
      BY TermType
    <2>4. balance' = [balance EXCEPT ![s] = @ + b]
      BY <1>15, <2>1, <2>3 DEF ReadBalance
    <2>5. /\ balance' \in [Session -> Int] /\ balance'[s] = balance[s] + b
          /\ \A t \in Session : t # s => balance'[t] = balance[t]
      BY <1>1, <2>3, <2>4
    <2>6. ASSUME req[s].op = "invoice", req[s].bill.method = "credit"
          PROVE  balance'[s] >= ReadSoFar(k + 1)'
      <3>1. PICK u \in Int : u = ReadSoFar(k)
        BY <2>6, TermRead
      <3>2. ReadSoFar(k + 1) = u + b
        BY <2>3, <2>6, <3>1, TermRead
      <3>3. ReadSoFar(k + 1)' = ReadSoFar(k + 1)
        BY <1>3 DEF ReadSoFar
      <3>4. balance[s] >= u /\ balance[s] \in Int
        BY <1>1, <2>1, <2>6, <3>1 DEF Adding
      <3>5. balance'[s] >= u + b
        BY <2>3, <2>5, <3>1, <3>4
      <3> QED BY <3>2, <3>3, <3>5
    <2>7. (req[s].op = "invoice" /\ req[s].bill.method = "credit"
              => balance[s] >= ReadSoFar(req[s].term))'
      BY <2>2, <2>6 DEF ReadSoFar
    <2>8. Adding(s)'
      BY <1>1, <1>2, <2>1, <2>2, <2>7 DEF Adding
    <2> QED BY <2>5, <2>8
  <1> QED
    BY <1>5, <1>6, <1>7, <1>8, <1>9, <1>10, <1>11, <1>12, <1>13, <1>14, <1>15 DEF Reads


\* An invoice that was issued stays so, if only as deleted.
LEMMA NeverUnissued ==
    ASSUME TypeOK, Carrying, NEW s \in Session, Step(s), NEW j \in Invoice, bill[j] # None
    PROVE  bill'[j] # None
  <1>1. Sound(s, req[s])
    BY DEF Carrying
  <1>2. CASE PostInvoice(s)
    <2>1. req[s].bill # None
      BY <1>1, <1>2, DocumentAssumption DEF PostInvoice, Doing, Sound
    <2>2. PICK i \in Invoice : bill' = [bill EXCEPT ![i] = req[s].bill]
      BY <1>2 DEF PostInvoice
    <2> QED BY <2>1, <2>2 DEF TypeOK
  <1>3. CASE RepostInvoice(s)
    <2>1. req[s].bill # None /\ bill' = [bill EXCEPT ![req[s].invoice] = req[s].bill]
      BY <1>1, <1>3, DocumentAssumption DEF RepostInvoice, Doing, Sound
    <2> QED BY <2>1 DEF TypeOK
  <1>4. CASE DeleteInvoice(s)
    <2>1. bill' = [bill EXCEPT ![req[s].invoice] = Deleted] /\ Deleted # None
      BY <1>4, DocumentAssumption DEF DeleteInvoice
    <2> QED BY <2>1 DEF TypeOK
  <1> QED BY <1>2, <1>3, <1>4, WhoWrites


-----------------------------------------------------------------------------
(* Steps of the other sessions. *)

LEMMA FigureTypesNext ==
    TypeOK' => (/\ Whole(DueOf, Invoice) /\ Whole(BackOf, Invoice) /\ Whole(PaidBackOf, Note)
                /\ SumFunction(DueOf) \in Int /\ Returned \in Int /\ PaidBack \in Int
                /\ received \in Nat)'
  <1>1. TypeOK => /\ Whole(DueOf, Invoice) /\ Whole(BackOf, Invoice) /\ Whole(PaidBackOf, Note)
                  /\ SumFunction(DueOf) \in Int /\ Returned \in Int /\ PaidBack \in Int
                  /\ received \in Nat
    BY FigureTypes
  <1> QED BY <1>1, PTL

\* What raises no balance: less is due, more is credited back and received,
\* less is paid out again.
Falls ==
    /\ Below(DueOf', DueOf, Invoice) /\ Below(BackOf, BackOf', Invoice)
    /\ received <= received' /\ Below(PaidBackOf', PaidBackOf, Note)

LEMMA FallsTogether ==
    ASSUME TypeOK, TypeOK', Falls
    PROVE  /\ SumFunction(DueOf)' <= SumFunction(DueOf) /\ Returned <= Returned'
           /\ received <= received' /\ PaidBack' <= PaidBack
  <1>1. /\ Whole(DueOf, Invoice) /\ Whole(BackOf, Invoice) /\ Whole(PaidBackOf, Note)
        /\ Whole(DueOf', Invoice) /\ Whole(BackOf', Invoice) /\ Whole(PaidBackOf', Note)
    BY FigureTypes, FigureTypesNext
  <1>2. IsFiniteSet(Invoice) /\ IsFiniteSet(Note)
    BY DocumentAssumption
  <1>3. SumFunctionOnSet(DueOf', Invoice) <= SumFunctionOnSet(DueOf, Invoice)
    BY <1>1, <1>2, SumGrows DEF Falls
  <1>4. SumFunctionOnSet(BackOf, Invoice) <= SumFunctionOnSet(BackOf', Invoice)
    BY <1>1, <1>2, SumGrows DEF Falls
  <1>5. SumFunctionOnSet(PaidBackOf', Note) <= SumFunctionOnSet(PaidBackOf, Note)
    BY <1>1, <1>2, SumGrows DEF Falls
  <1>6. /\ DOMAIN DueOf = Invoice /\ DOMAIN DueOf' = Invoice
        /\ DOMAIN BackOf = Invoice /\ DOMAIN BackOf' = Invoice
        /\ DOMAIN PaidBackOf = Note /\ DOMAIN PaidBackOf' = Note
    BY DEF DueOf, BackOf, PaidBackOf
  <1>7. /\ SumFunction(DueOf)' = SumFunctionOnSet(DueOf', Invoice)
        /\ SumFunction(DueOf) = SumFunctionOnSet(DueOf, Invoice)
    BY <1>6 DEF SumFunction
  <1>8. /\ Returned' = SumFunctionOnSet(BackOf', Invoice)
        /\ Returned = SumFunctionOnSet(BackOf, Invoice)
    BY <1>6 DEF SumFunction, Returned, BackOf
  <1>9. /\ PaidBack' = SumFunctionOnSet(PaidBackOf', Note)
        /\ PaidBack = SumFunctionOnSet(PaidBackOf, Note)
    BY <1>6 DEF SumFunction, PaidBack, PaidBackOf
  <1> QED BY <1>3, <1>4, <1>5, <1>7, <1>8, <1>9 DEF Falls

LEMMA ReadFalls ==
    ASSUME TypeOK, TypeOK', Falls, NEW k \in 1..5
    PROVE  ReadSoFar(k)' <= ReadSoFar(k) /\ ReadSoFar(k) \in Int /\ ReadSoFar(k)' \in Int
  <1>1. /\ SumFunction(DueOf) \in Int /\ Returned \in Int /\ received \in Int /\ PaidBack \in Int
        /\ SumFunction(DueOf)' \in Int /\ Returned' \in Int /\ received' \in Int
        /\ PaidBack' \in Int
    BY FigureTypes, FigureTypesNext
  <1>2. /\ SumFunction(DueOf)' <= SumFunction(DueOf) /\ Returned <= Returned'
        /\ received <= received' /\ PaidBack' <= PaidBack
    BY FallsTogether
  <1>3. CASE k = 1
    BY <1>3 DEF ReadSoFar
  <1>4. CASE k = 2
    BY <1>1, <1>2, <1>4 DEF ReadSoFar
  <1>5. CASE k = 3
    BY <1>1, <1>2, <1>5 DEF ReadSoFar
  <1>6. CASE k = 4
    BY <1>1, <1>2, <1>6 DEF ReadSoFar
  <1>7. CASE k = 5
    BY <1>1, <1>2, <1>7 DEF ReadSoFar
  <1> QED BY <1>3, <1>4, <1>5, <1>6, <1>7

\* A note posted, a credit decided on, a collection, a receipt, a rollback.
LEMMA OthersFall ==
    ASSUME OneSeller, TypeOK, TypeOK', Carrying, Limited, NEW s \in Session,
           \/ PostReturn(s) \/ ResolveCredit(s) \/ CollectPayment(s)
           \/ CreatePayment(s) \/ Abort(s)
    PROVE  Falls
  <1>1. /\ \A i \in Invoice : Due(i) \in Int /\ paid[i] \in Nat /\ paid'[i] \in Nat
        /\ \A i \in Invoice : back[i].total \in Int
        /\ \A n \in Note : credit[n].amount \in Nat
        /\ received \in Nat /\ received' \in Nat
    BY DueType DEF TypeOK, Sums
  <1>2. Sound(s, req[s]) /\ Adding(s) /\ req[s] \in Carried
    BY DEF Carrying, Limited, TypeOK
  <1>3. bill' = bill
    BY DEF PostReturn, ResolveCredit, CollectPayment, CreatePayment, Abort, documents
  <1>4. Below(DueOf', DueOf, Invoice)
    <2> SUFFICES ASSUME NEW i \in Invoice PROVE Due(i)' <= Due(i)
      BY DEF Below, DueOf
    <2>1. paid[i] <= paid'[i]
      <3>1. CASE CollectPayment(s)
        <4>1. PICK amount \in Amount :
                 paid' = [paid EXCEPT ![req[s].invoice] = req[s].paid + amount]
          BY <3>1 DEF CollectPayment
        <4>2. req[s].op = "collect" /\ amount \in Nat /\ req[s].paid \in Nat
          BY <1>2, <3>1, DocumentAssumption DEF CollectPayment, Doing, Carried
        <4>3. req[s].invoice = i => req[s].paid >= paid[i] /\ paid'[i] = req[s].paid + amount
          BY <1>2, <4>1, <4>2 DEF Adding, TypeOK
        <4>4. req[s].invoice # i => paid'[i] = paid[i]
          BY <4>1 DEF TypeOK
        <4> QED BY <1>1, <4>2, <4>3, <4>4
      <3>2. CASE ~CollectPayment(s)
        BY <1>1, <3>2 DEF PostReturn, ResolveCredit, CreatePayment, Abort, documents
      <3> QED BY <3>1, <3>2
    <2>2. CASE Live(i)
      <3>1. Total(bill[i]) \in Int
        BY <2>2, DocumentFields DEF Live
      <3>2. Due(i) = Total(bill[i]) - paid[i] /\ Due(i)' = Total(bill[i]) - paid'[i]
        BY <1>3, <2>2 DEF Due, Live
      <3> QED BY <1>1, <2>1, <3>1, <3>2
    <2>3. CASE ~Live(i)
      BY <1>3, <2>3 DEF Due, Live
    <2> QED BY <2>2, <2>3
  <1>5. Below(BackOf, BackOf', Invoice)
    <2> SUFFICES ASSUME NEW j \in Invoice PROVE back[j].total <= back'[j].total
      BY DEF Below, BackOf
    <2>1. CASE PostReturn(s)
      <3> DEFINE i == req[s].invoice
      <3>1. req[s].op = "return" /\ i \in Invoice /\ req[s].sum = 0
        BY <1>2, <2>1 DEF PostReturn, Doing, Sound, Adding
      <3> DEFINE x == [invoice |-> i, status |-> "posted", units |-> req[s].take,
                       sub |-> req[s].asked * bill[i].price,
                       discount |-> req[s].sum, total |-> NoteTotal(s)]
      <3>2. back' = [back EXCEPT ![i] = Added(@, x, 1)] /\ x.total = NoteTotal(s)
        BY <2>1 DEF PostReturn
      <3> HIDE DEF x
      <3>3. NoteTotal(s) \in Nat
        BY <3>1, NoteIsWorth
      <3>4. j = i => back'[j].total = back[j].total + 1 * NoteTotal(s)
        BY <3>1, <3>2 DEF TypeOK, Added
      <3>5. j # i => back'[j] = back[j]
        BY <3>1, <3>2 DEF TypeOK
      <3> QED BY <1>1, <3>3, <3>4, <3>5
    <2>2. CASE ~PostReturn(s)
      <3>1. back' = back
        BY <2>2 DEF ResolveCredit, CollectPayment, CreatePayment, Abort, documents
      <3> QED BY <1>1, <3>1
    <2> QED BY <2>1, <2>2
  <1>6. received <= received'
    <2>1. CASE CreatePayment(s)
      <3>1. PICK amount \in Amount : received' = received + amount
        BY <2>1 DEF CreatePayment
      <3> QED BY <1>1, <3>1, DocumentAssumption
    <2>2. CASE ~CreatePayment(s)
      <3>1. received' = received
        BY <2>2 DEF PostReturn, ResolveCredit, CollectPayment, Abort, books
      <3> QED BY <1>1, <3>1
    <2> QED BY <2>1, <2>2
  <1>7. Below(PaidBackOf', PaidBackOf, Note)
    <2> SUFFICES ASSUME NEW n \in Note PROVE PaidBackOf'[n] <= PaidBackOf[n]
      BY DEF Below
    <2>1. PaidBackOf[n] = (IF credit[n].state = "refunded" THEN credit[n].amount ELSE 0)
          /\ PaidBackOf'[n] = (IF credit'[n].state = "refunded" THEN credit'[n].amount ELSE 0)
      BY DEF PaidBackOf
    <2>2. credit'[n] = credit[n] \/ credit'[n].state # "refunded"
      <3>1. CASE PostReturn(s)
        <4>1. PICK m \in Note :
                 \/ credit' = [credit EXCEPT ![m] = [state |-> "pending", amount |-> req[s].over]]
                 \/ credit' = credit
          BY <3>1 DEF PostReturn
        <4> QED BY <4>1 DEF TypeOK
      <3>2. CASE ResolveCredit(s)
        <4>1. PICK r \in {"awaiting_refund", "credited"} :
                 credit' = [credit EXCEPT ![req[s].note].state = r]
          BY <3>2 DEF ResolveCredit
        <4>2. credit'[n] = IF n = req[s].note THEN [credit[n] EXCEPT !.state = r] ELSE credit[n]
          BY <4>1 DEF TypeOK
        <4>3. credit[n] \in [state : CreditState, amount : Nat]
          BY DEF TypeOK
        <4> QED BY <4>2, <4>3
      <3>3. CASE CollectPayment(s) \/ CreatePayment(s) \/ Abort(s)
        BY <3>3 DEF CollectPayment, CreatePayment, Abort, notes
      <3> QED BY <3>1, <3>2, <3>3
    <2> QED BY <1>1, <2>1, <2>2
  <1> QED BY <1>4, <1>5, <1>6, <1>7 DEF Falls


\* What another session may rely on survives a step.
LEMMA OthersAdding ==
    ASSUME OneSeller, TypeOK, TypeOK', Carrying, Limited, NEW s \in Session, Step(s),
           NEW t \in Session, t # s, balance'[t] = balance[t]
    PROVE  Adding(t)'
  <1>1. /\ req'[t] = req[t] /\ Adding(t) /\ req[t] \in Carried /\ balance[t] \in Int
        /\ Sound(s, req[s]) /\ Sound(t, req[t])
        /\ req[s].op \in Duties[s] \cup {"none"} /\ req[t].op \in Duties[t] \cup {"none"}
    BY OthersStay DEF TypeOK, Limited, Assigned, Carrying
  <1>2. ASSUME req[t].op = "invoice", req[t].bill.method = "credit"
        PROVE  (balance[t] >= ReadSoFar(req[t].term))'
    <2>1. PICK k \in 1..5 : k = req[t].term
      BY <1>1, <1>2 DEF Adding
    <2>2. balance[t] >= ReadSoFar(k)
      BY <1>1, <1>2, <2>1 DEF Adding
    <2>3. req[s].op \notin Raises
      BY <1>1, <1>2 DEF OneSeller, Raises
    <2>4. ReadSoFar(k)' <= ReadSoFar(k) /\ ReadSoFar(k) \in Int /\ ReadSoFar(k)' \in Int
      <3>1. CASE Reads(s)
        <4>1. ReadSoFar(k)' = ReadSoFar(k)
          BY <3>1, ReadsOnly, FiguresStay DEF ReadSoFar
        <4>2. ReadSoFar(k) \in Int
          BY FigureTypes DEF ReadSoFar
        <4> QED BY <4>1, <4>2
      <3>2. CASE \/ PostReturn(s) \/ ResolveCredit(s) \/ CollectPayment(s)
                 \/ CreatePayment(s) \/ Abort(s)
        BY <3>2, OthersFall, ReadFalls
      <3>3. CASE \/ PostInvoice(s) \/ RepostInvoice(s) \/ DeleteInvoice(s)
                 \/ CancelNote(s) \/ RefundCredit(s)
        <4>1. req[s].op \in {"invoice", "update", "delete", "cancel", "refund"}
          BY <3>3 DEF PostInvoice, RepostInvoice, DeleteInvoice, CancelNote, RefundCredit, Doing
        <4> QED BY <2>3, <4>1 DEF Raises
      <3> QED BY <3>1, <3>2, <3>3 DEF Step, Reads
    <2>5. balance[t] >= ReadSoFar(k)'
      BY <1>1, <2>2, <2>4
    <2> QED BY <1>1, <2>1, <2>5 DEF ReadSoFar
  <1>3. ASSUME req[t].op = "collect"
        PROVE  req[t].paid >= paid'[req[t].invoice]
    <2>1. req[s].op # "collect"
      BY <1>1, <1>3 DEF OneSeller
    <2>2. PICK j \in Invoice : j = req[t].invoice
      BY <1>1, <1>3 DEF Sound
    <2>3. req[t].paid \in Nat /\ paid[j] \in Nat /\ req[t].paid >= paid[j]
      BY <1>1, <1>3, <2>2 DEF Adding, Carried, TypeOK
    <2>4. paid'[j] = paid[j] \/ paid'[j] = 0
      <3>1. CASE RepostInvoice(s)
        <4>1. paid' = [paid EXCEPT ![req[s].invoice] = IF req[s].paid = 0 THEN @ ELSE 0]
          BY <3>1 DEF RepostInvoice
        <4> QED BY <4>1 DEF TypeOK
      <3>2. CASE DeleteInvoice(s)
        <4>1. paid' = [paid EXCEPT ![req[s].invoice] = 0]
          BY <3>2 DEF DeleteInvoice
        <4> QED BY <4>1 DEF TypeOK
      <3>3. CASE Reads(s)
        BY <3>3, ReadsOnly DEF documents
      <3>4. CASE CollectPayment(s)
        BY <2>1, <3>4, SMTT(30) DEF CollectPayment, Doing
      <3>5. CASE \/ PostInvoice(s) \/ PostReturn(s) \/ CancelNote(s) \/ ResolveCredit(s)
                 \/ RefundCredit(s) \/ CreatePayment(s) \/ Abort(s)
        BY <3>5 DEF PostInvoice, PostReturn, CancelNote, ResolveCredit, RefundCredit,
                    CreatePayment, Abort, documents
      <3> QED BY <3>1, <3>2, <3>3, <3>4, <3>5 DEF Step, Reads
    <2> QED BY <2>2, <2>3, <2>4
  <1>4. ASSUME req[t].op = "update"
        PROVE  bill'[req[t].invoice] # None
    <2>1. PICK j \in Invoice : j = req[t].invoice
      BY <1>1, <1>4 DEF Sound
    <2>2. bill[j] # None
      BY <1>1, <1>4, <2>1 DEF Adding
    <2>3. bill'[j] # None
      BY <2>2, NeverUnissued
    <2> QED BY <2>1, <2>3
  <1>5. (req[t].op = "invoice" /\ req[t].bill.method = "credit"
            => balance[t] >= ReadSoFar(req[t].term))'
    BY <1>1, <1>2
  <1> QED BY <1>1, <1>3, <1>4, <1>5 DEF Adding


\* A request that ends leaves nothing read.
LEMMA EndAdding ==
    ASSUME TypeOK, Limited, NEW s \in Session, End(s)
    PROVE  /\ Adding(s)' /\ balance' \in [Session -> Int]
           /\ \A t \in Session : t # s => balance'[t] = balance[t]
  <1>1. req'[s] = Idle /\ balance' = [balance EXCEPT ![s] = 0]
    BY DEF TypeOK, End, Goes
  <1>2. balance \in [Session -> Int]
    BY DEF Limited
  <1>3. balance'[s] = 0
    BY <1>1, <1>2
  <1>4. Adding(s)'
    BY <1>1, <1>3 DEF Adding, Idle
  <1> QED BY <1>1, <1>2, <1>4

\* Of an invoice that was never issued nothing has been paid.
LEMMA UnissuedUnpaid ==
    ASSUME TypeOK, Carrying, NEW s \in Session, Step(s),
           NEW i \in Invoice, bill[i] = None => paid[i] = 0, bill'[i] = None
    PROVE  paid'[i] = 0
  <1>1. bill[i] = None /\ paid[i] = 0
    BY NeverUnissued
  <1>2. CASE RepostInvoice(s)
    <2>1. paid' = [paid EXCEPT ![req[s].invoice] = IF req[s].paid = 0 THEN @ ELSE 0]
      BY <1>2 DEF RepostInvoice
    <2> QED BY <1>1, <2>1 DEF TypeOK
  <1>3. CASE DeleteInvoice(s)
    <2>1. paid' = [paid EXCEPT ![req[s].invoice] = 0]
      BY <1>3 DEF DeleteInvoice
    <2> QED BY <1>1, <2>1 DEF TypeOK
  <1>4. CASE CollectPayment(s)
    <2>1. Live(req[s].invoice)
          /\ \E amount : paid' = [paid EXCEPT ![req[s].invoice] = req[s].paid + amount]
      BY <1>4 DEF CollectPayment
    <2>2. req[s].invoice # i
      BY <1>1, <2>1, DocumentAssumption DEF Live
    <2> QED BY <1>1, <2>1, <2>2 DEF TypeOK
  <1>5. CASE Reads(s)
    BY <1>1, <1>5, ReadsOnly DEF documents
  <1>6. CASE \/ PostInvoice(s) \/ PostReturn(s) \/ CancelNote(s) \/ ResolveCredit(s)
             \/ RefundCredit(s) \/ CreatePayment(s) \/ Abort(s)
    BY <1>1, <1>6 DEF PostInvoice, PostReturn, CancelNote, ResolveCredit, RefundCredit,
                      CreatePayment, Abort, documents
  <1> QED BY <1>2, <1>3, <1>4, <1>5, <1>6 DEF Step, Reads

LEMMA StepLimited ==
    ASSUME OneSeller, TypeOK, TypeOK', Carrying, Limited, NEW s \in Session, Step(s)
    PROVE  Limited'
  <1>1. Assigned'
    BY StepAssigned DEF Limited
  <1>2. /\ Adding(s)' /\ balance' \in [Session -> Int]
        /\ \A t \in Session : t # s => balance'[t] = balance[t]
    BY WhoWrites, ReadsAdding, EndAdding
  <1>3. \A t \in Session : t # s => Adding(t)'
    BY <1>2, OthersAdding
  <1>4. \A i \in Invoice : bill'[i] = None => paid'[i] = 0
    BY UnissuedUnpaid DEF Limited
  <1> QED BY <1>1, <1>2, <1>3, <1>4 DEF Limited

\* An invoice is issued by the step that compared the balance.
LEMMA IssuedWithinLimit ==
    ASSUME TypeOK, TypeOK', Carrying, Limited, NEW s \in Session, Step(s),
           NEW i \in Invoice, bill[i] = None, bill'[i] # None, bill'[i].method = "credit"
    PROVE  Balance' <= CreditLimit
  <1>1. Sound(s, req[s]) /\ Adding(s) /\ balance[s] \in Int /\ paid[i] = 0
    BY DEF Carrying, Limited
  <1>2. PostInvoice(s)
    <2>1. CASE RepostInvoice(s)
      <3>1. /\ bill' = [bill EXCEPT ![req[s].invoice] = req[s].bill]
            /\ bill[req[s].invoice] # None
        BY <1>1, <2>1 DEF RepostInvoice, Doing, Adding
      <3> QED BY <3>1 DEF TypeOK
    <2>2. CASE DeleteInvoice(s)
      <3>1. bill' = [bill EXCEPT ![req[s].invoice] = Deleted] /\ Live(req[s].invoice)
        BY <2>2 DEF DeleteInvoice
      <3>2. req[s].invoice # i
        BY <3>1, DocumentAssumption DEF Live
      <3> QED BY <3>1, <3>2 DEF TypeOK
    <2> QED BY <2>1, <2>2, WhoWrites
  <1>3. PICK d \in Bill : d = req[s].bill
    BY <1>1, <1>2 DEF PostInvoice, Doing, Sound
  <1>4. bill' = [bill EXCEPT ![i] = d]
    <2>1. PICK j \in Invoice : bill' = [bill EXCEPT ![j] = d]
      BY <1>2, <1>3 DEF PostInvoice
    <2>2. j = i
      BY <2>1 DEF TypeOK
    <2> QED BY <2>1, <2>2
  <1>5. d.method = "credit" /\ Total(d) \in Int /\ bill'[i] = d
    BY <1>4, DocumentFields DEF TypeOK
  <1>6. balance[s] >= ReadSoFar(5) /\ balance[s] + Total(d) <= CreditLimit
    BY <1>1, <1>2, <1>3, <1>5 DEF PostInvoice, WithinLimit, Adding, Doing
  <1>7. SumFunction(DueOf)' = SumFunction(DueOf) + Total(d)
    <2>1. Whole(DueOf, Invoice) /\ Whole(DueOf', Invoice) /\ IsFiniteSet(Invoice)
      BY FigureTypes, FigureTypesNext, DocumentAssumption
    <2>2. paid' = paid
      BY <1>2 DEF PostInvoice
    <2>3. DueOf'[i] = Total(d) /\ DueOf[i] = 0
      <3>1. DueOf[i] = 0
        BY DocumentAssumption DEF DueOf, Due, Live
      <3>2. DueOf'[i] = Total(d) - 0
        BY <1>1, <1>5, <2>2 DEF DueOf, Due, Live
      <3> QED BY <1>5, <3>1, <3>2
    <2>4. SameTerms(DueOf, DueOf', Invoice \ {i})
      BY <1>4, <2>2 DEF SameTerms, DueOf, Due, Live, TypeOK
    <2>5. SumFunctionOnSet(DueOf', Invoice)
             = SumFunctionOnSet(DueOf, Invoice) + (DueOf'[i] - DueOf[i])
      BY <2>1, <2>4, SumChange
    <2>6. DOMAIN DueOf = Invoice /\ DOMAIN DueOf' = Invoice
      BY DEF DueOf
    <2>7. DueOf'[i] - DueOf[i] = Total(d)
      BY <1>5, <2>3
    <2> QED BY <2>5, <2>6, <2>7 DEF SumFunction
  <1>8. Returned' = Returned /\ received' = received /\ PaidBack' = PaidBack
    BY <1>2 DEF PostInvoice, Returned, PaidBack, notes, books
  <1>9. /\ SumFunction(DueOf) \in Int /\ Returned \in Int /\ received \in Int /\ PaidBack \in Int
        /\ CreditLimit \in Int
    BY FigureTypes, DocumentAssumption
  <1>10. ReadSoFar(5) = SumFunction(DueOf) - Returned - received + PaidBack
    BY DEF ReadSoFar
  <1>11. Balance' = SumFunction(DueOf)' - Returned' - received' + PaidBack'
    BY DEF Balance, DueOf
  <1> QED BY <1>1, <1>5, <1>6, <1>7, <1>8, <1>9, <1>10, <1>11

\* However the reading of the balance interleaves with returns, collections,
\* receipts and decisions on credits, an invoice on credit is never issued
\* that takes what the customer owes beyond the limit: as long as nothing is
\* discounted, nobody but the session that sells edits, deletes, cancels a note
\* or pays a credit out, and one session collects.
THEOREM LimitAlwaysHolds ==
    ASSUME OneSeller
    PROVE  Spec => WithinCreditLimit
  <1> DEFINE A == \A i \in Invoice :
                     bill[i] = None /\ bill'[i] # None /\ bill'[i].method = "credit"
                         => Balance' <= CreditLimit
  <1>1. Init => TypeOK /\ Carrying /\ Limited
    BY InitType, InitCarrying, InitLimited
  <1>2. TypeOK /\ Carrying /\ Limited /\ [Next]_vars => TypeOK' /\ Carrying' /\ Limited'
    <2> SUFFICES ASSUME TypeOK, Carrying, Limited, [Next]_vars
                 PROVE  TypeOK' /\ Carrying' /\ Limited'
      OBVIOUS
    <2>1. TypeOK' /\ Carrying'
      BY NextCarrying
    <2>2. CASE Next
      <3>1. PICK s \in Session : Step(s)
        BY <2>2 DEF Next
      <3> QED BY <2>1, <3>1, StepLimited
    <2>3. CASE UNCHANGED vars
      <3>1. /\ UNCHANGED <<documents, notes, books>> /\ req' = req /\ balance' = balance
        BY <2>3 DEF vars
      <3>2. /\ SumFunction(DueOf)' = SumFunction(DueOf) /\ Returned' = Returned
            /\ received' = received /\ PaidBack' = PaidBack
        BY <3>1, FiguresStay
      <3>3. ASSUME NEW t \in Session PROVE Adding(t)'
        BY <3>1, <3>2 DEF Limited, Adding, ReadSoFar, documents
      <3>4. Assigned'
        BY <3>1 DEF Limited, Assigned
      <3> QED BY <2>1, <3>1, <3>3, <3>4 DEF Limited, documents
    <2> QED BY <2>2, <2>3
  <1>3. TypeOK /\ Carrying /\ Limited /\ [Next]_vars => [A]_vars
    <2> SUFFICES ASSUME TypeOK, Carrying, Limited, Next PROVE A
      OBVIOUS
    <2>1. PICK s \in Session : Step(s)
      BY DEF Next
    <2>2. TypeOK'
      BY NextCarrying
    <2> QED BY <2>1, <2>2, IssuedWithinLimit
  <1> QED BY <1>1, <1>2, <1>3, PTL DEF Spec, WithinCreditLimit


-----------------------------------------------------------------------------
(***************************************************************************)
(* What was paid too much is owed, as long as one session collects, takes  *)
(* back and edits, and nothing is discounted.  The property is not         *)
(* inductive: a credit may be larger than its note, since it makes up for  *)
(* what earlier notes left, and cancelling the note would take too much    *)
(* away.  What is, counts each standing credit for no more than its note.  *)
(***************************************************************************)

AtTheInvoice == {"collect", "return", "update"}

OneHand ==
    /\ \A d \in Bill : d.discount = 0
    /\ \A s, t \in Session :
          Duties[s] \cap AtTheInvoice # {} /\ Duties[t] \cap AtTheInvoice # {} => s = t

PostedOf(i) == [n \in Note |-> IF PostedOn(n, i) THEN note[n].total ELSE 0]

CreditOf(i) == [n \in Note |-> IF Stands(n, i) THEN credit[n].amount ELSE 0]

CoverOf(i) ==
    [n \in Note |-> IF Stands(n, i) THEN Lesser(note[n].total, credit[n].amount) ELSE 0]

\* What a request has loaded, weighed or computed, and still holds.
Weighed(s) ==
    LET r == req[s]
        i == r.invoice
    IN  /\ r.op = "collect" =>
              /\ r.at \in {"returned", "post"} /\ bill[i] # None
              /\ Live(i) => r.bill = bill[i] /\ r.paid = paid[i]
              /\ Live(i) /\ r.at = "post" => r.sum <= Total(bill[i]) - back[i].total
        /\ r.op = "return" =>
              /\ r.at \in {"lines", "weigh", "post"} /\ r.sum = 0 /\ r.paid = paid[i]
              /\ r.at = "post" =>
                    r.over >= r.paid - (Total(bill[i]) - (back[i].total + NoteTotal(s)))
        /\ r.op = "update" => r.paid = paid[i] /\ bill[i] # None
        /\ r.op \in {"resolve", "refund"} => note[r.note].status # "none"

\* The sums of the code are those over the posted notes, an unwritten note has
\* raised nothing, and no note is worth less than nothing.
Noted ==
    /\ \A i \in Invoice : back[i].total = SumFunction(PostedOf(i))
    /\ \A n \in Note : note[n].total \in Nat
    /\ \A n \in Note : note[n].status = "none" => credit[n].state = "none"

\* An invoice is overpaid by no more than its standing credits cover.
Bounded(i) == Live(i) => Overpaid(i) <= SumFunction(CoverOf(i))

Owed ==
    /\ Noted
    /\ \A i \in Invoice : bill[i] = None => paid[i] = 0
    /\ \A i \in Invoice : Bounded(i)
    /\ \A s \in Session : Weighed(s)


\* Without a discount no document is worth less than nothing.
LEMMA WorthOfBill ==
    ASSUME OneHand, NEW d \in Bill
    PROVE  Total(d) \in Nat
  <1>1. d.subtotal \in Nat /\ d.vat \in Nat /\ d.discount = 0
    BY DocumentFields DEF OneHand
  <1> QED BY <1>1 DEF Total

LEMMA InitOwed == OneHand /\ Init => Owed
  <1> SUFFICES ASSUME OneHand, Init PROVE Owed
    OBVIOUS
  <1>1. \A n \in Note : /\ note[n] = Unwritten /\ credit[n].state = "none"
                        /\ note[n].status = "none" /\ note[n].total = 0
    BY DEF Init, Unwritten
  <1>2. \A i \in Invoice : paid[i] = 0 /\ back[i].total = 0
    BY DEF Init, Nothing
  <1>3. IsFiniteSet(Note)
    BY DocumentAssumption
  <1>4. ASSUME NEW i \in Invoice
        PROVE  SumFunction(PostedOf(i)) = 0 /\ SumFunction(CoverOf(i)) = 0
    <2>1. SameTerms(PostedOf(i), [n \in Note |-> 0], Note)
      BY <1>1 DEF SameTerms, PostedOf, PostedOn
    <2>2. SameTerms(CoverOf(i), [n \in Note |-> 0], Note)
      BY <1>1 DEF SameTerms, CoverOf, Stands
    <2>3. DOMAIN PostedOf(i) = Note /\ DOMAIN CoverOf(i) = Note
      BY DEF PostedOf, CoverOf
    <2>4. SumFunctionOnSet(PostedOf(i), Note) = 0
      BY <1>3, <2>1, SumZero
    <2>5. SumFunctionOnSet(CoverOf(i), Note) = 0
      BY <1>3, <2>2, SumZero
    <2> QED BY <2>3, <2>4, <2>5 DEF SumFunction
  <1>5. Noted
    BY <1>1, <1>2, <1>4 DEF Noted
  <1>6. ASSUME NEW i \in Invoice
        PROVE  Bounded(i)
    <2> SUFFICES ASSUME bill[i] \in Bill PROVE Overpaid(i) <= SumFunction(CoverOf(i))
      BY DEF Bounded, Live
    <2>1. Total(bill[i]) \in Nat
      BY WorthOfBill
    <2> QED BY <1>2, <1>4, <2>1 DEF Overpaid
  <1>7. \A s \in Session : Weighed(s)
    BY DEF Weighed, Init, Idle
  <1> QED BY <1>2, <1>5, <1>6, <1>7 DEF Owed

-----------------------------------------------------------------------------
(* The sums over the notes of an invoice. *)

LEMMA NoteSums ==
    ASSUME TypeOK, NEW i \in Invoice
    PROVE  /\ Whole(PostedOf(i), Note) /\ Whole(CreditOf(i), Note) /\ Whole(CoverOf(i), Note)
           /\ SumFunction(PostedOf(i)) = SumFunctionOnSet(PostedOf(i), Note)
           /\ SumFunction(CoverOf(i)) = SumFunctionOnSet(CoverOf(i), Note)
           /\ Credited(i) = SumFunctionOnSet(CreditOf(i), Note)
           /\ SumFunction(PostedOf(i)) \in Int /\ SumFunction(CoverOf(i)) \in Int
  <1>1. \A n \in Note : note[n].total \in Int /\ credit[n].amount \in Nat
    BY DEF TypeOK, Written
  <1>2. Whole(PostedOf(i), Note)
    BY <1>1 DEF Whole, PostedOf
  <1>3. Whole(CreditOf(i), Note)
    BY <1>1 DEF Whole, CreditOf
  <1>4. Whole(CoverOf(i), Note)
    BY <1>1 DEF Whole, CoverOf, Lesser
  <1>5. DOMAIN PostedOf(i) = Note /\ DOMAIN CoverOf(i) = Note /\ DOMAIN CreditOf(i) = Note
    BY DEF PostedOf, CoverOf, CreditOf
  <1>6. /\ SumFunction(PostedOf(i)) = SumFunctionOnSet(PostedOf(i), Note)
        /\ SumFunction(CoverOf(i)) = SumFunctionOnSet(CoverOf(i), Note)
        /\ SumFunction(CreditOf(i)) = SumFunctionOnSet(CreditOf(i), Note)
    BY <1>5 DEF SumFunction
  <1>7. Credited(i) = SumFunction(CreditOf(i))
    BY DEF Credited, CreditOf
  <1>8. /\ SumFunctionOnSet(PostedOf(i), Note) \in Int
        /\ SumFunctionOnSet(CoverOf(i), Note) \in Int
    BY <1>2, <1>4, SumInt, DocumentAssumption
  <1> QED BY <1>2, <1>3, <1>4, <1>6, <1>7, <1>8

LEMMA NoteSumsNext ==
    TypeOK' => \A i \in Invoice :
        /\ Whole(PostedOf(i)', Note) /\ Whole(CoverOf(i)', Note)
        /\ SumFunction(PostedOf(i))' = SumFunctionOnSet(PostedOf(i)', Note)
        /\ SumFunction(CoverOf(i))' = SumFunctionOnSet(CoverOf(i)', Note)
        /\ SumFunction(PostedOf(i))' \in Int /\ SumFunction(CoverOf(i))' \in Int
  <1>1. TypeOK => \A i \in Invoice :
           /\ Whole(PostedOf(i), Note) /\ Whole(CoverOf(i), Note)
           /\ SumFunction(PostedOf(i)) = SumFunctionOnSet(PostedOf(i), Note)
           /\ SumFunction(CoverOf(i)) = SumFunctionOnSet(CoverOf(i), Note)
           /\ SumFunction(PostedOf(i)) \in Int /\ SumFunction(CoverOf(i)) \in Int
    BY NoteSums
  <1>2. TypeOK' => (\A i \in Invoice :
           /\ Whole(PostedOf(i), Note) /\ Whole(CoverOf(i), Note)
           /\ SumFunction(PostedOf(i)) = SumFunctionOnSet(PostedOf(i), Note)
           /\ SumFunction(CoverOf(i)) = SumFunctionOnSet(CoverOf(i), Note)
           /\ SumFunction(PostedOf(i)) \in Int /\ SumFunction(CoverOf(i)) \in Int)'
    BY <1>1, PTL
  <1> QED BY <1>2

\* A step that writes one note and its credit.
LEMMA OneNoteChanges ==
    ASSUME TypeOK, TypeOK', NEW i \in Invoice, NEW n \in Note,
           \A m \in Note \ {n} : note'[m] = note[m] /\ credit'[m] = credit[m]
    PROVE  /\ SumFunction(PostedOf(i))'
                 = SumFunction(PostedOf(i)) + (PostedOf(i)'[n] - PostedOf(i)[n])
           /\ SumFunction(CoverOf(i))'
                 = SumFunction(CoverOf(i)) + (CoverOf(i)'[n] - CoverOf(i)[n])
  <1>1. /\ Whole(PostedOf(i), Note) /\ Whole(CoverOf(i), Note)
        /\ Whole(PostedOf(i)', Note) /\ Whole(CoverOf(i)', Note) /\ IsFiniteSet(Note)
    BY NoteSums, NoteSumsNext, DocumentAssumption
  <1>2. SameTerms(PostedOf(i), PostedOf(i)', Note \ {n})
    BY DEF SameTerms, PostedOf, PostedOn
  <1>3. SameTerms(CoverOf(i), CoverOf(i)', Note \ {n})
    BY DEF SameTerms, CoverOf, Stands
  <1>4. SumFunctionOnSet(PostedOf(i)', Note)
           = SumFunctionOnSet(PostedOf(i), Note) + (PostedOf(i)'[n] - PostedOf(i)[n])
    BY <1>1, <1>2, SumChange
  <1>5. SumFunctionOnSet(CoverOf(i)', Note)
           = SumFunctionOnSet(CoverOf(i), Note) + (CoverOf(i)'[n] - CoverOf(i)[n])
    BY <1>1, <1>3, SumChange
  <1> QED BY <1>4, <1>5, NoteSums, NoteSumsNext

LEMMA NotesStay ==
    ASSUME note' = note, credit' = credit, NEW i \in Invoice
    PROVE  PostedOf(i)' = PostedOf(i) /\ CoverOf(i)' = CoverOf(i)
  BY DEF PostedOf, PostedOn, CoverOf, Stands

\* What is covered is not negative, and no more than what is credited.
LEMMA CoverBounds ==
    ASSUME TypeOK, Noted, NEW i \in Invoice
    PROVE  0 <= SumFunction(CoverOf(i)) /\ SumFunction(CoverOf(i)) <= Credited(i)
  <1>1. \A n \in Note : note[n].total \in Nat /\ credit[n].amount \in Nat
    BY DEF TypeOK, Noted
  <1> DEFINE Zero == [n \in Note |-> 0]
  <1>2. Below(Zero, CoverOf(i), Note)
    BY <1>1 DEF Below, CoverOf, Lesser
  <1>3. Below(CoverOf(i), CreditOf(i), Note)
    BY <1>1 DEF Below, CoverOf, CreditOf, Lesser
  <1>4. Whole(Zero, Note) /\ SameTerms(Zero, [n \in Note |-> 0], Note)
    BY DEF Whole, SameTerms
  <1> HIDE DEF Zero
  <1>5. /\ Whole(CoverOf(i), Note) /\ Whole(CreditOf(i), Note) /\ IsFiniteSet(Note)
        /\ SumFunction(CoverOf(i)) = SumFunctionOnSet(CoverOf(i), Note)
        /\ Credited(i) = SumFunctionOnSet(CreditOf(i), Note)
    BY NoteSums, DocumentAssumption
  <1>6. SumFunctionOnSet(Zero, Note) = 0
    BY <1>4, <1>5, SumZero
  <1>7. SumFunctionOnSet(Zero, Note) <= SumFunctionOnSet(CoverOf(i), Note)
    BY <1>2, <1>4, <1>5, SumGrows
  <1>8. SumFunctionOnSet(CoverOf(i), Note) <= SumFunctionOnSet(CreditOf(i), Note)
    BY <1>3, <1>5, SumGrows
  <1> QED BY <1>5, <1>6, <1>7, <1>8


-----------------------------------------------------------------------------
(* Steps that read. *)

LEMMA ReadsWeighed ==
    ASSUME OneHand, TypeOK, Carrying, Noted, NEW s \in Session, Weighed(s), Reads(s)
    PROVE  Weighed(s)'
  <1>1. req[s] \in Carried /\ req \in [Session -> Carried] /\ Sound(s, req[s])
    BY DEF TypeOK, Carrying
  <1>2. bill' = bill /\ paid' = paid /\ back' = back /\ note' = note
    BY ReadsOnly DEF documents, notes
  <1>3. CASE BeginInvoice(s) \/ BeginCancel(s) \/ BeginReceipt(s)
    <2>1. req'[s].op \in {"invoice", "cancel", "receipt"}
      <3>1. CASE BeginInvoice(s)
        BY <1>1, <3>1 DEF BeginInvoice, Goes, Idle
      <3>2. CASE BeginCancel(s)
        BY <1>1, <3>2 DEF BeginCancel, Goes, Idle
      <3>3. CASE BeginReceipt(s)
        BY <1>1, <3>3 DEF BeginReceipt, Goes, Idle
      <3> QED BY <1>3, <3>1, <3>2, <3>3
    <2> QED BY <2>1 DEF Weighed
  <1>15. CASE BeginResolve(s) \/ BeginRefund(s)
    <2>1. \E n \in Note : /\ credit[n].state \in {"pending", "awaiting_refund"}
                         /\ req'[s].op \in {"resolve", "refund"} /\ req'[s].note = n
      <3>1. CASE BeginResolve(s)
        BY <1>1, <3>1 DEF BeginResolve, Goes, Idle
      <3>2. CASE BeginRefund(s)
        BY <1>1, <3>2 DEF BeginRefund, Goes, Idle
      <3> QED BY <1>15, <3>1, <3>2
    <2>2. PICK n \in Note : /\ credit[n].state \in {"pending", "awaiting_refund"}
                           /\ req'[s].op \in {"resolve", "refund"} /\ req'[s].note = n
      BY <2>1
    <2>3. note[n].status # "none"
      BY <2>2 DEF Noted
    <2> QED BY <1>2, <2>2, <2>3 DEF Weighed
  <1>4. CASE BeginEdit(s)
    <2>1. PICK i \in Invoice :
             /\ Live(i)
             /\ \/ \E d \in Bill : Goes(s, [Load(s, "update", i) EXCEPT !.bill = d, !.at = "count"])
                \/ Goes(s, [Load(s, "delete", i) EXCEPT !.at = "count"])
      BY <1>4 DEF BeginEdit
    <2>2. /\ Load(s, "update", i) \in Carried /\ Load(s, "update", i).op = "update"
          /\ Load(s, "delete", i) \in Carried /\ Load(s, "delete", i).op = "delete"
          /\ Load(s, "update", i).invoice = i /\ Load(s, "update", i).paid = paid[i]
      BY LoadIsCarried DEF Operation
    <2>3. bill[i] # None
      BY <2>1, DocumentAssumption DEF Live
    <2>4. CASE Goes(s, [Load(s, "delete", i) EXCEPT !.at = "count"])
      <3>1. req'[s].op = "delete"
        BY <1>1, <2>2, <2>4 DEF Goes, Carried
      <3> QED BY <3>1 DEF Weighed
    <2>5. ASSUME NEW d \in Bill,
                 Goes(s, [Load(s, "update", i) EXCEPT !.bill = d, !.at = "count"])
          PROVE  Weighed(s)'
      <3>1. req'[s].op = "update" /\ req'[s].invoice = i /\ req'[s].paid = paid[i]
        BY <1>1, <2>2, <2>5 DEF Goes, Carried
      <3> QED BY <1>2, <2>3, <3>1 DEF Weighed
    <2> QED BY <2>1, <2>4, <2>5
  <1>5. CASE BeginReturn(s)
    <2>1. PICK i \in Invoice :
             \E q, u : Goes(s, [Load(s, "return", i) EXCEPT !.at = "lines", !.asked = q,
                                                            !.left = q, !.seen = u])
      BY <1>5 DEF BeginReturn
    <2>2. /\ Load(s, "return", i) \in Carried /\ Load(s, "return", i).op = "return"
          /\ Load(s, "return", i).invoice = i /\ Load(s, "return", i).paid = paid[i]
          /\ Load(s, "return", i).sum = 0
      BY LoadIsCarried, LoadStarts DEF Operation
    <2>3. /\ req'[s].op = "return" /\ req'[s].at = "lines" /\ req'[s].invoice = i
          /\ req'[s].paid = paid[i] /\ req'[s].sum = 0
      BY <1>1, <2>1, <2>2 DEF Goes, Carried
    <2> QED BY <1>2, <2>3 DEF Weighed
  <1>6. CASE BeginCollect(s)
    <2>1. PICK i \in Invoice :
             /\ Live(i)
             /\ Goes(s, [Load(s, "collect", i) EXCEPT !.bill = bill[i], !.at = "returned"])
      BY <1>6 DEF BeginCollect
    <2>2. /\ Load(s, "collect", i) \in Carried /\ Load(s, "collect", i).op = "collect"
          /\ Load(s, "collect", i).invoice = i /\ Load(s, "collect", i).paid = paid[i]
      BY LoadIsCarried DEF Operation
    <2>3. /\ req'[s].op = "collect" /\ req'[s].invoice = i /\ req'[s].paid = paid[i]
          /\ req'[s].bill = bill[i] /\ req'[s].at = "returned"
      BY <1>1, <2>1, <2>2 DEF Goes, Carried
    <2>4. bill[i] # None
      BY <2>1, DocumentAssumption DEF Live
    <2> QED BY <1>2, <2>3, <2>4 DEF Weighed, Live
  <1>7. CASE CountReturns(s)
    <2>1. /\ req'[s].op = req[s].op /\ req'[s].invoice = req[s].invoice
          /\ req'[s].paid = req[s].paid /\ req'[s].note = req[s].note
      BY <1>1, <1>7 DEF CountReturns, Goes, Carried
    <2>2. req[s].op \notin {"collect", "return"}
      BY <1>7 DEF CountReturns, Weighed
    <2> QED BY <1>2, <2>1, <2>2 DEF Weighed
  <1>8. CASE ResetInvoice(s)
    <2>1. /\ req'[s].op = "update" /\ req'[s].invoice = req[s].invoice
          /\ req'[s].paid = req[s].paid /\ req[s].op = "update"
      BY <1>1, <1>8 DEF ResetInvoice, Doing, Goes, Carried
    <2> QED BY <1>2, <2>1 DEF Weighed
  <1>9. CASE ReturnLine(s)
    <2>1. /\ req'[s].op = "return" /\ req'[s].sum = req[s].sum /\ req'[s].at = "lines"
          /\ req'[s].invoice = req[s].invoice /\ req'[s].paid = req[s].paid
          /\ req[s].op = "return"
      BY <1>1, <1>9 DEF ReturnLine, Doing, Goes, Carried
    <2> QED BY <1>2, <2>1, SMTT(30) DEF Weighed
  <1>10. CASE PriceReturn(s)
    <2> DEFINE d == bill[req[s].invoice]
    <2>1. req[s].op = "return" /\ req[s].at = "lines" /\ d \in Bill
      BY <1>1, <1>10 DEF PriceReturn, Doing, Sound, Live
    <2>2. d.discount = 0
      BY <2>1 DEF OneHand
    <2>3. DiscountShare(d, back[req[s].invoice], req[s].asked * d.price) = 0
      BY <2>2 DEF DiscountShare
    <2>4. /\ req'[s].op = "return" /\ req'[s].at = "weigh"
          /\ req'[s].invoice = req[s].invoice /\ req'[s].paid = req[s].paid
          /\ req'[s].sum = DiscountShare(d, back[req[s].invoice], req[s].asked * d.price)
      BY <1>1, <1>10, <2>1 DEF PriceReturn, Goes, Carried
    <2> QED BY <1>2, <2>1, <2>3, <2>4 DEF Weighed
  <1>11. CASE WeighReturn(s)
    <2>1. PICK i \in Invoice : i = req[s].invoice
      BY <1>1, <1>11 DEF WeighReturn, Doing, Sound
    <2>2. PICK over : over = req[s].paid - (Total(bill[i]) - (back[i].total + NoteTotal(s)))
      OBVIOUS
    <2>3. /\ req[s].op = "return" /\ Live(i)
          /\ Goes(s, [req[s] EXCEPT !.at = "post", !.over = over])
      BY <1>1, <1>11, <2>1, <2>2 DEF WeighReturn, Doing, Sound
    <2>4. /\ req'[s].op = "return" /\ req'[s].invoice = i /\ req'[s].paid = req[s].paid
          /\ req'[s].sum = req[s].sum /\ req'[s].asked = req[s].asked /\ req'[s].over = over
          /\ req'[s].at = "post"
      BY <1>1, <2>1, <2>3 DEF Goes, Carried
    <2>5. NoteTotal(s)' = NoteTotal(s)
      BY <1>2, <2>1, <2>4 DEF NoteTotal
    <2>6. over \in Int
      <3>1. NoteTotal(s) \in Int
        BY <2>1, <2>3, NoteTotalType
      <3>2. Total(bill[i]) \in Int
        BY <2>3, DocumentFields DEF Live
      <3>3. back[i].total \in Int /\ req[s].paid \in Int
        BY <1>1 DEF TypeOK, Sums, Carried
      <3> QED BY <2>2, <3>1, <3>2, <3>3
    <2>7. req[s].sum = 0 /\ req[s].paid = paid[i]
      BY <2>1, <2>3 DEF Weighed
    <2> QED BY <1>2, <2>2, <2>4, <2>5, <2>6, <2>7 DEF Weighed
  <1>12. CASE ReadReturned(s)
    <2>1. PICK i \in Invoice : i = req[s].invoice
      BY <1>1, <1>12 DEF ReadReturned, Doing, Sound
    <2>2. /\ req[s].op = "collect" /\ req[s].bill \in Bill
          /\ Goes(s, [req[s] EXCEPT !.at = "post", !.sum = Total(req[s].bill) - back[i].total])
      BY <1>1, <1>12, <2>1 DEF ReadReturned, Doing, Sound
    <2>3. /\ req'[s].op = "collect" /\ req'[s].invoice = i /\ req'[s].paid = req[s].paid
          /\ req'[s].bill = req[s].bill
          /\ req'[s].sum = Total(req[s].bill) - back[i].total /\ req'[s].at = "post"
      BY <1>1, <2>1, <2>2 DEF Goes, Carried
    <2>4. Total(req[s].bill) \in Int /\ back[i].total \in Int
      BY <2>2, DocumentFields DEF TypeOK, Sums
    <2> QED BY <1>2, <2>1, <2>2, <2>3, <2>4 DEF Weighed, Live
  <1>13. CASE ReadCredit(s)
    <2>1. req'[s].op = "cancel"
      BY <1>1, <1>13 DEF ReadCredit, Doing, Goes, Carried
    <2> QED BY <2>1 DEF Weighed
  <1>14. CASE ReadBalance(s)
    <2>1. /\ req'[s].op = req[s].op /\ req'[s].invoice = req[s].invoice
          /\ req'[s].paid = req[s].paid /\ req'[s].note = req[s].note
      BY <1>1, <1>14 DEF ReadBalance, Goes, Carried
    <2>2. req[s].op \notin {"collect", "return"}
      BY <1>14 DEF ReadBalance, Weighed
    <2> QED BY <1>2, <2>1, <2>2 DEF Weighed
  <1> QED
    BY <1>3, <1>4, <1>5, <1>6, <1>7, <1>8, <1>9, <1>10, <1>11, <1>12, <1>13, <1>14, <1>15 DEF Reads


-----------------------------------------------------------------------------
(* Steps that write. *)

\* What the other sessions may do to an invoice: delete it, or cancel its notes.
LEMMA OthersWrite ==
    ASSUME TypeOK, TypeOK', Carrying, Noted, NEW s \in Session, Step(s),
           req[s].op \notin AtTheInvoice, NEW j \in Invoice, bill[j] # None
    PROVE  /\ \/ bill'[j] = bill[j] /\ paid'[j] = paid[j]
              \/ /\ req[s].op = "delete" /\ held[j] \in {None, s} /\ ~Live(j)'
           /\ back'[j].total <= back[j].total
           /\ bill'[j] # None
  <1>1. Sound(s, req[s]) /\ back[j].total \in Int /\ req[s] \in Carried
    BY DEF Carrying, TypeOK, Sums
  <1>2. bill'[j] # None
    BY NeverUnissued
  <1>3. CASE PostInvoice(s)
    <2>1. PICK i \in Invoice : bill[i] = None /\ bill' = [bill EXCEPT ![i] = req[s].bill]
      BY <1>3 DEF PostInvoice, IsNext
    <2>2. bill'[j] = bill[j] /\ paid' = paid /\ back' = back
      BY <1>3, <2>1 DEF PostInvoice, TypeOK
    <2> QED BY <1>1, <1>2, <2>2
  <1>4. CASE DeleteInvoice(s)
    <2>1. /\ req[s].op = "delete" /\ held[req[s].invoice] \in {None, s}
          /\ bill' = [bill EXCEPT ![req[s].invoice] = Deleted]
          /\ paid' = [paid EXCEPT ![req[s].invoice] = 0] /\ back' = back
      BY <1>4 DEF DeleteInvoice, Doing, Writable
    <2>2. CASE req[s].invoice = j
      <3>1. bill'[j] = Deleted
        BY <2>1, <2>2 DEF TypeOK
      <3>2. ~Live(j)'
        BY <3>1, DocumentAssumption DEF Live
      <3> QED BY <1>1, <1>2, <2>1, <2>2, <3>2
    <2>3. CASE req[s].invoice # j
      <3>1. bill'[j] = bill[j] /\ paid'[j] = paid[j]
        BY <2>1, <2>3 DEF TypeOK
      <3> QED BY <1>1, <1>2, <2>1, <3>1
    <2> QED BY <2>2, <2>3
  <1>5. CASE CancelNote(s)
    <2> DEFINE n == req[s].note
    <2>1. /\ n \in Note /\ bill' = bill /\ paid' = paid
          /\ back' = [back EXCEPT ![note[n].invoice] = Added(@, note[n], -1)]
          /\ note[n].total \in Nat /\ note[n].invoice \in Invoice
      BY <1>1, <1>5 DEF CancelNote, Doing, Sound, Noted
    <2> HIDE DEF n
    <2>2. note[n].invoice = j => back'[j].total = back[j].total + (-1) * note[n].total
      BY <2>1 DEF TypeOK, Added
    <2>3. note[n].invoice # j => back'[j] = back[j]
      BY <2>1 DEF TypeOK
    <2> QED BY <1>1, <1>2, <2>1, <2>2, <2>3
  <1>6. CASE Reads(s)
    BY <1>1, <1>2, <1>6, ReadsOnly DEF documents
  <1>7. CASE ResolveCredit(s) \/ RefundCredit(s) \/ CreatePayment(s) \/ Abort(s)
    BY <1>1, <1>2, <1>7 DEF ResolveCredit, RefundCredit, CreatePayment, Abort, documents
  <1>8. CASE RepostInvoice(s) \/ PostReturn(s) \/ CollectPayment(s)
    BY <1>8 DEF AtTheInvoice, RepostInvoice, PostReturn, CollectPayment, Doing
  <1> QED BY <1>3, <1>4, <1>5, <1>6, <1>7, <1>8 DEF Step, Reads

\* A note that was written stays so.
LEMMA WrittenStays ==
    ASSUME TypeOK, Carrying, NEW s \in Session, Step(s), NEW n \in Note,
           note[n].status # "none"
    PROVE  note'[n].status # "none"
  <1>1. CASE PostReturn(s)
    <2> DEFINE x == [invoice |-> req[s].invoice, status |-> "posted", units |-> req[s].take,
                     sub |-> req[s].asked * bill[req[s].invoice].price,
                     discount |-> req[s].sum, total |-> NoteTotal(s)]
    <2>1. x.status = "posted" /\ \E m \in Note : note' = [note EXCEPT ![m] = x]
      BY <1>1 DEF PostReturn
    <2> HIDE DEF x
    <2> QED BY <2>1 DEF TypeOK
  <1>2. CASE CancelNote(s)
    <2>1. req[s].note \in Note /\ note' = [note EXCEPT ![req[s].note].status = "cancelled"]
      BY <1>2 DEF CancelNote, Doing, Carrying, Sound
    <2> QED BY <2>1 DEF TypeOK, Written
  <1> QED BY <1>1, <1>2, WhoWrites

\* What another session has weighed survives a step.
LEMMA OthersWeighed ==
    ASSUME OneHand, TypeOK, TypeOK', Carrying, Assigned, Noted, NEW s \in Session, Step(s),
           NEW t \in Session, t # s, Weighed(t)
    PROVE  Weighed(t)'
  <1>1. /\ req'[t] = req[t] /\ req[t] \in Carried /\ Sound(t, req[t]) /\ t # None
        /\ req[s].op \in Duties[s] \cup {"none"} /\ req[t].op \in Duties[t] \cup {"none"}
    BY OthersStay, DocumentAssumption DEF TypeOK, Assigned, Carrying
  <1>2. CASE req[t].op \notin AtTheInvoice
    <2>1. ASSUME req[t].op \in {"resolve", "refund"} PROVE note'[req[t].note].status # "none"
      BY <1>1, <2>1, WrittenStays DEF Weighed, Sound
    <2> QED BY <1>1, <1>2, <2>1 DEF Weighed, AtTheInvoice
  <1>3. CASE req[t].op \in AtTheInvoice
    <2>1. req[s].op \notin AtTheInvoice
      BY <1>1, <1>3 DEF OneHand, AtTheInvoice
    <2>2. PICK j \in Invoice : j = req[t].invoice
      BY <1>1, <1>3 DEF Sound, AtTheInvoice
    <2>3. bill[j] # None
      BY <1>1, <1>3, <2>2, DocumentAssumption DEF Weighed, Sound, Live, AtTheInvoice
    <2>4. /\ \/ bill'[j] = bill[j] /\ paid'[j] = paid[j]
             \/ /\ req[s].op = "delete" /\ held[j] \in {None, s} /\ ~Live(j)'
          /\ back'[j].total <= back[j].total
          /\ bill'[j] # None
      BY <2>1, <2>3, OthersWrite
    <2>5. back[j].total \in Int /\ back'[j].total \in Int /\ req[t].sum \in Int
          /\ req[t].over \in Int /\ req[t].paid \in Nat
      BY <1>1 DEF TypeOK, Sums, Carried
    <2>6. CASE req[t].op = "collect"
      <3>1. CASE bill'[j] = bill[j] /\ paid'[j] = paid[j]
        <4>1. ASSUME Live(j), req[t].at = "post"
              PROVE  req[t].sum <= Total(bill[j]) - back'[j].total
          <5>1. Total(bill[j]) \in Int
            BY <4>1, DocumentFields DEF Live
          <5>2. req[t].sum <= Total(bill[j]) - back[j].total
            BY <2>2, <2>6, <4>1 DEF Weighed
          <5> QED BY <2>4, <2>5, <5>1, <5>2
        <4>2. Live(j)' <=> Live(j)
          BY <3>1 DEF Live
        <4> QED BY <1>1, <2>2, <2>4, <2>6, <3>1, <4>1, <4>2 DEF Weighed, Live
      <3>2. CASE ~Live(j)'
        BY <1>1, <2>2, <2>4, <2>6, <3>2 DEF Weighed, Live
      <3> QED BY <2>4, <3>1, <3>2
    <2>7. CASE req[t].op = "return"
      <3>1. held[j] = t /\ Live(j)
        BY <1>1, <2>2, <2>7 DEF Sound
      <3>2. bill'[j] = bill[j] /\ paid'[j] = paid[j]
        BY <1>1, <2>4, <3>1
      <3>3. NoteTotal(t)' = NoteTotal(t)
        BY <1>1, <2>2, <3>2 DEF NoteTotal
      <3>4. NoteTotal(t) \in Int /\ Total(bill[j]) \in Int
        BY <2>2, <3>1, NoteTotalType, DocumentFields DEF Live
      <3>5. ASSUME req[t].at = "post"
            PROVE  req[t].over >= req[t].paid - (Total(bill[j]) - (back'[j].total + NoteTotal(t)))
        <4>1. req[t].over >= req[t].paid - (Total(bill[j]) - (back[j].total + NoteTotal(t)))
          BY <2>2, <2>7, <3>5 DEF Weighed
        <4> QED BY <2>4, <2>5, <3>4, <4>1
      <3> QED BY <1>1, <2>2, <2>7, <3>2, <3>3, <3>5 DEF Weighed
    <2>8. CASE req[t].op = "update"
      <3>1. req[s].op # "delete"
        BY <1>1, <2>8, DutyAssumption
      <3>2. bill'[j] = bill[j] /\ paid'[j] = paid[j]
        BY <2>4, <3>1
      <3> QED BY <1>1, <2>2, <2>4, <2>8, <3>2 DEF Weighed
    <2> QED BY <1>3, <2>6, <2>7, <2>8 DEF AtTheInvoice
  <1> QED BY <1>2, <1>3


-----------------------------------------------------------------------------
(* What is overpaid, and what covers it. *)

LEMMA CoverBoundsNext ==
    TypeOK' /\ Noted' => \A i \in Invoice : 0 <= SumFunction(CoverOf(i))'
  <1>1. TypeOK /\ Noted => \A i \in Invoice : 0 <= SumFunction(CoverOf(i))
    BY CoverBounds
  <1>2. TypeOK' /\ Noted' => (\A i \in Invoice : 0 <= SumFunction(CoverOf(i)))'
    BY <1>1, PTL
  <1> QED BY <1>2

LEMMA MoneyTypes ==
    ASSUME TypeOK, TypeOK', NEW i \in Invoice
    PROVE  /\ paid[i] \in Nat /\ paid'[i] \in Nat
           /\ back[i].total \in Int /\ back'[i].total \in Int
           /\ Live(i) => Total(bill[i]) \in Int
           /\ Live(i)' => Total(bill'[i]) \in Int
           /\ SumFunction(CoverOf(i)) \in Int /\ SumFunction(CoverOf(i))' \in Int
  <1>1. /\ paid[i] \in Nat /\ paid'[i] \in Nat
        /\ back[i].total \in Int /\ back'[i].total \in Int
    BY DEF TypeOK, Sums
  <1>2. /\ Live(i) => Total(bill[i]) \in Int
        /\ Live(i)' => Total(bill'[i]) \in Int
    BY DocumentFields DEF Live
  <1> QED BY <1>1, <1>2, NoteSums, NoteSumsNext

\* An invoice whose own columns stay, and of which no more is credited back
\* than is covered besides.
LEMMA BoundKept ==
    ASSUME TypeOK, TypeOK', NEW i \in Invoice, Bounded(i),
           bill'[i] = bill[i], paid'[i] = paid[i],
           back'[i].total - back[i].total
               <= SumFunction(CoverOf(i))' - SumFunction(CoverOf(i))
    PROVE  Bounded(i)'
  <1> SUFFICES ASSUME Live(i)'
               PROVE  Overpaid(i)' <= SumFunction(CoverOf(i))'
    BY DEF Bounded
  <1>1. Live(i)
    BY DEF Live
  <1>2. PICK c \in Int, c2 \in Int : c = SumFunction(CoverOf(i)) /\ c2 = SumFunction(CoverOf(i))'
    BY MoneyTypes
  <1>3. PICK t \in Int : t = Total(bill[i])
    BY <1>1, MoneyTypes
  <1>4. Overpaid(i) = paid[i] - (t - back[i].total) /\ Overpaid(i) <= c
    BY <1>1, <1>2, <1>3 DEF Overpaid, Bounded
  <1>5. Overpaid(i)' = paid[i] - (t - back'[i].total)
    BY <1>3 DEF Overpaid
  <1>6. back'[i].total - back[i].total <= c2 - c
    BY <1>2
  <1>7. paid[i] \in Nat /\ back[i].total \in Int /\ back'[i].total \in Int
    BY MoneyTypes
  <1>8. paid[i] - (t - back'[i].total) <= c2
    BY <1>2, <1>3, <1>4, <1>6, <1>7
  <1> QED BY <1>2, <1>5, <1>8

\* An invoice of which no more has been paid than it is worth.
LEMMA BoundMet ==
    ASSUME TypeOK, TypeOK', Noted', NEW i \in Invoice,
           Live(i)' => paid'[i] <= Total(bill'[i]) - back'[i].total
    PROVE  Bounded(i)'
  <1> SUFFICES ASSUME Live(i)'
               PROVE  Overpaid(i)' <= SumFunction(CoverOf(i))'
    BY DEF Bounded
  <1>1. PICK c \in Int : c = SumFunction(CoverOf(i))' /\ 0 <= c
    BY MoneyTypes, CoverBoundsNext
  <1>2. PICK t \in Int : t = Total(bill'[i])
    BY MoneyTypes
  <1>3. Overpaid(i)' = paid'[i] - (t - back'[i].total)
    BY <1>2 DEF Overpaid
  <1>4. paid'[i] <= t - back'[i].total /\ paid'[i] \in Nat /\ back'[i].total \in Int
    BY <1>2, MoneyTypes
  <1> QED BY <1>1, <1>2, <1>3, <1>4

\* Of an invoice with no posted note nothing has been credited back.
LEMMA NothingCredited ==
    ASSUME TypeOK, Noted, NEW i \in Invoice, \A n \in Note : ~PostedOn(n, i)
    PROVE  back[i].total = 0
  <1>1. SameTerms(PostedOf(i), [n \in Note |-> 0], Note)
    BY DEF SameTerms, PostedOf
  <1>2. SumFunctionOnSet(PostedOf(i), Note) = 0
    BY <1>1, SumZero, DocumentAssumption
  <1> QED BY <1>2, NoteSums DEF Noted

\* Steps that leave notes, credits and what has been credited back alone.
LEMMA StillNoted ==
    ASSUME TypeOK, Noted, note' = note, credit' = credit, back' = back
    PROVE  /\ Noted'
           /\ \A i \in Invoice : SumFunction(CoverOf(i))' = SumFunction(CoverOf(i))
  <1>1. \A i \in Invoice : PostedOf(i)' = PostedOf(i) /\ CoverOf(i)' = CoverOf(i)
    BY NotesStay
  <1> QED BY <1>1 DEF Noted

LEMMA PlainOwed ==
    ASSUME OneHand, TypeOK, TypeOK', Carrying, Frozen, Owed, NEW s \in Session,
           \/ Reads(s) \/ Abort(s) \/ CreatePayment(s)
           \/ PostInvoice(s) \/ RepostInvoice(s) \/ DeleteInvoice(s) \/ CollectPayment(s)
    PROVE  Noted' /\ \A i \in Invoice : Bounded(i)'
  <1>1. note' = note /\ credit' = credit /\ back' = back
    BY ReadsOnly DEF documents, notes, Abort, CreatePayment, PostInvoice, RepostInvoice,
                     DeleteInvoice, CollectPayment
  <1>2. Noted' /\ \A i \in Invoice : SumFunction(CoverOf(i))' = SumFunction(CoverOf(i))
    BY <1>1, StillNoted DEF Owed
  <1>3. ASSUME NEW i \in Invoice, bill'[i] = bill[i], paid'[i] = paid[i]
        PROVE  Bounded(i)'
    <2>1. back'[i].total - back[i].total
             <= SumFunction(CoverOf(i))' - SumFunction(CoverOf(i))
      BY <1>1, <1>2, MoneyTypes
    <2> QED BY <1>3, <2>1, BoundKept DEF Owed
  <1>4. CASE Reads(s) \/ Abort(s) \/ CreatePayment(s)
    <2>1. bill' = bill /\ paid' = paid
      BY <1>4, ReadsOnly DEF Abort, CreatePayment, documents
    <2> QED BY <1>2, <1>3, <2>1
  <1>5. Sound(s, req[s]) /\ Weighed(s) /\ Uncredited(req[s]) /\ req[s] \in Carried
    BY DEF Carrying, Owed, Frozen, TypeOK
  <1>6. CASE PostInvoice(s)
    <2>1. PICK d \in Bill : d = req[s].bill
      BY <1>5, <1>6 DEF PostInvoice, Doing, Sound
    <2>2. PICK i \in Invoice : bill[i] = None /\ bill' = [bill EXCEPT ![i] = d]
      BY <1>6, <2>1 DEF PostInvoice, IsNext
    <2>3. paid' = paid /\ paid[i] = 0 /\ bill'[i] = d
      BY <1>6, <2>2 DEF PostInvoice, Owed, TypeOK
    <2>4. back'[i].total = 0
      <3>1. \A n \in Note : ~PostedOn(n, i)
        BY <2>2 DEF Frozen, PostedOn
      <3> QED BY <1>1, <3>1, NothingCredited DEF Owed
    <2>5. Total(d) \in Nat
      BY WorthOfBill
    <2>6. Bounded(i)'
      BY <1>2, <2>3, <2>4, <2>5, BoundMet
    <2>7. \A j \in Invoice : j # i => bill'[j] = bill[j]
      BY <2>2 DEF TypeOK
    <2> QED BY <1>2, <1>3, <2>3, <2>6, <2>7
  <1>7. CASE RepostInvoice(s)
    <2>1. PICK d \in Bill, i \in Invoice : d = req[s].bill /\ i = req[s].invoice
      BY <1>5, <1>7 DEF RepostInvoice, Doing, Sound
    <2>2. /\ bill' = [bill EXCEPT ![i] = d]
          /\ paid' = [paid EXCEPT ![i] = IF req[s].paid = 0 THEN @ ELSE 0]
          /\ req[s].op = "update" /\ req[s].at = "post"
      BY <1>7, <2>1 DEF RepostInvoice, Doing
    <2>3. bill'[i] = d /\ paid'[i] = 0
      BY <1>5, <2>1, <2>2 DEF Weighed, TypeOK
    <2>4. back'[i].total = 0
      <3>1. \A n \in Note : ~PostedOn(n, i)
        BY <1>5, <2>1, <2>2 DEF Uncredited
      <3> QED BY <1>1, <3>1, NothingCredited DEF Owed
    <2>5. Total(d) \in Nat
      BY WorthOfBill
    <2>6. Bounded(i)'
      BY <1>2, <2>3, <2>4, <2>5, BoundMet
    <2>7. \A j \in Invoice : j # i => bill'[j] = bill[j] /\ paid'[j] = paid[j]
      BY <2>2 DEF TypeOK
    <2> QED BY <1>2, <1>3, <2>6, <2>7
  <1>8. CASE DeleteInvoice(s)
    <2>1. PICK i \in Invoice : i = req[s].invoice
      BY <1>5, <1>8 DEF DeleteInvoice, Doing, Sound
    <2>2. bill' = [bill EXCEPT ![i] = Deleted] /\ paid' = [paid EXCEPT ![i] = 0]
      BY <1>8, <2>1 DEF DeleteInvoice
    <2>3. ~Live(i)'
      BY <2>2, DocumentAssumption DEF Live, TypeOK
    <2>4. Bounded(i)'
      BY <2>3 DEF Bounded
    <2>5. \A j \in Invoice : j # i => bill'[j] = bill[j] /\ paid'[j] = paid[j]
      BY <2>2 DEF TypeOK
    <2> QED BY <1>2, <1>3, <2>4, <2>5
  <1>9. CASE CollectPayment(s)
    <2>1. PICK i \in Invoice : i = req[s].invoice
      BY <1>5, <1>9 DEF CollectPayment, Doing, Sound
    <2>2. PICK amount \in Amount :
             /\ amount <= req[s].sum - req[s].paid
             /\ paid' = [paid EXCEPT ![i] = req[s].paid + amount]
      BY <1>9, <2>1 DEF CollectPayment
    <2>3. /\ bill' = bill /\ Live(i) /\ paid'[i] = req[s].paid + amount
          /\ req[s].sum <= Total(bill[i]) - back[i].total
      BY <1>5, <1>9, <2>1, <2>2 DEF CollectPayment, Doing, Weighed, TypeOK
    <2>4. /\ amount \in Nat /\ req[s].sum \in Int /\ req[s].paid \in Nat
          /\ Total(bill[i]) \in Int /\ back[i].total \in Int
      BY <1>5, <2>3, MoneyTypes, DocumentAssumption DEF Carried
    <2>5. paid'[i] <= Total(bill'[i]) - back'[i].total
      BY <1>1, <2>2, <2>3, <2>4
    <2>6. Bounded(i)'
      BY <1>2, <2>5, BoundMet
    <2>7. \A j \in Invoice : j # i => bill'[j] = bill[j] /\ paid'[j] = paid[j]
      BY <2>2, <2>3 DEF TypeOK
    <2> QED BY <1>2, <1>3, <2>6, <2>7
  <1> QED BY <1>4, <1>6, <1>7, <1>8, <1>9


\* A decision on a credit, or its payment: it stands, as it may have before.
LEMMA CreditOwed ==
    ASSUME TypeOK, TypeOK', Carrying, Owed, NEW s \in Session,
           ResolveCredit(s) \/ RefundCredit(s)
    PROVE  Noted' /\ \A i \in Invoice : Bounded(i)'
  <1>1. PICK n \in Note : n = req[s].note /\ note[n].status # "none"
    BY DEF Carrying, Sound, Owed, Weighed, ResolveCredit, RefundCredit, Doing
  <1>2. \E r \in {"awaiting_refund", "credited", "refunded"} :
           credit' = [credit EXCEPT ![n].state = r]
    BY <1>1 DEF ResolveCredit, RefundCredit
  <1>3. /\ note' = note /\ back' = back /\ bill' = bill /\ paid' = paid
    BY DEF ResolveCredit, RefundCredit, documents
  <1>4. /\ \A m \in Note \ {n} : note'[m] = note[m] /\ credit'[m] = credit[m]
        /\ credit'[n].state \notin {"none", "deleted"}
        /\ credit'[n].amount = credit[n].amount
    BY <1>2, <1>3 DEF TypeOK
  <1>5. Noted'
    <2>1. \A i \in Invoice : PostedOf(i)' = PostedOf(i)
      BY <1>3 DEF PostedOf, PostedOn
    <2>2. \A m \in Note : note'[m].status = "none" => credit'[m].state = "none"
      BY <1>1, <1>3, <1>4 DEF Owed, Noted
    <2> QED BY <1>3, <2>1, <2>2 DEF Owed, Noted
  <1>6. ASSUME NEW i \in Invoice PROVE Bounded(i)'
    <2>1. CoverOf(i)[n] <= CoverOf(i)'[n] /\ CoverOf(i)[n] \in Int /\ CoverOf(i)'[n] \in Int
      <3>1. note[n].total \in Nat /\ credit[n].amount \in Nat
        BY DEF TypeOK, Owed, Noted
      <3>2. PICK w \in Nat : w = Lesser(note[n].total, credit[n].amount)
        BY <3>1 DEF Lesser
      <3>3. CoverOf(i)[n] \in {0, w}
        BY <3>2 DEF CoverOf
      <3>4. CoverOf(i)'[n] = IF note[n].invoice = i THEN w ELSE 0
        BY <1>3, <1>4, <3>2 DEF CoverOf, Stands
      <3>5. note[n].invoice # i => CoverOf(i)[n] = 0
        BY DEF CoverOf, Stands
      <3> QED BY <3>2, <3>3, <3>4, <3>5
    <2>2. SumFunction(CoverOf(i))'
             = SumFunction(CoverOf(i)) + (CoverOf(i)'[n] - CoverOf(i)[n])
      BY <1>4, OneNoteChanges
    <2>3. back'[i].total - back[i].total
             <= SumFunction(CoverOf(i))' - SumFunction(CoverOf(i))
      BY <1>3, <2>1, <2>2, MoneyTypes
    <2> QED BY <1>3, <2>3, BoundKept DEF Owed
  <1> QED BY <1>5, <1>6

\* A cancelled note takes away its total, and no more of what covers it.
LEMMA CancelOwed ==
    ASSUME TypeOK, TypeOK', Carrying, Owed, NEW s \in Session, CancelNote(s)
    PROVE  Noted' /\ \A i \in Invoice : Bounded(i)'
  <1>1. PICK n \in Note : n = req[s].note /\ note[n].status = "posted" /\ note[n].invoice \in Invoice
    BY DEF Carrying, Sound, CancelNote, Doing
  <1>2. PICK j \in Invoice : j = note[n].invoice
    BY <1>1
  <1>3. PICK w \in Nat : w = note[n].total
    BY DEF Owed, Noted
  <1>4. /\ note' = [note EXCEPT ![n].status = "cancelled"]
        /\ back' = [back EXCEPT ![j] = Added(@, note[n], -1)]
        /\ credit' = [credit EXCEPT ![n].state = IF req[s].was = "none" THEN @ ELSE "deleted"]
        /\ bill' = bill /\ paid' = paid
    BY <1>1, <1>2 DEF CancelNote
  <1>5. /\ \A m \in Note \ {n} : note'[m] = note[m] /\ credit'[m] = credit[m]
        /\ note'[n].status = "cancelled" /\ note'[n].total = w /\ note'[n].invoice = j
        /\ credit'[n].amount = credit[n].amount
        /\ credit'[n].state \in {credit[n].state, "deleted"}
    BY <1>2, <1>3, <1>4 DEF TypeOK, Written
  <1>6. /\ back'[j].total = back[j].total - w
        /\ \A i \in Invoice : i # j => back'[i] = back[i]
    <2>1. back'[j].total = back[j].total + (-1) * w
      BY <1>3, <1>4 DEF TypeOK, Added
    <2>2. back[j].total \in Int
      BY MoneyTypes
    <2> QED BY <1>3, <1>4, <2>1, <2>2 DEF TypeOK
  <1>7. Noted'
    <2>1. ASSUME NEW i \in Invoice PROVE back'[i].total = SumFunction(PostedOf(i))'
      <3>1. PostedOf(i)'[n] = 0 /\ PostedOf(i)[n] = IF i = j THEN w ELSE 0
        BY <1>1, <1>2, <1>3, <1>5 DEF PostedOf, PostedOn
      <3>2. SumFunction(PostedOf(i))'
               = SumFunction(PostedOf(i)) + (PostedOf(i)'[n] - PostedOf(i)[n])
        BY <1>5, OneNoteChanges
      <3>3. back[i].total = SumFunction(PostedOf(i)) /\ back[i].total \in Int
        BY MoneyTypes DEF Owed, Noted
      <3> QED BY <1>3, <1>6, <3>1, <3>2, <3>3
    <2>2. \A m \in Note : note'[m].total \in Nat
      BY <1>3, <1>5 DEF Owed, Noted
    <2>3. \A m \in Note : note'[m].status = "none" => credit'[m].state = "none"
      BY <1>5 DEF Owed, Noted
    <2> QED BY <2>1, <2>2, <2>3 DEF Noted
  <1>8. ASSUME NEW i \in Invoice PROVE Bounded(i)'
    <2>1. credit[n].amount \in Nat
      BY DEF TypeOK
    <2>2. PICK l \in Nat : l = Lesser(w, credit[n].amount) /\ l <= w
      BY <2>1 DEF Lesser
    <2>3. CoverOf(i)[n] = (IF Stands(n, i) THEN l ELSE 0) /\ (Stands(n, i) => i = j)
      BY <1>2, <1>3, <2>2 DEF CoverOf, Stands
    <2>4. CoverOf(i)'[n] \in {0, l} /\ (i # j => CoverOf(i)'[n] = 0)
      BY <1>5, <2>2 DEF CoverOf, Stands
    <2>5. SumFunction(CoverOf(i))'
             = SumFunction(CoverOf(i)) + (CoverOf(i)'[n] - CoverOf(i)[n])
      BY <1>5, OneNoteChanges
    <2>6. PICK a \in Int, b \in Int : a = CoverOf(i)'[n] /\ b = CoverOf(i)[n]
      BY <2>2, <2>3, <2>4
    <2>7. (i = j => b - a <= w) /\ (i # j => a = 0 /\ b = 0)
      BY <2>2, <2>3, <2>4, <2>6
    <2>8. back'[i].total - back[i].total
             <= SumFunction(CoverOf(i))' - SumFunction(CoverOf(i))
      <3>1. /\ back[i].total \in Int /\ back'[i].total \in Int
            /\ SumFunction(CoverOf(i)) \in Int /\ SumFunction(CoverOf(i))' \in Int
        BY MoneyTypes
      <3>2. SumFunction(CoverOf(i))' - SumFunction(CoverOf(i)) = a - b
        BY <2>5, <2>6, <3>1
      <3>3. back'[i].total - back[i].total = IF i = j THEN -w ELSE 0
        BY <1>3, <1>6, <3>1
      <3> QED BY <1>3, <2>6, <2>7, <3>2, <3>3
    <2> QED BY <1>4, <2>8, BoundKept DEF Owed
  <1> QED BY <1>7, <1>8

\* A new note is covered by its credit, unless nothing is overpaid with it.
LEMMA ReturnOwed ==
    ASSUME TypeOK, TypeOK', Carrying, Owed, NEW s \in Session, PostReturn(s)
    PROVE  Noted' /\ \A i \in Invoice : Bounded(i)'
  <1>1. /\ req[s].op = "return" /\ req[s].at = "post" /\ Weighed(s) /\ req[s] \in Carried
    BY DEF PostReturn, Doing, Owed, TypeOK
  <1>2. PICK j \in Invoice : j = req[s].invoice /\ Live(j)
    BY <1>1 DEF Carrying, Sound
  <1>3. PICK w \in Nat : w = NoteTotal(s)
    BY <1>1, NoteIsWorth DEF Weighed
  <1>4. PICK v \in Int : v = req[s].over
    BY <1>1 DEF Carried
  <1> DEFINE x == [invoice |-> j, status |-> "posted", units |-> req[s].take,
                   sub |-> req[s].asked * bill[j].price,
                   discount |-> req[s].sum, total |-> NoteTotal(s)]
  <1>5. /\ x.invoice = j /\ x.status = "posted" /\ x.total = w
        /\ back' = [back EXCEPT ![j] = Added(@, x, 1)] /\ bill' = bill /\ paid' = paid
        /\ \E n \in Note : /\ note[n].status = "none" /\ note' = [note EXCEPT ![n] = x]
                           /\ credit' = IF v > 0
                                        THEN [credit EXCEPT ![n] = [state |-> "pending", amount |-> v]]
                                        ELSE credit
    BY <1>2, <1>3, <1>4 DEF PostReturn, IsNext
  <1> HIDE DEF x
  <1>6. PICK n \in Note : /\ note[n].status = "none" /\ note' = [note EXCEPT ![n] = x]
                          /\ credit' = IF v > 0
                                       THEN [credit EXCEPT ![n] = [state |-> "pending", amount |-> v]]
                                       ELSE credit
    BY <1>5
  <1>7. /\ \A m \in Note \ {n} : note'[m] = note[m] /\ credit'[m] = credit[m]
        /\ note'[n] = x /\ credit[n].state = "none"
        /\ v > 0 => credit'[n].state = "pending" /\ credit'[n].amount = v
        /\ ~(v > 0) => credit'[n] = credit[n]
    BY <1>6 DEF TypeOK, Owed, Noted
  <1>8. /\ back'[j].total = back[j].total + w
        /\ \A i \in Invoice : i # j => back'[i] = back[i]
    <2>1. back'[j].total = back[j].total + 1 * w
      BY <1>5 DEF TypeOK, Added
    <2>2. back[j].total \in Int
      BY MoneyTypes
    <2> QED BY <1>3, <1>5, <2>1, <2>2 DEF TypeOK
  <1>9. Noted'
    <2>1. ASSUME NEW i \in Invoice PROVE back'[i].total = SumFunction(PostedOf(i))'
      <3>1. PostedOf(i)'[n] = (IF i = j THEN w ELSE 0) /\ PostedOf(i)[n] = 0
        BY <1>5, <1>6, <1>7 DEF PostedOf, PostedOn
      <3>2. SumFunction(PostedOf(i))'
               = SumFunction(PostedOf(i)) + (PostedOf(i)'[n] - PostedOf(i)[n])
        BY <1>7, OneNoteChanges
      <3>3. back[i].total = SumFunction(PostedOf(i)) /\ back[i].total \in Int
        BY MoneyTypes DEF Owed, Noted
      <3> QED BY <1>3, <1>8, <3>1, <3>2, <3>3
    <2>2. \A m \in Note : note'[m].total \in Nat
      BY <1>3, <1>5, <1>7 DEF Owed, Noted
    <2>3. \A m \in Note : note'[m].status = "none" => credit'[m].state = "none"
      BY <1>5, <1>7 DEF Owed, Noted
    <2> QED BY <2>1, <2>2, <2>3 DEF Noted
  <1>10. ASSUME NEW i \in Invoice
         PROVE  /\ CoverOf(i)[n] = 0
                /\ CoverOf(i)'[n] = IF i = j /\ v > 0 THEN Lesser(w, v) ELSE 0
                /\ SumFunction(CoverOf(i))'
                      = SumFunction(CoverOf(i)) + (CoverOf(i)'[n] - CoverOf(i)[n])
    <2>1. CoverOf(i)[n] = 0
      BY <1>7 DEF CoverOf, Stands
    <2>2. note'[n].invoice = j /\ note'[n].total = w
      BY <1>5, <1>7
    <2>3. CoverOf(i)'[n] = IF note'[n].invoice = i /\ credit'[n].state \notin {"none", "deleted"}
                           THEN Lesser(note'[n].total, credit'[n].amount) ELSE 0
      BY DEF CoverOf, Stands
    <2>4. CoverOf(i)'[n] = IF i = j /\ v > 0 THEN Lesser(w, v) ELSE 0
      <3>1. CASE v > 0
        BY <1>7, <2>2, <2>3, <3>1
      <3>2. CASE ~(v > 0)
        BY <1>7, <2>2, <2>3, <3>2
      <3> QED BY <3>1, <3>2
    <2> QED BY <1>7, <2>1, <2>4, OneNoteChanges
  <1>11. ASSUME NEW i \in Invoice, i # j PROVE Bounded(i)'
    <2>1. SumFunction(CoverOf(i))' = SumFunction(CoverOf(i)) + (0 - 0)
      BY <1>10, <1>11
    <2>2. back'[i].total - back[i].total
             <= SumFunction(CoverOf(i))' - SumFunction(CoverOf(i))
      BY <1>8, <1>11, <2>1, MoneyTypes
    <2> QED BY <1>5, <2>2, BoundKept DEF Owed
  <1>12. Bounded(j)'
    <2>1. PICK t \in Int, p \in Nat, k \in Int, c \in Int :
             t = Total(bill[j]) /\ p = paid[j] /\ k = back[j].total /\ c = SumFunction(CoverOf(j))
      BY <1>2, MoneyTypes
    <2>2. v >= p - (t - (k + w))
      BY <1>1, <1>2, <1>3, <1>4, <2>1 DEF Weighed
    <2>3. Overpaid(j)' = p - (t - (k + w))
      BY <1>5, <1>8, <2>1 DEF Overpaid
    <2>4. p - (t - k) <= c /\ 0 <= c
      BY <1>2, <2>1, CoverBounds DEF Owed, Bounded, Overpaid
    <2>5. CASE v > 0
      <3>1. PICK l \in Int : l = Lesser(w, v) /\ l \in {w, v} /\ l <= w /\ l <= v
        BY <1>3, <1>4 DEF Lesser
      <3>2. SumFunction(CoverOf(j))' = c + (l - 0)
        BY <1>10, <2>1, <2>5, <3>1
      <3>3. p - (t - (k + w)) <= c + (l - 0)
        <4>1. CASE l = w
          BY <1>3, <2>1, <2>4, <4>1
        <4>2. CASE l = v
          BY <1>3, <1>4, <2>1, <2>2, <2>4, <4>2
        <4> QED BY <3>1, <4>1, <4>2
      <3> QED BY <2>3, <3>2, <3>3 DEF Bounded
    <2>6. CASE ~(v > 0)
      <3>1. SumFunction(CoverOf(j))' = c + (0 - 0)
        BY <1>10, <2>1, <2>6
      <3>2. p - (t - (k + w)) <= c + (0 - 0)
        BY <1>3, <1>4, <2>1, <2>2, <2>4, <2>6
      <3> QED BY <2>3, <3>1, <3>2 DEF Bounded
    <2> QED BY <2>5, <2>6
  <1> QED BY <1>9, <1>11, <1>12


LEMMA StepOwed ==
    ASSUME OneHand, TypeOK, TypeOK', Carrying, Frozen, Owed, NEW s \in Session, Step(s)
    PROVE  Owed'
  <1>1. Noted' /\ \A i \in Invoice : Bounded(i)'
    <2>1. CASE \/ Reads(s) \/ Abort(s) \/ CreatePayment(s) \/ PostInvoice(s)
               \/ RepostInvoice(s) \/ DeleteInvoice(s) \/ CollectPayment(s)
      BY <2>1, PlainOwed
    <2>2. CASE ResolveCredit(s) \/ RefundCredit(s)
      BY <2>2, CreditOwed
    <2>3. CASE CancelNote(s)
      BY <2>3, CancelOwed
    <2>4. CASE PostReturn(s)
      BY <2>4, ReturnOwed
    <2> QED BY <2>1, <2>2, <2>3, <2>4 DEF Step, Reads
  <1>2. \A i \in Invoice : bill'[i] = None => paid'[i] = 0
    BY UnissuedUnpaid DEF Owed
  <1>3. Weighed(s)'
    <2>1. CASE Reads(s)
      BY <2>1, ReadsWeighed DEF Owed
    <2>2. CASE End(s)
      <3>1. req'[s] = Idle
        BY <2>2 DEF End, Goes, TypeOK
      <3> QED BY <3>1 DEF Weighed, Idle
    <2> QED BY <2>1, <2>2, WhoWrites
  <1>4. \A t \in Session : t # s => Weighed(t)'
    BY OthersWeighed DEF Owed, Frozen
  <1> QED BY <1>1, <1>2, <1>3, <1>4 DEF Owed

\* Money paid too much on an invoice is always recorded as a credit, whatever
\* sales, receipts, deletions, cancellations, decisions and pay-outs interleave,
\* as long as one session collects, takes back and edits, and nothing is
\* discounted.
THEOREM OverpaymentAlwaysOwed ==
    ASSUME OneHand
    PROVE  Spec => []OverpaymentIsOwed
  <1>1. Init => TypeOK /\ Carrying /\ Frozen /\ Owed
    BY InitType, InitCarrying, InitFrozen, InitOwed
  <1>2. TypeOK /\ Carrying /\ Frozen /\ Owed /\ [Next]_vars
           => (TypeOK /\ Carrying /\ Frozen /\ Owed)'
    <2> SUFFICES ASSUME TypeOK, Carrying, Frozen, Owed, [Next]_vars
                 PROVE  TypeOK' /\ Carrying' /\ Frozen' /\ Owed'
      OBVIOUS
    <2>1. TypeOK' /\ Carrying'
      BY NextCarrying
    <2>2. CASE Next
      <3>1. PICK s \in Session : Step(s)
        BY <2>2 DEF Next
      <3>2. EditorReturns
        BY DEF EditorReturns, OneHand, AtTheInvoice
      <3> QED BY <2>1, <3>1, <3>2, StepFrozen, StepOwed
    <2>3. CASE UNCHANGED vars
      <3>1. UNCHANGED <<documents, notes, req>>
        BY <2>3 DEF vars
      <3>2. Frozen'
        BY <3>1 DEF documents, notes, Frozen, Assigned, Uncredited, PostedOn
      <3>3. /\ note' = note /\ credit' = credit /\ back' = back /\ bill' = bill
            /\ paid' = paid /\ req' = req
        BY <3>1 DEF documents, notes
      <3>4. Noted' /\ \A i \in Invoice : SumFunction(CoverOf(i))' = SumFunction(CoverOf(i))
        BY <3>3, StillNoted DEF Owed
      <3>5. \A i \in Invoice : Bounded(i)'
        BY <3>3, <3>4 DEF Owed, Bounded, Overpaid, Live
      <3>6. \A t \in Session : Weighed(t)'
        BY <3>3 DEF Owed, Weighed, NoteTotal, Live
      <3> QED BY <2>1, <3>2, <3>3, <3>4, <3>5, <3>6 DEF Owed
    <2> QED BY <2>2, <2>3
  <1>3. TypeOK /\ Owed => OverpaymentIsOwed
    <2> SUFFICES ASSUME TypeOK, Owed, NEW i \in Invoice, Live(i)
                 PROVE  Overpaid(i) <= Credited(i)
      BY DEF OverpaymentIsOwed
    <2>1. Overpaid(i) <= SumFunction(CoverOf(i)) /\ SumFunction(CoverOf(i)) <= Credited(i)
      BY CoverBounds DEF Owed, Bounded
    <2>2. /\ SumFunction(CoverOf(i)) \in Int /\ Credited(i) \in Int
          /\ Overpaid(i) \in Int
      <3>1. SumFunction(CoverOf(i)) \in Int /\ Credited(i) = SumFunctionOnSet(CreditOf(i), Note)
            /\ Whole(CreditOf(i), Note)
        BY NoteSums
      <3>2. Credited(i) \in Int
        BY <3>1, SumInt, DocumentAssumption
      <3>3. Overpaid(i) \in Int
        <4>1. paid[i] \in Int /\ back[i].total \in Int
          BY DEF TypeOK, Sums
        <4>2. Total(bill[i]) \in Int
          BY DocumentFields DEF Live
        <4> QED BY <4>1, <4>2 DEF Overpaid
      <3> QED BY <3>1, <3>2, <3>3
    <2> QED BY <2>1, <2>2
  <1> QED BY <1>1, <1>2, <1>3, PTL DEF Spec

-----------------------------------------------------------------------------
(***************************************************************************)
(* When everything sold has come back, the customer has been credited what *)
(* the invoice billed, as long as no invoice is edited and its documents   *)
(* are of one piece: the subtotal is the units sold at the price, the tax  *)
(* a whole amount a unit, and the discount no more than both together      *)
(* (_resolve_discount: what is left to collect is not below zero).         *)
(*                                                                         *)
(* _returned_discount_share works towards a target: what the discount      *)
(* comes to on all that is back.  So the notes' shares never sum to more   *)
(* than the discount, and the note that brings back the last unit takes    *)
(* what is left of it, whatever the others took.  A cancellation may come  *)
(* between the pricing of a note and its commit: it takes units away, so   *)
(* that the note priced as the last one is the last one no longer.         *)
(***************************************************************************)

UnitsSold(d) == SumFunction([k \in DOMAIN d.lines |-> d.lines[k].n])

WholeDocuments ==
    /\ IsFiniteSet(Batch)
    /\ \A d \in Bill :
          /\ d.subtotal = d.price * UnitsSold(d)
          /\ d.discount <= d.subtotal + d.vat
          /\ \E t \in 0..d.vat : d.vat = t * UnitsSold(d)

\* The tax of one unit.
UnitTax(d) == IF d.vat = 0 THEN 0 ELSE CHOOSE t \in 0..d.vat : d.vat = t * UnitsSold(d)

UnitsBack(i) == SumFunction(back[i].units)

\* What the figures x of one note, or of several, over u units say of each other.
AddUp(d, x, u) ==
    /\ x.sub = d.price * u
    /\ x.total = x.sub + UnitTax(d) * u - x.discount
    /\ d.discount = 0 => x.discount = 0

\* The posted notes of an invoice: all that is back is all of the discount.
Even(i) ==
    /\ ~Live(i) /\ bill[i] # Deleted => back[i] = Nothing
    /\ Live(i) =>
          /\ AddUp(bill[i], back[i], UnitsBack(i))
          /\ back[i].discount <= bill[i].discount
          /\ UnitsBack(i) = UnitsSold(bill[i]) => back[i].discount = bill[i].discount

\* A posted note stands for some units of a live invoice.
Proper(n) ==
    note[n].status = "posted" =>
        /\ Live(note[n].invoice)
        /\ AddUp(bill[note[n].invoice], note[n], SumFunction(note[n].units))
        /\ SumFunction(note[n].units) >= 1
        /\ note[n].discount >= 0

\* A priced return: with it the discount is not exceeded, and used up if it is the last.
Priced(r) ==
    LET d == bill[r.invoice] IN
    /\ r.sum >= 0
    /\ d.discount = 0 => r.sum = 0
    /\ back[r.invoice].discount + r.sum <= d.discount
    /\ UnitsBack(r.invoice) + r.asked = UnitsSold(d) =>
          back[r.invoice].discount + r.sum = d.discount

\* What a return in progress has found, is still to find and has priced.
Asked(r) ==
    r.op = "return" =>
        /\ r.at \in {"lines", "weigh", "post"}
        /\ r.asked >= 1
        /\ r.asked = r.left + SumFunction(r.take)
        /\ r.at # "lines" => r.left = 0 /\ Priced(r)

Figured ==
    /\ \A s \in Session : Asked(req[s])
    /\ \A n \in Note : Proper(n)
    /\ \A i \in Invoice : Even(i)

-----------------------------------------------------------------------------
(* Sums over batches, and the share of a discount. *)

\* Units by batch add up to an integer, and what is added by batch adds up.
LEMMA UnitsAddUp ==
    ASSUME IsFiniteSet(Batch), NEW f \in Units, NEW g \in Units, NEW h \in Units,
           \A b \in Batch : h[b] = f[b] + g[b]
    PROVE  /\ SumFunction(f) \in Int /\ SumFunction(g) \in Int
           /\ SumFunction(h) = SumFunction(f) + SumFunction(g)
  <1>1. /\ SumFunction(f) = SumFunctionOnSet(f, Batch)
        /\ SumFunction(g) = SumFunctionOnSet(g, Batch)
        /\ SumFunction(h) = SumFunctionOnSet(h, Batch)
    BY DEF SumFunction, Units
  <1>2. Whole(f, Batch) /\ Whole(g, Batch) /\ Adds(f, g, h, Batch)
    BY DEF Whole, Adds, Units
  <1> QED BY <1>1, <1>2, SumAdd, SumInt

LEMMA NoUnitsAddUp ==
    ASSUME IsFiniteSet(Batch)
    PROVE  SumFunction(NoUnits) = 0
  <1>1. DOMAIN NoUnits = Batch /\ SameTerms(NoUnits, [x \in Batch |-> 0], Batch)
    BY DEF NoUnits, SameTerms
  <1> QED BY <1>1, SumZero DEF SumFunction

\* What is within a line of each batch it concerns is within the document.
LEMMA WithinTheLines ==
    ASSUME IsFiniteSet(Batch), NEW d \in Bill, NEW f \in Units,
           \A b \in Batch : f[b] > 0 =>
               \E k \in DOMAIN d.lines : d.lines[k].batch = b /\ f[b] <= d.lines[k].n
    PROVE  SumFunction(f) <= UnitsSold(d) /\ UnitsSold(d) \in Int
  <1> DEFINE K == DOMAIN d.lines
             w == [k \in K |-> d.lines[k].n]
             key == [k \in K |-> d.lines[k].batch]
             G == [b \in Batch |-> SumFunctionOnSet(w, {k \in K : key[k] = b})]
             Z == [k \in K |-> 0]
  <1>1. K = 1..Len(d.lines) /\ Len(d.lines) \in Nat
    BY DocumentFields
  <1>2. IsFiniteSet(K)
    BY <1>1, FS_Interval
  <1>3. \A k \in K : w[k] \in Nat /\ key[k] \in Batch
    BY <1>1, LineIsLine
  <1>w. Whole(w, K)
    <2>1. \A k \in K : w[k] \in Nat
      BY <1>3
    <2> HIDE DEF w, K
    <2> QED BY <2>1 DEF Whole
  <1>4. UnitsSold(d) = SumFunctionOnSet(w, K)
    <2>1. UnitsSold(d) = SumFunction(w) /\ DOMAIN w = K
      BY DEF UnitsSold
    <2> QED BY <2>1 DEF SumFunction
  <1>5. \A T \in SUBSET K : IsFiniteSet(T) /\ Whole(w, T) /\ Whole(Z, T) /\ Below(Z, w, T)
                            /\ SameTerms(Z, [x \in T |-> 0], T)
    <2>1. \A k \in K : w[k] \in Nat /\ Z[k] = 0
      BY <1>3
    <2> HIDE DEF w, K, Z
    <2> SUFFICES ASSUME NEW T \in SUBSET K
                 PROVE  IsFiniteSet(T) /\ Whole(w, T) /\ Whole(Z, T) /\ Below(Z, w, T)
                        /\ SameTerms(Z, [x \in T |-> 0], T)
      OBVIOUS
    <2>2. IsFiniteSet(T)
      BY <1>2, FS_Subset
    <2>3. Whole(w, T) /\ Whole(Z, T)
      BY <2>1 DEF Whole
    <2>4. Below(Z, w, T)
      BY <2>1 DEF Below
    <2>5. SameTerms(Z, [x \in T |-> 0], T)
      BY <2>1 DEF SameTerms
    <2> QED BY <2>2, <2>3, <2>4, <2>5
  <1> HIDE DEF w, Z
  <1>6. \A T \in SUBSET K : SumFunctionOnSet(w, T) \in Int /\ SumFunctionOnSet(w, T) >= 0
    <2> SUFFICES ASSUME NEW T \in SUBSET K
                 PROVE  SumFunctionOnSet(w, T) \in Int /\ SumFunctionOnSet(w, T) >= 0
      OBVIOUS
    <2>0. IsFiniteSet(T) /\ Whole(w, T) /\ Whole(Z, T) /\ Below(Z, w, T)
          /\ SameTerms(Z, [x \in T |-> 0], T)
      BY <1>5
    <2>1. SumFunctionOnSet(w, T) \in Int
      BY <2>0, SumInt
    <2>2. SumFunctionOnSet(Z, T) <= SumFunctionOnSet(w, T)
      BY <2>0, SumGrows
    <2>3. SumFunctionOnSet(Z, T) = 0
      BY <2>0, SumZero
    <2> QED BY <2>1, <2>2, <2>3
  <1>7. Whole(G, Batch) /\ Whole(f, Batch) /\ DOMAIN f = Batch
    BY <1>6 DEF Whole, Units
  <1>8. SumFunctionOnSet(G, Batch) = SumFunctionOnSet(w, K)
    <2> HIDE DEF K, key
    <2> QED BY <1>2, <1>3, <1>w, SumByKey
  <1>9. ASSUME NEW b \in Batch
        PROVE  f[b] <= G[b]
    <2> DEFINE T == {k \in K : key[k] = b}
    <2>1. G[b] = SumFunctionOnSet(w, T) /\ T \in SUBSET K /\ f[b] \in Int
      BY DEF Units
    <2>2. CASE f[b] > 0
      <3>1. PICK k \in K : d.lines[k].batch = b /\ f[b] <= d.lines[k].n
        BY <2>2
      <3>2. k \in T /\ w[k] = d.lines[k].n
        BY <3>1 DEF w
      <3>3. IsFiniteSet(T) /\ Whole(w, T)
        BY <1>5
      <3>4. T \ {k} \in SUBSET K
        OBVIOUS
      <3> HIDE DEF T
      <3>5. SumFunctionOnSet(w, T) = w[k] + SumFunctionOnSet(w, T \ {k})
        BY <3>2, <3>3, SumSplit
      <3>6. SumFunctionOnSet(w, T \ {k}) \in Int /\ SumFunctionOnSet(w, T \ {k}) >= 0
        BY <1>6, <3>4
      <3>7. w[k] \in Nat /\ f[b] <= w[k]
        BY <1>3, <3>1, <3>2
      <3> QED BY <2>1, <3>5, <3>6, <3>7
    <2>3. CASE ~(f[b] > 0)
      <3>1. SumFunctionOnSet(w, T) \in Int /\ SumFunctionOnSet(w, T) >= 0
        BY <1>6
      <3> QED BY <2>1, <2>3, <3>1
    <2> QED BY <2>2, <2>3
  <1>10. Below(f, G, Batch)
    BY <1>9 DEF Below
  <1>11. SumFunctionOnSet(f, Batch) <= SumFunctionOnSet(G, Batch)
    <2> HIDE DEF G
    <2> QED BY <1>7, <1>10, SumGrows
  <1>12. SumFunctionOnSet(w, K) \in Int
    BY <1>6
  <1> QED BY <1>4, <1>7, <1>8, <1>11, <1>12 DEF SumFunction

\* A product of two naturals divided by one of them is the other.
LEMMA RoundsExactly ==
    ASSUME NEW q \in Nat, NEW b \in Nat \ {0}
    PROVE  RoundHalfUp(q * b, b) = q
  <1>1. q * b \in Nat
    OBVIOUS
  <1> DEFINE z == 2 * (q * b) + b
             y == 2 * b
  <1>2. z \in Nat /\ y \in Nat \ {0}
    BY <1>1
  <1>3. y * q <= z /\ z < y * (q + 1)
    OBVIOUS
  <1> HIDE DEF z, y
  <1>4. z \div y \in Nat /\ y * (z \div y) <= z /\ z < y * (z \div y + 1)
    BY <1>2
  <1>5. z \div y = q
    <2> DEFINE e == z \div y
    <2>1. e \in Nat /\ y * e < y * (q + 1) /\ y * q < y * (e + 1)
      <3>1. y * (z \div y) \in Nat /\ y * (q + 1) \in Nat /\ y * q \in Nat
            /\ y * (z \div y + 1) \in Nat
        BY <1>2, <1>4
      <3> DEFINE m1 == y * (z \div y)
                 m2 == y * (q + 1)
                 m3 == y * q
                 m4 == y * (z \div y + 1)
      <3>2. m1 \in Nat /\ m2 \in Nat /\ m3 \in Nat /\ m4 \in Nat
            /\ m1 <= z /\ z < m2 /\ m3 <= z /\ z < m4
        BY <1>3, <1>4, <3>1
      <3> HIDE DEF m1, m2, m3, m4
      <3>3. m1 < m2 /\ m3 < m4
        BY <1>2, <3>2
      <3> QED BY <1>4, <3>3 DEF m1, m2, m3, m4
    <2> HIDE DEF e
    <2>2. \A p \in Nat \ {0}, u, v \in Nat : p * u < p * v => u < v
      <3> SUFFICES ASSUME NEW p \in Nat \ {0}, NEW u \in Nat, NEW v \in Nat, ~(u < v)
                   PROVE  ~(p * u < p * v)
        OBVIOUS
      <3>1. u - v \in Nat
        OBVIOUS
      <3>2. p * (u - v) \in Nat
        BY <3>1
      <3>3. p * u = p * v + p * (u - v) /\ p * v \in Nat
        OBVIOUS
      <3> QED BY <3>2, <3>3
    <2>3. e < q + 1 /\ q < e + 1
      BY <1>2, <2>1, <2>2
    <2>4. e = q
      BY <2>1, <2>3
    <2> QED BY <2>4 DEF e
  <1> QED BY <1>5 DEF RoundHalfUp, z, y

\* _returned_discount_share: a share is never negative, never takes the sum past the
\* discount, and takes what is left of it when all of the subtotal is back.
LEMMA ShareFits ==
    ASSUME NEW d \in Bill, NEW prior \in Sums, NEW sub \in Nat,
           d.subtotal = 0 => d.discount = 0,
           prior.discount <= d.discount, d.discount = 0 => prior.discount = 0
    PROVE  /\ DiscountShare(d, prior, sub) \in Int
           /\ DiscountShare(d, prior, sub) >= 0
           /\ d.discount = 0 => DiscountShare(d, prior, sub) = 0
           /\ prior.discount + DiscountShare(d, prior, sub) <= d.discount
           /\ prior.sub + sub = d.subtotal =>
                 prior.discount + DiscountShare(d, prior, sub) = d.discount
  <1>1. /\ d.discount \in Nat /\ d.subtotal \in Nat
        /\ prior.sub \in Int /\ prior.discount \in Int
    BY DocumentFields DEF Sums
  <1>2. DiscountShare(d, prior, sub) \in Int
    BY DiscountIsInteger
  <1>3. CASE d.discount = 0 \/ d.subtotal = 0
    <2>1. DiscountShare(d, prior, sub) = 0
      BY <1>3 DEF DiscountShare
    <2>2. d.discount = 0
      BY <1>1, <1>3
    <2> QED BY <1>1, <2>1, <2>2
  <1>4. CASE ~(d.discount = 0 \/ d.subtotal = 0)
    <2> DEFINE target == RoundHalfUp(d.discount * (prior.sub + sub), d.subtotal)
    <2>1. target \in Int
      <3>1. d.discount * (prior.sub + sub) \in Int
        BY <1>1
      <3> QED BY <1>1, <1>4, <3>1, RoundIsInteger
    <2>2. prior.sub + sub = d.subtotal => target = d.discount
      BY <1>1, <1>4, RoundsExactly
    <2>3. DiscountShare(d, prior, sub)
            = Greater(Lesser(target, d.discount) - prior.discount, 0)
      BY <1>4 DEF DiscountShare
    <2> HIDE DEF target
    <2> DEFINE x == DiscountShare(d, prior, sub)
               D == d.discount
               p == prior.discount
    <2>4. /\ x = Greater(Lesser(target, D) - p, 0)
          /\ D \in Nat /\ p \in Int /\ p <= D /\ D # 0
      BY <1>1, <1>4, <2>3
    <2> HIDE DEF x, D, p
    <2>5. x >= 0 /\ p + x <= D /\ (target = D => p + x = D)
      BY <2>1, <2>4 DEF Greater, Lesser
    <2>6. /\ DiscountShare(d, prior, sub) >= 0
          /\ prior.discount + DiscountShare(d, prior, sub) <= d.discount
          /\ target = d.discount => prior.discount + DiscountShare(d, prior, sub) = d.discount
      BY <2>5 DEF x, D, p
    <2> QED BY <1>2, <1>4, <2>2, <2>6
  <1> QED BY <1>3, <1>4

\* The tax on some units of a document of one piece.
LEMMA TaxByTheUnit ==
    ASSUME WholeDocuments, NEW d \in Bill, NEW q \in Nat, UnitsSold(d) \in Int
    PROVE  /\ TaxShare(d, q * d.price) = UnitTax(d) * q
           /\ UnitTax(d) \in Nat
           /\ UnitTax(d) * UnitsSold(d) = d.vat
  <1>1. /\ d.price \in Nat \ {0} /\ d.subtotal \in Nat /\ d.vat \in Nat
        /\ d.subtotal = d.price * UnitsSold(d)
    BY DocumentFields DEF WholeDocuments
  <1>2. CASE d.vat = 0
    BY <1>2 DEF TaxShare, UnitTax
  <1>3. CASE d.vat # 0
    <2> DEFINE t == UnitTax(d)
               U == UnitsSold(d)
    <2>1. t \in 0..d.vat /\ d.vat = t * U
      BY <1>3 DEF UnitTax, WholeDocuments
    <2>2. t \in Nat
      BY <1>1, <2>1
    <2>3. U # 0
      BY <1>3, <2>1, <2>2
    <2>4. d.subtotal # 0
      BY <1>1, <2>3
    <2>5. q * t \in Nat
      BY <2>2
    <2>6. RoundHalfUp((q * t) * d.subtotal, d.subtotal) = q * t
      BY <1>1, <2>4, <2>5, RoundsExactly
    <2>7. (q * d.price) * d.vat = (q * t) * d.subtotal
      <3> HIDE DEF t, U
      <3>1. d.vat = t * U /\ d.subtotal = d.price * U
        BY <1>1, <2>1 DEF U
      <3>2. U \in Int
        BY DEF U
      <3>3. \A a1, a2, a3, a4 \in Int : (a1 * a2) * (a3 * a4) = (a1 * a3) * (a2 * a4)
        OBVIOUS
      <3> QED BY <1>1, <2>2, <3>1, <3>2, <3>3
    <2>8. TaxShare(d, q * d.price) = q * t
      BY <1>3, <2>4, <2>6, <2>7 DEF TaxShare
    <2>9. q * t = t * q
      BY <2>2
    <2> QED BY <2>1, <2>2, <2>8, <2>9
  <1> QED BY <1>2, <1>3

\* What sells nothing has no discount.
LEMMA NothingOffNothing ==
    ASSUME WholeDocuments, NEW d \in Bill, UnitsSold(d) \in Int
    PROVE  /\ UnitsSold(d) = 0 => d.discount = 0
           /\ d.subtotal = 0 => d.discount = 0
  <1>1. /\ d.price \in Nat \ {0} /\ d.subtotal \in Nat /\ d.vat \in Nat /\ d.discount \in Nat
        /\ d.subtotal = d.price * UnitsSold(d) /\ d.discount <= d.subtotal + d.vat
    BY DocumentFields DEF WholeDocuments
  <1>2. UnitTax(d) \in Nat /\ UnitTax(d) * UnitsSold(d) = d.vat
    BY TaxByTheUnit
  <1>3. ASSUME UnitsSold(d) = 0
        PROVE  d.discount = 0
    <2>1. d.price * 0 = 0 /\ UnitTax(d) * 0 = 0
      BY <1>1, <1>2
    <2>2. d.subtotal = 0 /\ d.vat = 0
      BY <1>1, <1>2, <1>3, <2>1
    <2>3. d.discount \in Nat /\ d.discount <= 0
      <3>1. d.discount \in Nat /\ d.discount <= d.subtotal + d.vat
        BY <1>1
      <3>2. d.discount <= 0 + 0
        BY <2>2, <3>1
      <3> QED BY <3>1, <3>2
    <2> QED BY <2>3
  <1>4. \A p \in Nat \ {0}, u \in Int : p * u = 0 => u = 0
    OBVIOUS
  <1> QED BY <1>1, <1>3, <1>4

-----------------------------------------------------------------------------
(* What the figures rest on. *)

\* The type of what an invoice, a note and a return have in units, now and next.
LEMMA UnitTypes ==
    ASSUME TypeOK
    PROVE  /\ \A i \in Invoice : back[i].units \in Units /\ back[i] \in Sums
           /\ \A n \in Note : note[n].units \in Units /\ note[n].units \in [Batch -> Nat]
                              /\ note[n] \in Written
           /\ \A s \in Session : req[s].take \in Units /\ req[s].take \in [Batch -> Nat]
                                 /\ req[s] \in Carried
  <1>1. \A i \in Invoice : back[i] \in Sums
    BY DEF TypeOK
  <1>2. \A n \in Note : note[n] \in Written
    BY DEF TypeOK
  <1>3. \A s \in Session : req[s] \in Carried
    BY DEF TypeOK
  <1>4. \A i \in Invoice : back[i].units \in Units
    BY <1>1 DEF Sums
  <1>5. \A n \in Note : note[n].units \in [Batch -> Nat]
    BY <1>2 DEF Written
  <1>6. \A s \in Session : req[s].take \in [Batch -> Nat]
    BY <1>3 DEF Carried
  <1>7. \A f \in [Batch -> Nat] : f \in Units
    BY DEF Units
  <1> QED BY <1>1, <1>2, <1>3, <1>4, <1>5, <1>6, <1>7

LEMMA UnitSums ==
    ASSUME IsFiniteSet(Batch), NEW f \in Units
    PROVE  SumFunction(f) \in Int
  <1> DEFINE Z == [b \in Batch |-> 0]
  <1>1. Z \in Units /\ \A b \in Batch : f[b] = f[b] + Z[b]
    BY DEF Units
  <1> HIDE DEF Z
  <1> QED BY <1>1, UnitsAddUp

\* Where a return counts towards, no more is back than was sold, what the return has
\* found so far included.
LEMMA BackWithinSold ==
    ASSUME TypeOK, Carrying, Within, IsFiniteSet(Batch), NEW i \in Invoice, Live(i)
    PROVE  /\ UnitsBack(i) \in Int /\ UnitsSold(bill[i]) \in Int
           /\ UnitsBack(i) <= UnitsSold(bill[i])
           /\ \A s \in Session : req[s].op = "return" /\ req[s].invoice = i =>
                 /\ SumFunction(req[s].take) \in Int
                 /\ UnitsBack(i) + SumFunction(req[s].take) <= UnitsSold(bill[i])
  <1> DEFINE d == bill[i]
             u == back[i].units
  <1>1. d \in Bill
    BY DEF Live
  <1>2. u \in Units /\ UnitsBack(i) = SumFunction(u)
    BY UnitTypes DEF UnitsBack
  <1>3. \A b \in Batch : u[b] > 0 =>
           \E k \in DOMAIN d.lines : d.lines[k].batch = b /\ u[b] <= d.lines[k].n
    BY DEF Within, ReturnedWithinSold
  <1>4. SumFunction(u) \in Int /\ SumFunction(u) <= UnitsSold(d) /\ UnitsSold(d) \in Int
    <2> HIDE DEF d, u
    <2>1. SumFunction(u) <= UnitsSold(d) /\ UnitsSold(d) \in Int
      BY <1>1, <1>2, <1>3, WithinTheLines
    <2> QED BY <1>2, <2>1, UnitSums
  <1>5. ASSUME NEW s \in Session, req[s].op = "return", req[s].invoice = i
        PROVE  /\ SumFunction(req[s].take) \in Int
               /\ SumFunction(u) + SumFunction(req[s].take) <= UnitsSold(d)
    <2> DEFINE t == req[s].take
               z == req[s].seen
               f == [b \in Batch |-> u[b] + t[b]]
    <2>1. t \in Units /\ t \in [Batch -> Nat] /\ z \in Units
      BY UnitTypes DEF Carried
    <2>2. \A b \in Batch :
             /\ u[b] + t[b] <= z[b]
             /\ t[b] > 0 => \E k \in DOMAIN d.lines : d.lines[k].batch = b /\ z[b] <= d.lines[k].n
      BY <1>5 DEF Within, Counted
    <2>3. DOMAIN d.lines = 1..Len(d.lines)
      BY <1>1, DocumentFields
    <2>4. \A k \in DOMAIN d.lines : d.lines[k].n \in Nat
      BY <1>1, <2>3, LineIsLine
    <2>5. f \in Units /\ \A b \in Batch : f[b] = u[b] + t[b]
      BY <1>2, <2>1 DEF Units
    <2> HIDE DEF d, u, t, z, f
    <2>6. ASSUME NEW b \in Batch, f[b] > 0
          PROVE  \E k \in DOMAIN d.lines : d.lines[k].batch = b /\ f[b] <= d.lines[k].n
      <3>1. u[b] \in Int /\ t[b] \in Nat /\ z[b] \in Int
        BY <1>2, <2>1 DEF Units
      <3>2. CASE t[b] > 0
        <4>1. PICK k \in DOMAIN d.lines : d.lines[k].batch = b /\ z[b] <= d.lines[k].n
          BY <2>2, <3>2
        <4>2. d.lines[k].n \in Nat
          BY <2>4
        <4>3. f[b] <= z[b]
          BY <2>2, <2>5
        <4>4. f[b] <= d.lines[k].n
          <5> DEFINE x == f[b]
                     y == z[b]
                     n == d.lines[k].n
          <5>1. x \in Int /\ y \in Int /\ n \in Int /\ x <= y /\ y <= n
            BY <2>5, <3>1, <4>1, <4>2, <4>3
          <5> HIDE DEF x, y, n
          <5>2. x <= n
            BY <5>1
          <5> QED BY <5>2 DEF x, n
        <4> QED BY <4>1, <4>4
      <3>3. CASE ~(t[b] > 0)
        <4>1. f[b] = u[b]
          BY <2>5, <3>1, <3>3
        <4> QED BY <1>3, <2>6, <4>1
      <3> QED BY <3>2, <3>3
    <2>7. SumFunction(f) <= UnitsSold(d)
      BY <1>1, <2>5, <2>6, WithinTheLines
    <2>8. SumFunction(f) = SumFunction(u) + SumFunction(t) /\ SumFunction(t) \in Int
      BY <1>2, <2>1, <2>5, UnitsAddUp
    <2>9. SumFunction(t) \in Int /\ SumFunction(u) + SumFunction(t) <= UnitsSold(d)
      BY <2>7, <2>8
    <2> QED BY <2>9 DEF t
  <1> QED BY <1>2, <1>4, <1>5

\* Nothing is back of an invoice at the start.
LEMMA NothingIsEven ==
    ASSUME WholeDocuments, NEW d \in Bill, UnitsSold(d) \in Int
    PROVE  /\ AddUp(d, Nothing, 0) /\ SumFunction(Nothing.units) = 0
           /\ Nothing.discount <= d.discount
           /\ 0 = UnitsSold(d) => Nothing.discount = d.discount
  <1>1. /\ d.price \in Nat /\ d.subtotal \in Nat /\ d.discount \in Nat
    BY DocumentFields
  <1>2. UnitTax(d) \in Nat
    BY TaxByTheUnit
  <1>3. /\ Nothing.sub = 0 /\ Nothing.total = 0 /\ Nothing.discount = 0
        /\ Nothing.units = NoUnits
    BY DEF Nothing
  <1>4. SumFunction(NoUnits) = 0
    BY NoUnitsAddUp DEF WholeDocuments
  <1>5. d.price * 0 = 0 /\ UnitTax(d) * 0 = 0
    BY <1>1, <1>2
  <1>6. AddUp(d, Nothing, 0)
    BY <1>2, <1>3, <1>5 DEF AddUp
  <1>7. 0 = UnitsSold(d) => d.discount = 0
    BY NothingOffNothing
  <1> QED BY <1>1, <1>3, <1>4, <1>6, <1>7

\* The units sold are a number, whatever has come back.
LEMMA SoldIsNumber ==
    ASSUME IsFiniteSet(Batch), NEW d \in Bill
    PROVE  UnitsSold(d) \in Int
  <1>1. NoUnits \in Units /\ \A b \in Batch : ~(NoUnits[b] > 0)
    BY DEF NoUnits, Units
  <1> QED BY <1>1, WithinTheLines

LEMMA InitFigured == WholeDocuments /\ Init => Figured
  <1> SUFFICES ASSUME WholeDocuments, Init PROVE Figured
    OBVIOUS
  <1>1. \A s \in Session : req[s].op = "none"
    BY DEF Init, Idle
  <1>2. \A n \in Note : note[n].status = "none"
    BY DEF Init, Unwritten
  <1>3. ASSUME NEW i \in Invoice PROVE Even(i)
    <2>1. back[i] = Nothing
      BY <1>3 DEF Init
    <2>2. CASE ~Live(i)
      BY <2>1, <2>2 DEF Even
    <2>3. CASE Live(i)
      <3>1. bill[i] \in Bill /\ UnitsSold(bill[i]) \in Int
        BY <2>3, SoldIsNumber DEF Live, WholeDocuments
      <3>2. UnitsBack(i) = SumFunction(Nothing.units)
        BY <2>1 DEF UnitsBack
      <3> QED BY <2>1, <2>3, <3>1, <3>2, NothingIsEven DEF Even
    <2> QED BY <2>2, <2>3
  <1> QED BY <1>1, <1>2, <1>3 DEF Figured, Asked, Proper

-----------------------------------------------------------------------------
(* What a step leaves alone. *)

LEMMA EvenStays ==
    ASSUME NEW i \in Invoice, Even(i), bill'[i] = bill[i], back'[i] = back[i]
    PROVE  Even(i)'
  BY DEF Even, Live, UnitsBack, AddUp, UnitTax, UnitsSold, Nothing, NoUnits

LEMMA ProperStays ==
    ASSUME NEW n \in Note, Proper(n), note'[n] = note[n],
           note[n].status = "posted" => bill'[note[n].invoice] = bill[note[n].invoice]
    PROVE  Proper(n)'
  BY DEF Proper, Live, AddUp, UnitTax, UnitsSold

\* Some notes of an invoice are gone: its discount is no greater, its units are fewer.
Fewer(i) ==
    back'[i].discount <= back[i].discount /\ UnitsBack(i)' < UnitsBack(i)

LEMMA PricedStays ==
    ASSUME NEW r, bill'[r.invoice] = bill[r.invoice], back'[r.invoice] = back[r.invoice],
           Priced(r)
    PROVE  /\ r.sum >= 0
           /\ bill'[r.invoice].discount = 0 => r.sum = 0
           /\ back'[r.invoice].discount + r.sum <= bill'[r.invoice].discount
           /\ UnitsBack(r.invoice)' + r.asked = UnitsSold(bill'[r.invoice]) =>
                 back'[r.invoice].discount + r.sum = bill'[r.invoice].discount
  <1>1. UnitsBack(r.invoice)' = UnitsBack(r.invoice)
    BY DEF UnitsBack
  <1> QED BY <1>1 DEF Priced

\* What a session that returns relies on stands, if the step leaves the invoices it may
\* hold as they are, or with fewer notes.
LEMMA OthersAsked ==
    ASSUME TypeOK, TypeOK', Carrying, Within, Figured, WholeDocuments,
           NEW s \in Session, Step(s),
           \A i \in Invoice : Live(i) /\ held[i] \notin {None, s} =>
               bill'[i] = bill[i] /\ (back'[i] = back[i] \/ Fewer(i))
    PROVE  \A t \in Session : t # s => Asked(req[t])'
  <1> SUFFICES ASSUME NEW t \in Session, t # s PROVE Asked(req[t])'
    OBVIOUS
  <1>a. PICK r : r = req[t]
    OBVIOUS
  <1>b. PICK i : i = r.invoice
    OBVIOUS
  <1>c. PICK d : d = bill[i]
    OBVIOUS
  <1>1. req'[t] = r /\ r \in Carried /\ Sound(t, r) /\ Asked(r)
    BY <1>a, OthersStay, UnitTypes DEF Carrying, Figured
  <1>2. CASE r.op # "return"
    BY <1>1, <1>2 DEF Asked
  <1>3. CASE r.op = "return"
    <2>1. i \in Invoice /\ Live(i) /\ held[i] = t /\ t # None
      BY <1>b, <1>1, <1>3, DocumentAssumption DEF Sound
    <2>2. bill'[i] = d /\ (back'[i] = back[i] \/ Fewer(i))
      BY <1>c, <2>1
    <2>3. /\ r.at \in {"lines", "weigh", "post"} /\ r.asked >= 1
          /\ r.asked = r.left + SumFunction(r.take)
          /\ r.at # "lines" => r.left = 0 /\ Priced(r)
      BY <1>1, <1>3 DEF Asked
    <2>4. ASSUME r.at # "lines"
          PROVE  Priced(req[t])'
      <3>1. CASE back'[i] = back[i]
        <4>1. /\ r.sum >= 0
              /\ bill'[i].discount = 0 => r.sum = 0
              /\ back'[i].discount + r.sum <= bill'[i].discount
              /\ UnitsBack(i)' + r.asked = UnitsSold(bill'[i]) =>
                    back'[i].discount + r.sum = bill'[i].discount
          BY <1>b, <1>c, <2>2, <2>3, <2>4, <3>1, PricedStays
        <4>2. UnitsBack(req[t].invoice)' = UnitsBack(i)'
          BY <1>b, <1>1 DEF UnitsBack
        <4>3. UnitsSold(bill[req[t].invoice])' = UnitsSold(bill'[i])
          BY <1>b, <1>1 DEF UnitsSold
        <4> QED BY <1>b, <1>1, <4>1, <4>2, <4>3 DEF Priced
      <3>2. CASE Fewer(i)
        <4>1. /\ r.sum >= 0 /\ (d.discount = 0 => r.sum = 0)
              /\ back[i].discount + r.sum <= d.discount
          BY <1>b, <1>c, <2>3, <2>4 DEF Priced
        <4>2. back'[i].discount <= back[i].discount /\ UnitsBack(i)' < UnitsBack(i)
          BY <3>2 DEF Fewer
        <4>3. /\ SumFunction(r.take) \in Int /\ UnitsBack(i) \in Int /\ UnitsSold(d) \in Int
              /\ UnitsBack(i) + SumFunction(r.take) <= UnitsSold(d)
          BY <1>a, <1>b, <1>c, <1>3, <2>1, BackWithinSold DEF WholeDocuments
        <4>4. r.asked = SumFunction(r.take)
          BY <2>3, <2>4, <4>3
        <4>5. back'[i] \in Sums
          BY <2>1, UnitTypes DEF TypeOK
        <4>6. UnitsBack(i)' \in Int
          <5>1. back'[i].units \in Units
            BY <4>5 DEF Sums
          <5>2. SumFunction(back'[i].units) \in Int
            BY <5>1, UnitSums DEF WholeDocuments
          <5> QED BY <5>2 DEF UnitsBack
        <4>7. UnitsBack(i)' + r.asked # UnitsSold(d)
          BY <4>2, <4>3, <4>4, <4>6
        <4>8. back'[i].discount + r.sum <= d.discount
          <5>1. /\ back'[i].discount \in Int /\ back[i].discount \in Int
                /\ r.sum \in Int /\ d.discount \in Int
            <6>1. back'[i].discount \in Int /\ back[i].discount \in Int
              BY <2>1, <4>5, UnitTypes DEF Sums
            <6>2. r.sum \in Int
              BY <1>1 DEF Carried
            <6>3. d.discount \in Int
              BY <1>c, <2>1, DocumentFields DEF Live
            <6> QED BY <6>1, <6>2, <6>3
          <5> DEFINE a == back'[i].discount
                     b == back[i].discount
                     c == r.sum
                     e == d.discount
          <5>2. a \in Int /\ b \in Int /\ c \in Int /\ e \in Int /\ a <= b /\ b + c <= e
            BY <4>1, <4>2, <5>1
          <5> HIDE DEF a, b, c, e
          <5>3. a + c <= e
            BY <5>2
          <5> QED BY <5>3 DEF a, c, e
        <4>9. UnitsBack(req[t].invoice)' = UnitsBack(i)'
          BY <1>b, <1>1 DEF UnitsBack
        <4>10. UnitsSold(bill[req[t].invoice])' = UnitsSold(d)
          BY <1>b, <1>1, <2>2 DEF UnitsSold
        <4> QED BY <1>b, <1>1, <2>2, <4>1, <4>7, <4>8, <4>9, <4>10 DEF Priced
      <3> QED BY <2>2, <3>1, <3>2
    <2>5. SumFunction(req[t].take)' = SumFunction(r.take)
      BY <1>1
    <2> QED BY <1>1, <2>3, <2>4, <2>5 DEF Asked
  <1> QED BY <1>2, <1>3

-----------------------------------------------------------------------------
(* What a step does to its own return. *)

\* Only the four steps of a return go on with it.
LEMMA OtherStepsEnd ==
    ASSUME TypeOK, Assigned, NEW s \in Session, Step(s), Asked(req[s]),
           ~BeginReturn(s), ~ReturnLine(s), ~PriceReturn(s), ~WeighReturn(s)
    PROVE  req'[s].op # "return"
  <1>1. CASE req[s].op # "return"
    BY <1>1, RequestSteps
  <1>2. CASE req[s].op = "return"
    <2>1. req[s].at \in {"lines", "weigh", "post"}
      BY <1>2 DEF Asked
    <2>2. ~ (\/ BeginInvoice(s) \/ BeginEdit(s) \/ BeginCancel(s) \/ BeginResolve(s)
             \/ BeginRefund(s) \/ BeginCollect(s) \/ BeginReceipt(s) \/ ReadBalance(s)
             \/ CountReturns(s) \/ ResetInvoice(s) \/ ReadCredit(s) \/ ReadReturned(s))
      BY <1>2, <2>1 DEF BeginInvoice, BeginEdit, BeginCancel, BeginResolve, BeginRefund,
         BeginCollect, BeginReceipt, ReadBalance, CountReturns, ResetInvoice, ReadCredit,
         ReadReturned, Start, Doing
    <2>3. End(s)
      BY <2>2 DEF Step, PostInvoice, RepostInvoice, DeleteInvoice, PostReturn, CancelNote,
                  ResolveCredit, RefundCredit, CollectPayment, CreatePayment, Abort
    <2>4. req'[s] = Idle
      BY <2>3 DEF End, Goes, TypeOK
    <2> QED BY <2>4 DEF Idle
  <1> QED BY <1>1, <1>2

LEMMA BeginAsked ==
    ASSUME TypeOK, NEW s \in Session, BeginReturn(s), IsFiniteSet(Batch)
    PROVE  Asked(req[s])'
  <1>0. PICK i \in Invoice : Live(i) /\ \E q \in 1..bill[i].subtotal \div bill[i].price :
           Goes(s, [Load(s, "return", i) EXCEPT !.at = "lines", !.asked = q, !.left = q,
                                                !.seen = back[i].units])
    BY DEF BeginReturn
  <1>1. PICK q \in 1..bill[i].subtotal \div bill[i].price :
           Goes(s, [Load(s, "return", i) EXCEPT !.at = "lines", !.asked = q, !.left = q,
                                                !.seen = back[i].units])
    BY <1>0
  <1>2. /\ Load(s, "return", i) \in Carried /\ Load(s, "return", i).take = NoUnits
        /\ req \in [Session -> Carried]
    BY LoadIsCarried DEF Operation, TypeOK
  <1>3. req'[s].at = "lines" /\ req'[s].asked = q /\ req'[s].left = q /\ req'[s].take = NoUnits
    BY <1>1, <1>2 DEF Goes, Carried
  <1>4. q \in Int /\ q >= 1
    <2>1. bill[i].subtotal \in Nat /\ bill[i].price \in Nat \ {0}
      BY <1>0, DocumentFields DEF Live
    <2>2. bill[i].subtotal \div bill[i].price \in Int
      BY <2>1
    <2> QED BY <2>2
  <1>5. SumFunction(req'[s].take) = 0
    BY <1>3, NoUnitsAddUp
  <1> QED BY <1>3, <1>4, <1>5 DEF Asked

LEMMA LineAsked ==
    ASSUME TypeOK, TypeOK', Carrying, NEW s \in Session, ReturnLine(s), IsFiniteSet(Batch),
           Asked(req[s])
    PROVE  Asked(req[s])'
  <1>r. PICK r : r = req[s]
    OBVIOUS
  <1>d. PICK ls : ls = bill[r.invoice].lines
    OBVIOUS
  <1>a. PICK a : a = ls[r.line].batch
    OBVIOUS
  <1>t. PICK t : t = Greater(Lesser(ls[r.line].n - r.seen[a], r.left), 0)
    OBVIOUS
  <1>1. /\ r.op = "return" /\ r.at = "lines" /\ r.left > 0 /\ r.line <= Len(ls)
        /\ Goes(s, [r EXCEPT !.line = @ + 1, !.left = @ - t,
                             !.seen[a] = @ + t, !.take[a] = @ + t])
    BY <1>r, <1>d, <1>a, <1>t, ZenonT(40) DEF ReturnLine, Doing
  <1>2. r \in Carried /\ Sound(s, r) /\ req \in [Session -> Carried]
    BY <1>r DEF Carrying, TypeOK
  <1>3. r.invoice \in Invoice /\ bill[r.invoice] \in Bill
    BY <1>1, <1>2 DEF Sound, Live
  <1>4. /\ r.left \in Nat /\ r.line \in Nat \ {0} /\ r.asked \in Nat
        /\ r.seen \in [Batch -> Int] /\ r.take \in [Batch -> Nat]
    BY <1>2 DEF Carried, Units
  <1>5. a \in Batch /\ ls[r.line].n \in Nat
    <2>1. Len(ls) \in Nat
      BY <1>d, <1>3, DocumentFields
    <2>2. r.line \in 1..Len(ls)
      BY <1>1, <1>4, <2>1
    <2>3. r.line \in 1..Len(bill[r.invoice].lines)
      BY <1>d, <2>2
    <2> QED BY <1>d, <1>a, <1>3, <2>3, LineIsLine
  <1>6. t \in Nat
    <2>1. r.seen[a] \in Int
      BY <1>4, <1>5
    <2> QED BY <1>t, <1>4, <1>5, <2>1 DEF Greater, Lesser
  <1>7. PICK x : x = [r EXCEPT !.line = @ + 1, !.left = @ - t,
                               !.seen[a] = @ + t, !.take[a] = @ + t]
    OBVIOUS
  <1>8. req'[s] = x
    BY <1>1, <1>2, <1>7 DEF Goes
  <1>9. /\ x.at = "lines" /\ x.asked = r.asked /\ x.left = r.left - t
        /\ x.take = [r.take EXCEPT ![a] = @ + t]
    BY <1>1, <1>2, <1>7 DEF Carried
  <1>10. SumFunction(x.take) = SumFunction(r.take) + t /\ SumFunction(r.take) \in Int
    <2> DEFINE f == r.take
               g == x.take
    <2>1. f \in [Batch -> Nat] /\ g = [f EXCEPT ![a] = @ + t]
      BY <1>4, <1>9
    <2> HIDE DEF f, g
    <2>2. f[a] \in Nat /\ g[a] = f[a] + t /\ \A b \in Batch : b # a => g[b] = f[b]
      BY <1>5, <2>1
    <2>3. \A b \in Batch : f[b] \in Int /\ g[b] \in Int
      <3>1. \A b \in Batch : f[b] \in Nat
        BY <2>1
      <3>2. g[a] \in Int
        BY <1>6, <2>2
      <3> QED BY <2>2, <3>1, <3>2
    <2>4. Whole(f, Batch) /\ Whole(g, Batch) /\ SameTerms(f, g, Batch \ {a})
      BY <2>2, <2>3 DEF Whole, SameTerms
    <2>5. SumFunctionOnSet(g, Batch) = SumFunctionOnSet(f, Batch) + (g[a] - f[a])
      BY <1>5, <2>4, SumChange
    <2>6. SumFunctionOnSet(f, Batch) \in Int
      BY <2>4, SumInt
    <2>7. DOMAIN f = Batch /\ DOMAIN g = Batch
      BY <2>1
    <2>8. SumFunction(g) = SumFunction(f) + t /\ SumFunction(f) \in Int
      BY <1>6, <2>2, <2>5, <2>6, <2>7 DEF SumFunction
    <2> QED BY <2>8 DEF f, g
  <1>11. r.asked >= 1 /\ r.asked = r.left + SumFunction(r.take)
    BY <1>r, <1>1 DEF Asked
  <1>12. x.asked = x.left + SumFunction(x.take)
    BY <1>4, <1>6, <1>9, <1>10, <1>11
  <1> QED BY <1>8, <1>9, <1>11, <1>12 DEF Asked

LEMMA PriceAsked ==
    ASSUME TypeOK, Carrying, Within, Figured, WholeDocuments, NEW s \in Session,
           PriceReturn(s), bill' = bill, back' = back
    PROVE  Asked(req[s])'
  <1>r. PICK r : r = req[s]
    OBVIOUS
  <1>i. PICK i : i = r.invoice
    OBVIOUS
  <1>d. PICK d : d = bill[i]
    OBVIOUS
  <1>x. PICK share : share = DiscountShare(d, back[i], r.asked * d.price)
    OBVIOUS
  <1>1. /\ r.op = "return" /\ r.at = "lines" /\ r.left = 0
        /\ Goes(s, [r EXCEPT !.at = "weigh", !.sum = share])
    BY <1>r, <1>i, <1>d, <1>x DEF PriceReturn, Doing
  <1>2. r \in Carried /\ Sound(s, r) /\ req \in [Session -> Carried] /\ Asked(r)
    BY <1>r DEF Carrying, TypeOK, Figured
  <1>3. i \in Invoice /\ Live(i) /\ d \in Bill
    BY <1>i, <1>d, <1>1, <1>2 DEF Sound, Live
  <1>4. PICK x : x = [r EXCEPT !.at = "weigh", !.sum = share]
    OBVIOUS
  <1>5. req'[s] = x
    BY <1>1, <1>2, <1>4 DEF Goes
  <1>6. /\ x.at = "weigh" /\ x.asked = r.asked /\ x.left = r.left /\ x.take = r.take
        /\ x.invoice = i /\ x.sum = share
    BY <1>i, <1>2, <1>4 DEF Carried
  <1>7. r.asked >= 1 /\ r.asked = r.left + SumFunction(r.take) /\ r.asked \in Nat
    BY <1>1, <1>2 DEF Asked, Carried
  <1>8. /\ AddUp(d, back[i], UnitsBack(i)) /\ back[i].discount <= d.discount
        /\ d.discount = 0 => back[i].discount = 0
        /\ back[i] \in Sums
    BY <1>d, <1>3, UnitTypes DEF Figured, Even, AddUp
  <1>9. /\ d.price \in Nat \ {0} /\ d.subtotal = d.price * UnitsSold(d)
        /\ d.subtotal = 0 => d.discount = 0
    <2>1. UnitsSold(d) \in Int
      BY <1>3, SoldIsNumber DEF WholeDocuments
    <2> QED BY <1>3, <2>1, NothingOffNothing, DocumentFields DEF WholeDocuments
  <1>10. r.asked * d.price \in Nat
    BY <1>7, <1>9
  <1>11. /\ share >= 0
         /\ d.discount = 0 => share = 0
         /\ back[i].discount + share <= d.discount
         /\ back[i].sub + r.asked * d.price = d.subtotal => back[i].discount + share = d.discount
    BY <1>x, <1>3, <1>8, <1>9, <1>10, ShareFits
  <1>12. UnitsBack(i) + r.asked = UnitsSold(d) => back[i].sub + r.asked * d.price = d.subtotal
    <2>1. UnitsBack(i) \in Int /\ back[i].sub = d.price * UnitsBack(i)
      BY <1>3, <1>8, BackWithinSold DEF AddUp, WholeDocuments
    <2>2. \A p, u, q \in Int : p * u + q * p = p * (u + q)
      OBVIOUS
    <2> QED BY <1>7, <1>9, <2>1, <2>2
  <1>13. UnitsBack(i)' = UnitsBack(i)
    BY DEF UnitsBack
  <1>14. Priced(req[s])'
    <2>1. UnitsBack(req[s].invoice)' = UnitsBack(i)
      BY <1>5, <1>6 DEF UnitsBack
    <2>2. UnitsSold(bill[req[s].invoice])' = UnitsSold(d)
      BY <1>d, <1>5, <1>6 DEF UnitsSold
    <2> QED BY <1>d, <1>5, <1>6, <1>11, <1>12, <2>1, <2>2 DEF Priced
  <1> QED BY <1>1, <1>5, <1>6, <1>7, <1>14 DEF Asked

LEMMA WeighAsked ==
    ASSUME TypeOK, Figured, NEW s \in Session, WeighReturn(s), bill' = bill, back' = back
    PROVE  Asked(req[s])'
  <1>r. PICK r : r = req[s]
    OBVIOUS
  <1>1. PICK v : Goes(s, [r EXCEPT !.at = "post", !.over = v])
    BY <1>r DEF WeighReturn
  <1>2. r.op = "return" /\ r.at = "weigh" /\ r \in Carried /\ req \in [Session -> Carried]
        /\ Asked(r)
    BY <1>r DEF WeighReturn, Doing, TypeOK, Figured
  <1>3. PICK x : x = [r EXCEPT !.at = "post", !.over = v]
    OBVIOUS
  <1>4. req'[s] = x
    BY <1>1, <1>2, <1>3 DEF Goes
  <1>5. /\ x.at = "post" /\ x.asked = r.asked /\ x.left = r.left /\ x.take = r.take
        /\ x.invoice = r.invoice /\ x.sum = r.sum
    BY <1>2, <1>3 DEF Carried
  <1>6. /\ r.asked >= 1 /\ r.asked = r.left + SumFunction(r.take) /\ r.left = 0 /\ Priced(r)
    BY <1>2 DEF Asked
  <1>7. Priced(req[s])'
    <2>1. /\ r.sum >= 0
          /\ bill'[r.invoice].discount = 0 => r.sum = 0
          /\ back'[r.invoice].discount + r.sum <= bill'[r.invoice].discount
          /\ UnitsBack(r.invoice)' + r.asked = UnitsSold(bill'[r.invoice]) =>
                back'[r.invoice].discount + r.sum = bill'[r.invoice].discount
      BY <1>6, PricedStays
    <2>2. UnitsBack(req[s].invoice)' = UnitsBack(r.invoice)'
      BY <1>4, <1>5 DEF UnitsBack
    <2>3. UnitsSold(bill[req[s].invoice])' = UnitsSold(bill'[r.invoice])
      BY <1>4, <1>5 DEF UnitsSold
    <2> QED BY <1>4, <1>5, <2>1, <2>2, <2>3 DEF Priced
  <1> QED BY <1>4, <1>5, <1>6, <1>7 DEF Asked

-----------------------------------------------------------------------------
(* The notes and their sums, action by action. *)

\* Two that add up, put together, add up.
LEMMA AddUpTogether ==
    ASSUME WholeDocuments, NEW d \in Bill, NEW x \in Sums, NEW n \in Written, NEW m \in Sums,
           NEW u \in Int, NEW v \in Int, NEW sign \in {-1, 1},
           AddUp(d, x, u), AddUp(d, n, v), m = Added(x, n, sign)
    PROVE  /\ AddUp(d, m, u + sign * v)
           /\ m.discount = x.discount + sign * n.discount
  <1>1. /\ m.sub = x.sub + sign * n.sub /\ m.discount = x.discount + sign * n.discount
        /\ m.total = x.total + sign * n.total
    BY DEF Added
  <1>2. /\ x.sub \in Int /\ x.discount \in Int /\ x.total \in Int
        /\ n.sub \in Int /\ n.discount \in Int /\ n.total \in Int
    BY DEF Sums, Written
  <1>3. PICK p : p = d.price
    OBVIOUS
  <1>4. PICK t : t = UnitTax(d)
    OBVIOUS
  <1>5. p \in Int /\ t \in Int
    <2>1. UnitsSold(d) \in Int
      BY SoldIsNumber DEF WholeDocuments
    <2>2. UnitTax(d) \in Nat
      BY <2>1, TaxByTheUnit
    <2> QED BY <1>3, <1>4, <2>2, DocumentFields
  <1>6. /\ x.sub = p * u /\ x.total = x.sub + t * u - x.discount
        /\ n.sub = p * v /\ n.total = n.sub + t * v - n.discount
        /\ d.discount = 0 => x.discount = 0 /\ n.discount = 0
    BY <1>3, <1>4 DEF AddUp
  <1>7. m.sub = p * (u + sign * v)
    <2>1. \A a, b, c, e \in Int : a * b + e * (a * c) = a * (b + e * c)
      OBVIOUS
    <2>2. sign \in Int
      OBVIOUS
    <2> QED BY <1>1, <1>5, <1>6, <2>1, <2>2
  <1>8. m.total = m.sub + t * (u + sign * v) - m.discount
    <2>1. t * (u + sign * v) = t * u + sign * (t * v)
      <3>1. \A a, b, c, e \in Int : a * (b + e * c) = a * b + e * (a * c)
        OBVIOUS
      <3>2. sign \in Int
        OBVIOUS
      <3> QED BY <1>5, <3>1, <3>2
    <2>2. t * u \in Int /\ t * v \in Int
      BY <1>5
    <2> DEFINE a == x.sub
               b == x.discount
               c == n.sub
               e == n.discount
               y == t * u
               z == t * v
    <2>3. a \in Int /\ b \in Int /\ c \in Int /\ e \in Int /\ y \in Int /\ z \in Int
      BY <1>2, <2>2
    <2> HIDE DEF a, b, c, e, y, z
    <2>4. (a + y - b) + sign * (c + z - e) = (a + sign * c) + (y + sign * z) - (b + sign * e)
      <3>1. CASE sign = 1
        BY <2>3, <3>1
      <3>2. CASE sign = -1
        BY <2>3, <3>2
      <3> QED BY <3>1, <3>2
    <2>5. (x.sub + t * u - x.discount) + sign * (n.sub + t * v - n.discount)
            = (x.sub + sign * n.sub) + t * (u + sign * v) - (x.discount + sign * n.discount)
      BY <2>1, <2>4 DEF a, b, c, e, y, z
    <2> QED BY <1>1, <1>6, <2>5, Zenon
  <1>9. d.discount = 0 => m.discount = 0
    BY <1>1, <1>6
  <1> QED BY <1>1, <1>3, <1>4, <1>7, <1>8, <1>9 DEF AddUp

\* What a priced return adds up to as a note.
LEMMA NoteAddsUp ==
    ASSUME TypeOK, Carrying, Within, Figured, WholeDocuments, NEW s \in Session,
           req[s].op = "return", req[s].at = "post", NEW i, i = req[s].invoice,
           NEW x, x.sub = req[s].asked * bill[i].price, x.discount = req[s].sum,
           x.total = NoteTotal(s)
    PROVE  /\ i \in Invoice /\ Live(i) /\ held[i] = s
           /\ req[s].asked = SumFunction(req[s].take) /\ req[s].asked \in Int /\ req[s].asked >= 1
           /\ AddUp(bill[i], x, req[s].asked)
           /\ x.discount >= 0
           /\ UnitsBack(i) + req[s].asked <= UnitsSold(bill[i])
           /\ back[i].discount + x.discount <= bill[i].discount
           /\ UnitsBack(i) + req[s].asked = UnitsSold(bill[i]) =>
                 back[i].discount + x.discount = bill[i].discount
  <1>r. PICK r : r = req[s]
    OBVIOUS
  <1>d. PICK d : d = bill[i]
    OBVIOUS
  <1>1. r \in Carried /\ Sound(s, r) /\ Asked(r)
    BY <1>r DEF Carrying, TypeOK, Figured
  <1>2. i \in Invoice /\ Live(i) /\ held[i] = s /\ d \in Bill
    BY <1>r, <1>d, <1>1 DEF Sound, Live
  <1>3. r.asked >= 1 /\ r.asked = r.left + SumFunction(r.take) /\ r.left = 0 /\ Priced(r)
    BY <1>r, <1>1 DEF Asked
  <1>4. /\ SumFunction(r.take) \in Int /\ UnitsSold(d) \in Int
        /\ UnitsBack(i) + SumFunction(r.take) <= UnitsSold(d)
    BY <1>r, <1>d, <1>2, BackWithinSold DEF WholeDocuments
  <1>5. r.asked = SumFunction(r.take) /\ r.asked \in Nat /\ r.sum \in Int
    BY <1>1, <1>3, <1>4 DEF Carried
  <1>6. d.price \in Nat /\ UnitTax(d) \in Nat
        /\ TaxShare(d, r.asked * d.price) = UnitTax(d) * r.asked
    BY <1>2, <1>4, <1>5, DocumentFields, TaxByTheUnit
  <1>7. NoteTotal(s) = r.asked * d.price + TaxShare(d, r.asked * d.price) - r.sum
    BY <1>r, <1>d DEF NoteTotal
  <1>8. r.asked * d.price = d.price * r.asked
    BY <1>5, <1>6
  <1>9. /\ r.sum >= 0 /\ (d.discount = 0 => r.sum = 0)
        /\ back[i].discount + r.sum <= d.discount
        /\ UnitsBack(i) + r.asked = UnitsSold(d) => back[i].discount + r.sum = d.discount
    BY <1>r, <1>d, <1>3 DEF Priced
  <1>10. AddUp(d, x, r.asked)
    <2>1. x.sub = d.price * r.asked /\ x.discount = r.sum
      BY <1>r, <1>d, <1>8
    <2>2. x.total = x.sub + UnitTax(d) * r.asked - x.discount
      BY <1>r, <1>d, <1>6, <1>7
    <2> QED BY <1>9, <2>1, <2>2 DEF AddUp
  <1> QED BY <1>r, <1>d, <1>2, <1>3, <1>4, <1>5, <1>9, <1>10

LEMMA PostReturnFigured ==
    ASSUME TypeOK, TypeOK', Carrying, Within, Figured, WholeDocuments, NEW s \in Session,
           PostReturn(s)
    PROVE  Figured'
  <1>i. PICK i : i = req[s].invoice
    OBVIOUS
  <1>x. PICK x : x = [invoice |-> i, status |-> "posted", units |-> req[s].take,
                      sub |-> req[s].asked * bill[i].price,
                      discount |-> req[s].sum, total |-> NoteTotal(s)]
    OBVIOUS
  <1>q. PICK q : q = req[s].asked
    OBVIOUS
  <1>1. req[s].op = "return" /\ req[s].at = "post" /\ Step(s) /\ End(s) /\ bill' = bill
    BY DEF PostReturn, Doing, Step
  <1>2. PICK n \in Note :
           /\ note[n].status = "none"
           /\ note' = [note EXCEPT ![n] = x]
           /\ back' = [back EXCEPT ![i] = Added(@, x, 1)]
    BY <1>i, <1>x DEF PostReturn, IsNext
  <1>3. /\ x.invoice = i /\ x.status = "posted" /\ x.units = req[s].take
        /\ x.sub = req[s].asked * bill[i].price /\ x.discount = req[s].sum
        /\ x.total = NoteTotal(s)
    BY <1>x
  <1>4. /\ i \in Invoice /\ Live(i) /\ held[i] = s
        /\ q = SumFunction(x.units) /\ q \in Int /\ q >= 1
        /\ AddUp(bill[i], x, q) /\ x.discount >= 0
        /\ UnitsBack(i) + q <= UnitsSold(bill[i])
        /\ back[i].discount + x.discount <= bill[i].discount
        /\ UnitsBack(i) + q = UnitsSold(bill[i]) =>
              back[i].discount + x.discount = bill[i].discount
    BY <1>i, <1>q, <1>1, <1>3, NoteAddsUp
  <1>5. /\ note'[n] = x /\ \A m \in Note : m # n => note'[m] = note[m]
        /\ back'[i] = Added(back[i], x, 1) /\ \A j \in Invoice : j # i => back'[j] = back[j]
    BY <1>2, <1>4 DEF TypeOK
  <1>6. x \in Written /\ back[i] \in Sums /\ back'[i] \in Sums
    BY <1>2, <1>4, <1>5, UnitTypes DEF TypeOK
  <1>7. bill[i] \in Bill /\ UnitsBack(i) \in Int
    BY <1>4, BackWithinSold DEF WholeDocuments, Live
  <1>8. UnitsBack(i)' = UnitsBack(i) + q
    <2>1. back[i].units \in Units /\ x.units \in Units /\ back'[i].units \in Units
      <3>1. x.units \in [Batch -> Nat]
        BY <1>6 DEF Written
      <3>2. x.units \in Units
        BY <3>1 DEF Units
      <3> QED BY <1>6, <3>2 DEF Sums
    <2>2. \A b \in Batch : back'[i].units[b] = back[i].units[b] + x.units[b]
      <3>1. \A b \in Batch : x.units[b] \in Int
        BY <2>1 DEF Units
      <3>2. \A b \in Batch : back'[i].units[b] = back[i].units[b] + 1 * x.units[b]
        BY <1>5, AddedUnits
      <3> QED BY <3>1, <3>2
    <2>3. SumFunction(back'[i].units) = SumFunction(back[i].units) + SumFunction(x.units)
      BY <2>1, <2>2, UnitsAddUp DEF WholeDocuments
    <2> QED BY <1>4, <2>3 DEF UnitsBack
  <1>9. AddUp(bill[i], back[i], UnitsBack(i))
    BY <1>4 DEF Figured, Even
  <1>10. /\ AddUp(bill[i], back'[i], UnitsBack(i) + 1 * q)
         /\ back'[i].discount = back[i].discount + 1 * x.discount
    BY <1>4, <1>5, <1>6, <1>7, <1>9, AddUpTogether
  <1>11. 1 * q = q /\ 1 * x.discount = x.discount
    BY <1>4, <1>6 DEF Written
  <1>12. Even(i)'
    <2>1. AddUp(bill'[i], back'[i], UnitsBack(i)')
      BY <1>1, <1>8, <1>10, <1>11
    <2>2. AddUp(bill[i], back[i], UnitsBack(i))'
      BY <2>1 DEF AddUp, UnitTax, UnitsSold
    <2>3. UnitsSold(bill[i])' = UnitsSold(bill[i])
      BY <1>1 DEF UnitsSold
    <2> QED BY <1>1, <1>4, <1>8, <1>10, <1>11, <2>2, <2>3 DEF Even, Live
  <1>13. \A j \in Invoice : Even(j)'
    <2>1. \A j \in Invoice : j # i => Even(j)'
      BY <1>1, <1>5, EvenStays DEF Figured
    <2> QED BY <1>12, <2>1
  <1>14. Proper(n)'
    <2>1. Live(note[n].invoice)' /\ note'[n].discount >= 0
      BY <1>1, <1>3, <1>4, <1>5 DEF Live
    <2>2. SumFunction(note[n].units)' = q
      BY <1>4, <1>5
    <2>3. AddUp(bill[note[n].invoice], note[n], SumFunction(note[n].units))'
      <3>1. AddUp(bill'[note'[n].invoice], note'[n], SumFunction(note'[n].units))
        BY <1>1, <1>3, <1>4, <1>5
      <3> QED BY <3>1 DEF AddUp, UnitTax, UnitsSold
    <2> QED BY <1>4, <2>1, <2>2, <2>3 DEF Proper
  <1>15. \A m \in Note : Proper(m)'
    <2>1. \A m \in Note : m # n => Proper(m)'
      BY <1>1, <1>5, ProperStays DEF Figured
    <2> QED BY <1>14, <2>1
  <1>16. \A t \in Session : Asked(req[t])'
    <2>1. \A j \in Invoice : Live(j) /\ held[j] \notin {None, s} =>
             bill'[j] = bill[j] /\ (back'[j] = back[j] \/ Fewer(j))
      BY <1>1, <1>4, <1>5
    <2>2. \A t \in Session : t # s => Asked(req[t])'
      BY <1>1, <2>1, OthersAsked
    <2>3. req'[s] = Idle
      BY <1>1 DEF End, Goes, TypeOK
    <2> QED BY <2>2, <2>3 DEF Asked, Idle
  <1> QED BY <1>13, <1>15, <1>16 DEF Figured

LEMMA CancelNoteFigured ==
    ASSUME TypeOK, TypeOK', Carrying, Within, Figured, WholeDocuments, NEW s \in Session,
           CancelNote(s)
    PROVE  Figured'
  <1>n. PICK n : n = req[s].note
    OBVIOUS
  <1>x. PICK x : x = note[n]
    OBVIOUS
  <1>i. PICK i : i = x.invoice
    OBVIOUS
  <1>1. /\ req[s].op = "cancel" /\ Step(s) /\ End(s) /\ bill' = bill
        /\ note' = [note EXCEPT ![n].status = "cancelled"]
        /\ back' = [back EXCEPT ![i] = Added(@, x, -1)]
    BY <1>n, <1>x, <1>i DEF CancelNote, Doing, Step
  <1>2. n \in Note /\ x.status = "posted" /\ i \in Invoice /\ x \in Written
    BY <1>n, <1>x, <1>i, <1>1, UnitTypes DEF Carrying, Sound
  <1>3. PICK v : v = SumFunction(x.units)
    OBVIOUS
  <1>4. Live(i) /\ AddUp(bill[i], x, v) /\ v >= 1 /\ x.discount >= 0
    BY <1>x, <1>i, <1>2, <1>3 DEF Figured, Proper
  <1>5. /\ note'[n].status = "cancelled" /\ \A m \in Note : m # n => note'[m] = note[m]
        /\ back'[i] = Added(back[i], x, -1) /\ \A j \in Invoice : j # i => back'[j] = back[j]
    BY <1>1, <1>2 DEF TypeOK, Written
  <1>6. back[i] \in Sums /\ back'[i] \in Sums
    BY <1>2 DEF TypeOK
  <1>7. /\ bill[i] \in Bill /\ UnitsBack(i) \in Int /\ UnitsSold(bill[i]) \in Int
        /\ UnitsBack(i) <= UnitsSold(bill[i])
    BY <1>2, <1>4, BackWithinSold DEF WholeDocuments, Live
  <1>8. v \in Int /\ UnitsBack(i)' = UnitsBack(i) - v
    <2>1. back[i].units \in Units /\ x.units \in Units /\ back'[i].units \in Units
      <3>1. x.units \in [Batch -> Nat]
        BY <1>2 DEF Written
      <3>2. x.units \in Units
        BY <3>1 DEF Units
      <3> QED BY <1>6, <3>2 DEF Sums
    <2>2. \A b \in Batch : back[i].units[b] = back'[i].units[b] + x.units[b]
      <3>1. \A b \in Batch : x.units[b] \in Int /\ back[i].units[b] \in Int
        BY <2>1 DEF Units
      <3>2. \A b \in Batch : back'[i].units[b] = back[i].units[b] + (-1) * x.units[b]
        BY <1>5, AddedUnits
      <3> QED BY <3>1, <3>2
    <2>3. /\ SumFunction(back[i].units) = SumFunction(back'[i].units) + SumFunction(x.units)
          /\ SumFunction(back'[i].units) \in Int /\ SumFunction(x.units) \in Int
      BY <2>1, <2>2, UnitsAddUp DEF WholeDocuments
    <2> QED BY <1>3, <2>3 DEF UnitsBack
  <1>9. AddUp(bill[i], back[i], UnitsBack(i)) /\ back[i].discount <= bill[i].discount
    BY <1>2, <1>4 DEF Figured, Even
  <1>10. /\ AddUp(bill[i], back'[i], UnitsBack(i) + (-1) * v)
         /\ back'[i].discount = back[i].discount + (-1) * x.discount
    BY <1>2, <1>4, <1>5, <1>6, <1>7, <1>8, <1>9, AddUpTogether
  <1>11. /\ UnitsBack(i) + (-1) * v = UnitsBack(i)'
         /\ UnitsBack(i)' < UnitsBack(i) /\ UnitsBack(i)' # UnitsSold(bill[i])
    BY <1>4, <1>7, <1>8
  <1>12. back'[i].discount <= back[i].discount /\ back'[i].discount <= bill[i].discount
    <2>1. /\ x.discount \in Int /\ back[i].discount \in Int /\ back'[i].discount \in Int
          /\ bill[i].discount \in Int
      BY <1>2, <1>6, <1>7, DocumentFields DEF Written, Sums
    <2> DEFINE a == back'[i].discount
               b == back[i].discount
               c == x.discount
               e == bill[i].discount
    <2>2. a \in Int /\ b \in Int /\ c \in Int /\ e \in Int /\ a = b + (-1) * c /\ c >= 0 /\ b <= e
      BY <1>4, <1>9, <1>10, <2>1
    <2> HIDE DEF a, b, c, e
    <2>3. a <= b /\ a <= e
      BY <2>2
    <2> QED BY <2>3 DEF a, b, e
  <1>13. Even(i)'
    <2>1. AddUp(bill'[i], back'[i], UnitsBack(i)')
      BY <1>1, <1>10, <1>11
    <2>2. AddUp(bill[i], back[i], UnitsBack(i))'
      BY <2>1 DEF AddUp, UnitTax, UnitsSold
    <2>3. UnitsSold(bill[i])' = UnitsSold(bill[i])
      BY <1>1 DEF UnitsSold
    <2> QED BY <1>1, <1>4, <1>11, <1>12, <2>2, <2>3 DEF Even, Live
  <1>14. \A j \in Invoice : Even(j)'
    <2>1. \A j \in Invoice : j # i => Even(j)'
      BY <1>1, <1>5, EvenStays DEF Figured
    <2> QED BY <1>13, <2>1
  <1>15. \A m \in Note : Proper(m)'
    <2>1. \A m \in Note : m # n => Proper(m)'
      BY <1>1, <1>5, ProperStays DEF Figured
    <2>2. Proper(n)'
      BY <1>5 DEF Proper
    <2> QED BY <2>1, <2>2
  <1>16. \A t \in Session : Asked(req[t])'
    <2>1. Fewer(i)
      BY <1>11, <1>12 DEF Fewer
    <2>2. \A j \in Invoice : Live(j) /\ held[j] \notin {None, s} =>
             bill'[j] = bill[j] /\ (back'[j] = back[j] \/ Fewer(j))
      BY <1>1, <1>5, <2>1
    <2>3. \A t \in Session : t # s => Asked(req[t])'
      BY <1>1, <2>2, OthersAsked
    <2>4. req'[s] = Idle
      BY <1>1 DEF End, Goes, TypeOK
    <2> QED BY <2>3, <2>4 DEF Asked, Idle
  <1> QED BY <1>14, <1>15, <1>16 DEF Figured

\* The step that posts or deletes an invoice meets one of which nothing is back.
LEMMA BillFigured ==
    ASSUME TypeOK, TypeOK', Carrying, Within, Figured, WholeDocuments, NEW s \in Session,
           PostInvoice(s) \/ DeleteInvoice(s)
    PROVE  Figured'
  <1>1. /\ Sound(s, req[s]) /\ Step(s) /\ End(s) /\ back' = back /\ note' = note
        /\ req \in [Session -> Carried]
    BY DEF Carrying, Step, TypeOK, PostInvoice, DeleteInvoice, notes
  <1>2. PICK i \in Invoice :
           /\ \A j \in Invoice : j # i => bill'[j] = bill[j]
           /\ Live(i) => held[i] \in {None, s} /\ \A n \in Note : note[n].invoice # i
           /\ Even(i)'
    <2>1. CASE PostInvoice(s)
      <3>1. PICK i \in Invoice : bill[i] = None /\ bill' = [bill EXCEPT ![i] = req[s].bill]
        BY <2>1 DEF PostInvoice, IsNext
      <3>2. ~Live(i) /\ bill[i] # Deleted
        BY <3>1, DocumentAssumption DEF Live
      <3>3. req[s].bill \in Bill
        BY <1>1, <2>1 DEF PostInvoice, Doing, Sound
      <3>4. bill'[i] \in Bill /\ \A j \in Invoice : j # i => bill'[j] = bill[j]
        BY <3>1, <3>3 DEF TypeOK
      <3>5. back'[i] = Nothing
        BY <1>1, <3>2 DEF Figured, Even
      <3>6. PICK d \in Bill : d = bill'[i]
        BY <3>4
      <3>7. UnitsSold(d) \in Int
        BY SoldIsNumber DEF WholeDocuments
      <3>8. /\ AddUp(d, Nothing, 0) /\ SumFunction(Nothing.units) = 0
            /\ Nothing.discount <= d.discount
            /\ 0 = UnitsSold(d) => Nothing.discount = d.discount
        BY <3>7, NothingIsEven
      <3>9. UnitsBack(i)' = 0
        <4>1. SumFunction(back'[i].units) = 0
          BY <3>5, <3>8
        <4> QED BY <4>1 DEF UnitsBack
      <3>10. AddUp(bill[i], back[i], UnitsBack(i))'
        <4>1. AddUp(bill'[i], back'[i], UnitsBack(i)')
          BY <3>5, <3>6, <3>8, <3>9
        <4> QED BY <4>1 DEF AddUp, UnitTax, UnitsSold
      <3>11. UnitsSold(bill[i])' = UnitsSold(d)
        BY <3>6 DEF UnitsSold
      <3>12. back'[i].discount <= bill'[i].discount
             /\ (UnitsBack(i)' = UnitsSold(d) => back'[i].discount = bill'[i].discount)
        BY <3>5, <3>6, <3>8, <3>9
      <3>13. Even(i)'
        BY <3>4, <3>10, <3>11, <3>12 DEF Even, Live
      <3> QED BY <3>2, <3>4, <3>13
    <2>2. CASE DeleteInvoice(s)
      <3>0. PICK i : i = req[s].invoice
        OBVIOUS
      <3>1. /\ i \in Invoice /\ held[i] \in {None, s} /\ \A n \in Note : note[n].invoice # i
            /\ bill' = [bill EXCEPT ![i] = Deleted]
        BY <1>1, <2>2, <3>0 DEF DeleteInvoice, Doing, Sound, Writable
      <3>2. bill'[i] = Deleted /\ \A j \in Invoice : j # i => bill'[j] = bill[j]
        BY <3>1 DEF TypeOK
      <3>3. Even(i)'
        BY <3>2, DocumentAssumption DEF Even, Live
      <3> QED BY <3>1, <3>2, <3>3
    <2> QED BY <2>1, <2>2
  <1>3. \A j \in Invoice : Even(j)'
    <2>1. \A j \in Invoice : j # i => Even(j)'
      BY <1>1, <1>2, EvenStays DEF Figured
    <2> QED BY <1>2, <2>1
  <1>4. ASSUME NEW n \in Note PROVE Proper(n)'
    <2>1. note[n].status = "posted" => note[n].invoice \in Invoice /\ note[n].invoice # i
      BY <1>2 DEF Figured, Proper, Carrying
    <2>2. note[n].status = "posted" => bill'[note[n].invoice] = bill[note[n].invoice]
      BY <1>2, <2>1
    <2> QED BY <1>1, <2>2, ProperStays DEF Figured
  <1>5. \A t \in Session : Asked(req[t])'
    <2>1. \A j \in Invoice : Live(j) /\ held[j] \notin {None, s} =>
             bill'[j] = bill[j] /\ (back'[j] = back[j] \/ Fewer(j))
      BY <1>1, <1>2
    <2>2. \A t \in Session : t # s => Asked(req[t])'
      BY <1>1, <2>1, OthersAsked
    <2>3. req'[s] = Idle
      BY <1>1 DEF End, Goes
    <2> QED BY <2>2, <2>3 DEF Asked, Idle
  <1> QED BY <1>3, <1>4, <1>5 DEF Figured

\* Every other step leaves documents, returns and notes as they are.
LEMMA OtherFigured ==
    ASSUME TypeOK, TypeOK', Carrying, Within, Figured, WholeDocuments, NEW s \in Session,
           Step(s), bill' = bill, back' = back, note' = note
    PROVE  Figured'
  <1>1. Asked(req[s]) /\ Assigned /\ IsFiniteSet(Batch)
    BY DEF Figured, Within, WholeDocuments
  <1>2. Asked(req[s])'
    <2>1. CASE BeginReturn(s)
      BY <1>1, <2>1, BeginAsked
    <2>2. CASE ReturnLine(s)
      BY <1>1, <2>2, LineAsked
    <2>3. CASE PriceReturn(s)
      BY <2>3, PriceAsked
    <2>4. CASE WeighReturn(s)
      BY <2>4, WeighAsked
    <2>5. CASE ~(BeginReturn(s) \/ ReturnLine(s) \/ PriceReturn(s) \/ WeighReturn(s))
      <3>1. req'[s].op # "return"
        BY <1>1, <2>5, OtherStepsEnd
      <3> QED BY <3>1 DEF Asked
    <2> QED BY <2>1, <2>2, <2>3, <2>4, <2>5
  <1>3. \A t \in Session : t # s => Asked(req[t])'
    BY OthersAsked
  <1>4. \A n \in Note : Proper(n)'
    BY ProperStays DEF Figured
  <1>5. \A i \in Invoice : Even(i)'
    BY EvenStays DEF Figured
  <1> QED BY <1>2, <1>3, <1>4, <1>5 DEF Figured

LEMMA StepFigured ==
    ASSUME NoEdits, TypeOK, TypeOK', Carrying, Within, Figured, WholeDocuments,
           NEW s \in Session, Step(s)
    PROVE  Figured'
  <1>1. CASE PostReturn(s)
    BY <1>1, PostReturnFigured
  <1>2. CASE CancelNote(s)
    BY <1>2, CancelNoteFigured
  <1>3. CASE PostInvoice(s) \/ DeleteInvoice(s)
    BY <1>3, BillFigured
  <1>4. CASE RepostInvoice(s)
    BY <1>4 DEF RepostInvoice, Doing, Within, Assigned, NoEdits
  <1>5. CASE ~(PostReturn(s) \/ CancelNote(s) \/ PostInvoice(s) \/ DeleteInvoice(s)
               \/ RepostInvoice(s))
    <2>1. bill' = bill /\ back' = back /\ note' = note
      BY <1>5 DEF Step, ReadBalance, BeginInvoice, BeginEdit, CountReturns, ResetInvoice,
                  BeginReturn, ReturnLine, PriceReturn, WeighReturn, BeginCancel, ReadCredit,
                  BeginResolve, ResolveCredit, BeginRefund, RefundCredit, BeginCollect,
                  ReadReturned, CollectPayment, BeginReceipt, CreatePayment, Abort,
                  documents, notes
    <2> QED BY <2>1, OtherFigured
  <1> QED BY <1>1, <1>2, <1>3, <1>4, <1>5

\* All units back: the subtotal, the whole tax and the whole discount are.
LEMMA FiguredCredits ==
    ASSUME TypeOK, Carrying, Within, Figured, WholeDocuments
    PROVE  FullReturnCreditsWhatWasBilled
  <1> SUFFICES ASSUME NEW i \in Invoice, Live(i), back[i].sub = bill[i].subtotal
               PROVE  back[i].total = Total(bill[i])
    BY DEF FullReturnCreditsWhatWasBilled
  <1>d. PICK d \in Bill : d = bill[i]
    BY DEF Live
  <1>1. /\ back[i].sub = d.price * UnitsBack(i)
        /\ back[i].total = back[i].sub + UnitTax(d) * UnitsBack(i) - back[i].discount
        /\ UnitsBack(i) = UnitsSold(d) => back[i].discount = d.discount
    BY <1>d DEF Figured, Even, AddUp
  <1>2. UnitsBack(i) \in Int /\ UnitsSold(d) \in Int
    BY <1>d, BackWithinSold DEF WholeDocuments
  <1>3. /\ d.price \in Nat \ {0} /\ d.subtotal = d.price * UnitsSold(d)
        /\ d.subtotal \in Nat /\ d.vat \in Nat /\ d.discount \in Nat
    BY DocumentFields DEF WholeDocuments
  <1>4. UnitsBack(i) = UnitsSold(d)
    <2>1. \A p \in Nat \ {0}, u, v \in Int : p * u = p * v => u = v
      <3> SUFFICES ASSUME NEW p \in Nat \ {0}, NEW u \in Int, NEW v \in Int, p * u = p * v
                   PROVE  u = v
        OBVIOUS
      <3>1. p * (u - v) = 0
        OBVIOUS
      <3>2. \A w \in Int : p * w = 0 => w = 0
        OBVIOUS
      <3> QED BY <3>1, <3>2
    <2> QED BY <1>d, <1>1, <1>2, <1>3, <2>1
  <1>5. UnitTax(d) * UnitsSold(d) = d.vat
    BY <1>2, TaxByTheUnit
  <1> QED BY <1>d, <1>1, <1>3, <1>4, <1>5 DEF Total

\* Whatever returns, cancellations, collections and deletions interleave, the notes that
\* bring everything back credit what the invoice billed, its discount shared out to the
\* last unit (sales_service.py: _returned_discount_share, create_return).
THEOREM FullReturnAlwaysCredits ==
    ASSUME NoEdits, WholeDocuments
    PROVE  Spec => []FullReturnCreditsWhatWasBilled
  <1>1. Init => TypeOK /\ Carrying /\ Within /\ Figured
    BY InitType, InitCarrying, InitWithin, InitFigured
  <1>2. TypeOK /\ Carrying /\ Within /\ Figured /\ [Next]_vars
           => (TypeOK /\ Carrying /\ Within /\ Figured)'
    <2> SUFFICES ASSUME TypeOK, Carrying, Within, Figured, [Next]_vars
                 PROVE  TypeOK' /\ Carrying' /\ Within' /\ Figured'
      OBVIOUS
    <2>1. TypeOK' /\ Carrying'
      BY NextCarrying
    <2>2. CASE Next
      <3>1. PICK s \in Session : Step(s)
        BY <2>2 DEF Next
      <3>2. Within' /\ Figured'
        BY <2>1, <3>1, StepWithin, StepFigured
      <3> QED BY <2>1, <3>2
    <2>3. CASE UNCHANGED vars
      <3>1. bill' = bill /\ back' = back /\ note' = note /\ req' = req
        BY <2>3 DEF vars, documents, notes
      <3>2. Within'
        BY <3>1 DEF Within, Assigned, Counted, Referred, ReturnedWithinSold, Live, NoUnits
      <3>3. (\A i \in Invoice : Even(i)') /\ (\A n \in Note : Proper(n)')
        BY <3>1, EvenStays, ProperStays DEF Figured
      <3>4. ASSUME NEW s \in Session PROVE Asked(req[s])'
        <4>1. Asked(req[s])
          BY DEF Figured
        <4> QED BY <3>1, <4>1 DEF Asked, Priced, UnitsBack, UnitsSold
      <3> QED BY <2>1, <3>2, <3>3, <3>4 DEF Figured
    <2> QED BY <2>1, <2>2, <2>3
  <1>3. TypeOK /\ Carrying /\ Within /\ Figured => FullReturnCreditsWhatWasBilled
    BY FiguredCredits
  <1> QED BY <1>1, <1>2, <1>3, PTL DEF Spec

=============================================================================
