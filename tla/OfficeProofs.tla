---------------------------- MODULE OfficeProofs ----------------------------
(***************************************************************************)
(* Theorems about six components of the office that share no table: the    *)
(* bank reconciliation (any statement, any journal), the accounts of the   *)
(* staff and the doors they open (any users, roles and lists), the portal  *)
(* login (any lockout), the brake on sign-ins (any window and clock), the  *)
(* register of regulated goods (any sales, returns and closings) and the   *)
(* imported books (any workbooks), each for any number of requests.        *)
(***************************************************************************)
EXTENDS Reconciliation, Doors, SignIn, Register, Brake, Migration, SumLemmas, SequenceTheorems

-----------------------------------------------------------------------------
(* Bank reconciliation *)

Request == {r \in [op : {"match"}, line : Statement, item : Movement] : SameDirection(r.line, r.item)}
           \cup [op : {"unmatch"}, line : Statement, item : Int]

\* What a column may hold: nothing yet, nothing, or an item of the bank account that
\* is on the books and goes the line's way.
Claims ==
    /\ matched \in [Statement -> Int]
    /\ \A l \in Statement : matched[l] > 0 => /\ matched[l] \in journal \cap Movement
                                              /\ SameDirection(l, matched[l])

\* No item is claimed twice.
Distinct == \A l, m \in Matched : matched[l] = matched[m] => l = m

OnDesks == matcher \in [Session -> Request \cup {NoMatcher}]

\* Two requests that hold one line are on record, and one that is about to match a line
\* has read it as free and it still is, but for such company.
OnRecord ==
    /\ \A s, t \in Session :
          s # t /\ matcher[s].line = matcher[t].line /\ matcher[s] # NoMatcher
          /\ matcher[t] # NoMatcher => matcher[s].line \in crossed
    /\ \A s \in Session :
          matcher[s].op = "match" =>
              matched[matcher[s].line] = 0 \/ matcher[s].line \in crossed

BankIInv == Claims /\ Distinct /\ OnDesks /\ OnRecord

-----------------------------------------------------------------------------
LEMMA RequestFields ==
    ASSUME NEW r \in Request \cup {NoMatcher}
    PROVE  /\ r.op = "match" => /\ r.line \in Statement /\ r.item \in Movement
                                /\ SameDirection(r.line, r.item)
           /\ r.op = "unmatch" => r.line \in Statement
           /\ r.op \in {"match", "unmatch"} <=> r # NoMatcher
           /\ r # NoMatcher => r.line \in Statement /\ r.line # 0
  BY ReconciliationAssumption DEF Request, NoMatcher

LEMMA BankInvInit == ReconciliationInit => BankIInv
  BY DEF ReconciliationInit, BankIInv, Claims, Distinct, OnDesks, OnRecord, Matched, NoMatcher

\* Two requests that hold a line are on record, so that a match finds its line as it
\* read it, and the unique index finds its item unclaimed.
LEMMA BankInvStep ==
    ASSUME BankIInv, [ReconciliationNext]_reconciliationVars
    PROVE  BankIInv'
  <1> USE DEF BankIInv
  <1>1. ASSUME NEW l \in Statement, TypeLine(l)
        PROVE  BankIInv'
    <2>1. Claims'
      BY <1>1 DEF TypeLine, Claims
    <2>2. Distinct'
      BY <1>1 DEF TypeLine, Claims, Distinct, Matched
    <2>3. OnDesks'
      BY <1>1 DEF TypeLine, OnDesks
    <2>4. OnRecord'
      BY <1>1, RequestFields DEF TypeLine, Claims, OnDesks, OnRecord
    <2> QED BY <2>1, <2>2, <2>3, <2>4
  <1>2. ASSUME NEW i \in Movement \cup Other, Post(i)
        PROVE  BankIInv'
    BY <1>2 DEF Post, Claims, Distinct, Matched, OnDesks, OnRecord
  <1>3. ASSUME NEW i \in Movement \cup Other, Unpost(i)
        PROVE  BankIInv'
    <2>1. Claims'
      BY <1>3 DEF Unpost, ClaimedBy, Claims
    <2> QED BY <1>3, <2>1 DEF Unpost, Distinct, Matched, OnDesks, OnRecord
  <1>4. ASSUME NEW s \in Session, NEW l \in Statement, NEW i \in Movement \cup Other,
               LoadMatch(s, l, i)
        PROVE  BankIInv'
    <2> DEFINE r == [op |-> "match", line |-> l, item |-> i]
    <2>1. r \in Request /\ r # NoMatcher
      BY <1>4 DEF LoadMatch, Unclaimed, Request, NoMatcher
    <2>2. matcher' = [matcher EXCEPT ![s] = r] /\ matched[l] = 0 /\ UNCHANGED <<matched, journal>>
      BY <1>4 DEF LoadMatch, LineIsFree
    <2>3. /\ crossed \subseteq crossed'
          /\ \A t \in Session \ {s} : matcher[t].line = l => l \in crossed'
      BY <1>4 DEF LoadMatch, Holders
    <2> HIDE DEF r
    <2>4. r.line = l
      BY DEF r
    <2>5. OnRecord'
      BY <2>2, <2>3, <2>4 DEF OnRecord, OnDesks
    <2> QED BY <2>1, <2>2, <2>5 DEF Claims, Distinct, Matched, OnDesks
  <1>5. ASSUME NEW s \in Session, NEW l \in Statement, LoadUnmatch(s, l)
        PROVE  BankIInv'
    <2> DEFINE r == [op |-> "unmatch", line |-> l, item |-> matched[l]]
    <2>1. r \in Request /\ r # NoMatcher
      BY <1>5 DEF LoadUnmatch, Request, NoMatcher, Claims
    <2>2. matcher' = [matcher EXCEPT ![s] = r] /\ UNCHANGED <<matched, journal>>
      BY <1>5 DEF LoadUnmatch
    <2>3. /\ crossed \subseteq crossed'
          /\ \A t \in Session \ {s} : matcher[t].line = l => l \in crossed'
      BY <1>5 DEF LoadUnmatch, Holders
    <2> HIDE DEF r
    <2>4. r.line = l /\ r.op = "unmatch"
      BY DEF r
    <2>5. OnRecord'
      BY <2>2, <2>3, <2>4 DEF OnRecord, OnDesks
    <2> QED BY <2>1, <2>2, <2>5 DEF Claims, Distinct, Matched, OnDesks
  <1>6. ASSUME NEW s \in Session, Match(s)
        PROVE  BankIInv'
    <2> DEFINE l == matcher[s].line
               i == matcher[s].item
    <2>1. /\ l \in Statement /\ i \in Movement /\ i \in journal /\ SameDirection(l, i)
          /\ i \in Nat \ {0} /\ matcher[s] # NoMatcher
      BY <1>6, RequestFields, ReconciliationAssumption DEF Match, OnDesks, NoMatcher
    <2>2. /\ \/ ClaimedBy(i) = {}
             \/ matched[l] = i
          /\ matched' = [matched EXCEPT ![l] = i]
          /\ matcher' = [matcher EXCEPT ![s] = NoMatcher]
          /\ UNCHANGED <<journal, crossed>>
      BY <1>6 DEF Match, FreeItem
    <2> HIDE DEF i
    <2>3. Claims'
      BY <2>1, <2>2 DEF Claims, SameDirection
    <2>4. \A m \in Statement : m # l => matched[m] # i
      BY <2>1, <2>2 DEF ClaimedBy, Claims, Distinct, Matched
    <2>5. Distinct'
      BY <2>1, <2>2, <2>4 DEF Distinct, Matched, Claims
    <2>6. OnDesks'
      BY <2>2 DEF OnDesks
    <2>7. OnRecord'
      <3>1. \A t \in Session : t # s => matcher'[t] = matcher[t]
        BY <2>2 DEF OnDesks
      <3>2. matcher'[s] = NoMatcher
        BY <2>2 DEF OnDesks
      <3>3. \A t \in Session : t # s /\ matcher[t].op = "match" /\ matcher[t].line = l
                                 => l \in crossed
        BY <2>1, RequestFields DEF OnRecord, OnDesks
      <3>4. \A t \in Session : t # s /\ matcher[t].op = "match" => matcher[t].line \in Statement
        BY RequestFields DEF OnDesks
      <3> QED BY <2>2, <3>1, <3>2, <3>3, <3>4 DEF OnRecord, NoMatcher, Claims
    <2> QED BY <2>3, <2>5, <2>6, <2>7
  <1>7. ASSUME NEW s \in Session, Unmatch(s)
        PROVE  BankIInv'
    <2>1. matcher[s].line \in Statement
      BY <1>7, RequestFields DEF Unmatch, OnDesks
    <2>2. Claims'
      BY <1>7, <2>1 DEF Unmatch, Claims
    <2>3. Distinct'
      BY <1>7, <2>1 DEF Unmatch, Claims, Distinct, Matched
    <2>4. OnDesks'
      BY <1>7 DEF Unmatch, OnDesks
    <2>5. OnRecord'
      BY <1>7, <2>1, RequestFields DEF Unmatch, OnDesks, OnRecord, NoMatcher, Claims
    <2> QED BY <2>2, <2>3, <2>4, <2>5
  <1>8. ASSUME NEW s \in Session, AbortMatch(s)
        PROVE  BankIInv'
    BY <1>8 DEF AbortMatch, Claims, Distinct, Matched, OnDesks, OnRecord, NoMatcher
  <1>9. ASSUME UNCHANGED reconciliationVars
        PROVE  BankIInv'
    BY <1>9 DEF reconciliationVars, Claims, Distinct, Matched, OnDesks, OnRecord
  <1> QED
    BY <1>1, <1>2, <1>3, <1>4, <1>5, <1>6, <1>7, <1>8, <1>9
       DEF ReconciliationNext, ReconciliationStep

LEMMA BankInvariance == ReconciliationSpec => []BankIInv
  BY BankInvInit, BankInvStep, PTL DEF ReconciliationSpec

-----------------------------------------------------------------------------
\* A match is one-to-one, so that what is not claimed and what is matched add up to
\* what is on the books.
LEMMA ClaimsAddUp ==
    ASSUME Claims, Distinct
    PROVE  Cardinality(Unclaimed) + Cardinality(Matched) = Cardinality(journal \cap Movement)
  <1> DEFINE Books == journal \cap Movement
             Claimed == Books \ Unclaimed
             item == [l \in Matched |-> matched[l]]
  <1>1. IsFiniteSet(Books)
    BY FS_Subset, ReconciliationAssumption
  <1>2. IsFiniteSet(Claimed)
    BY <1>1, FS_Subset
  <1>3. item \in [Matched -> Claimed]
    BY DEF Claims, Matched, Unclaimed, ClaimedBy
  <1>4. \A l, m \in Matched : item[l] = item[m] => l = m
    BY DEF Distinct
  <1>5. \A i \in Claimed : \E l \in Matched : item[l] = i
    <2> SUFFICES ASSUME NEW i \in Claimed
                 PROVE  \E l \in Matched : item[l] = i
      OBVIOUS
    <2>1. i \in Nat \ {0}
      BY ReconciliationAssumption
    <2>2. PICK l \in Statement : matched[l] = i
      BY DEF Unclaimed, ClaimedBy
    <2>3. l \in Matched
      BY <2>1, <2>2 DEF Matched
    <2> QED BY <2>2, <2>3
  <1> HIDE DEF item
  <1>6. item \in Injection(Matched, Claimed) /\ item \in Surjection(Matched, Claimed)
    BY <1>3, <1>4, <1>5 DEF Injection, Surjection, IsInjective
  <1>7. Cardinality(Matched) = Cardinality(Claimed)
    BY <1>2, <1>6, FS_Injection
  <1>8. Cardinality(Claimed) = Cardinality(Books) - Cardinality(Books \cap Unclaimed)
    BY <1>1, FS_Difference
  <1>9. Books \cap Unclaimed = Unclaimed
    BY DEF Unclaimed
  <1>10. Cardinality(Books) \in Nat /\ Cardinality(Unclaimed) \in Nat
    BY <1>1, <1>9, FS_CardinalityType, FS_Subset
  <1> QED BY <1>7, <1>8, <1>9, <1>10

\* A matched line and its item are one movement of the bank account, on the books, and
\* what the summary calls unmatched is the rest of the books.
THEOREM OneMovementEach == ReconciliationSpec => []OneMovement
  <1>1. BankIInv => OneMovement
    BY ClaimsAddUp DEF BankIInv, Claims, Distinct, Matched, OneMovement
  <1> QED BY <1>1, BankInvariance, PTL

\* A match is undone before it is made again, unless two requests had loaded the line.
THEOREM MatchesStand == ReconciliationSpec => MatchStands
  <1> DEFINE Stands == \A l \in Matched \ crossed : matched'[l] \in {0, matched[l]}
  <1>1. ASSUME BankIInv, [ReconciliationNext]_reconciliationVars
        PROVE  Stands
    <2> USE <1>1 DEF BankIInv
    <2> SUFFICES ASSUME NEW l \in Statement, matched[l] > 0, l \notin crossed
                 PROVE  matched'[l] \in {0, matched[l]}
      BY DEF Matched
    <2>1. ASSUME NEW s \in Session, Match(s)
          PROVE  matched'[l] = matched[l]
      BY <2>1 DEF Match, OnRecord, Claims
    <2>2. ASSUME NEW s \in Session, Unmatch(s)
          PROVE  matched'[l] \in {0, matched[l]}
      BY <2>2 DEF Unmatch, Claims
    <2>3. ASSUME NEW m \in Statement, TypeLine(m)
          PROVE  matched'[l] = matched[l]
      BY <2>3 DEF TypeLine, Claims
    <2>4. CASE UNCHANGED matched
      BY <2>4
    <2> QED
      BY <2>1, <2>2, <2>3, <2>4
         DEF ReconciliationNext, ReconciliationStep, reconciliationVars, Post, Unpost, LoadMatch,
             LoadUnmatch, AbortMatch
  <1>2. BankIInv /\ [ReconciliationNext]_reconciliationVars => [Stands]_reconciliationVars
    BY <1>1
  <1> QED BY <1>2, BankInvariance, PTL DEF ReconciliationSpec, MatchStands

-----------------------------------------------------------------------------
(* The accounts of the staff *)

\* Accounts and requests are tables; a request at work has an account in hand.
Shapes ==
    /\ account = [u \in User |-> account[u]]
    /\ turn = [s \in Session |-> turn[s]]
    /\ \A s \in Session : ~Idle(s) => turn[s].op \in {"update", "delete"} /\ turn[s].on \in User

\* While no two requests change accounts at once, a deletion of an administrator that
\* passed its count still leaves one.
StillOne ==
    /\ \A s, t \in Session : s # t => Idle(s) \/ Idle(t)
    /\ \A s \in Session :
          turn[s].op = "delete" /\ account[turn[s].on].role = "admin" =>
              AdminsBesides(turn[s].on) # {}

DoorIInv == Shapes /\ (~met => StillOne) /\ SomeoneCanManage

LEMMA NoTurnIdle == NoTurn.op = "none" /\ NoTurn.on = 0
  BY DEF NoTurn

LEMMA DoorInvInit == DoorsInit => DoorIInv
  <1> SUFFICES ASSUME DoorsInit
               PROVE  DoorIInv
    OBVIOUS
  <1>1. PICK f \in Staff :
           account = [u \in User |-> [role |-> f[u], list |-> NoList, active |-> TRUE, here |-> TRUE]]
    BY DEF DoorsInit
  <1>2. Shapes /\ StillOne
    BY <1>1, NoTurnIdle DEF DoorsInit, Shapes, StillOne, Idle
  <1>3. Administered(account)
    BY <1>1, DoorsAssumption DEF Administered
  <1> QED BY <1>2, <1>3 DEF DoorIInv, SomeoneCanManage

LEMMA DoorInvStep == DoorIInv /\ [DoorsNext]_doorVars => DoorIInv'
  <1> SUFFICES ASSUME DoorIInv, [DoorsNext]_doorVars
               PROVE  DoorIInv'
    OBVIOUS
  <1> USE DEF DoorIInv
  <1>1. CASE UNCHANGED doorVars
    BY <1>1 DEF doorVars, Shapes, StillOne, Idle, AdminsBesides, SomeoneCanManage
  <1>2. ASSUME NEW u \in User, Trade(u)
        PROVE  DoorIInv'
    BY <1>2 DEF Trade, Shapes, StillOne, Idle, AdminsBesides, SomeoneCanManage
  <1>3. ASSUME NEW s \in Session, AbortTurn(s)
        PROVE  DoorIInv'
    <2>1. /\ turn' = [turn EXCEPT ![s] = NoTurn]
          /\ UNCHANGED <<account, traded, turns, met, emptied>>
      BY <1>3 DEF AbortTurn, Takes
    <2>2. turn'[s] = NoTurn /\ \A t \in Session \ {s} : turn'[t] = turn[t]
      BY <2>1 DEF Shapes
    <2> QED BY <2>1, <2>2, NoTurnIdle DEF Shapes, StillOne, Idle, AdminsBesides, SomeoneCanManage
  <1>4. ASSUME NEW s \in Session, NEW u \in User, NEW v \in User, NEW op \in {"update", "delete"},
               LoadAccount(s, u, v, op)
        PROVE  DoorIInv'
    <2>1. /\ Idle(s) /\ turn' = [turn EXCEPT ![s] = [op |-> op, on |-> v, was |-> {account[v]}]]
          /\ op = "delete" /\ account[v].role = "admin" => AdminsBesides(v) # {}
          /\ met' = (met \/ \E r \in Session \ {s} : ~Idle(r))
          /\ UNCHANGED <<account, traded, emptied>>
      BY <1>4 DEF LoadAccount, Takes
    <2>2. /\ turn'[s].op = op /\ turn'[s].on = v
          /\ \A t \in Session \ {s} : turn'[t] = turn[t]
      BY <2>1 DEF Shapes
    <2>3. Shapes'
      BY <2>1, <2>2 DEF Shapes, Idle
    <2>4. ASSUME ~met'
          PROVE  StillOne'
      <3>1. ~met /\ \A r \in Session \ {s} : Idle(r)
        BY <2>1, <2>4
      <3>2. \A r \in Session \ {s} : Idle(r)'
        BY <2>2, <3>1 DEF Idle
      <3> QED BY <2>1, <2>2, <3>1, <3>2, NoTurnIdle DEF StillOne, Idle, AdminsBesides
    <2>5. SomeoneCanManage'
      BY <2>1 DEF SomeoneCanManage
    <2> QED BY <2>3, <2>4, <2>5
  <1>5. ASSUME NEW s \in Session, NEW new \in Changes(s), UpdateUser(s, new)
        PROVE  DoorIInv'
    <2>1. /\ turn[s].op = "update" /\ turn' = [turn EXCEPT ![s] = NoTurn]
          /\ account' = [u \in User |-> account'[u]]
          /\ emptied' = (emptied \/ ~Administered(account')) /\ UNCHANGED <<traded, turns, met>>
      BY <1>5 DEF UpdateUser, Takes, Shapes
    <2>2. turn'[s] = NoTurn /\ \A t \in Session \ {s} : turn'[t] = turn[t]
      BY <2>1 DEF Shapes
    <2>3. ~met => \A t \in Session : Idle(t)'
      BY <2>1, <2>2, NoTurnIdle DEF StillOne, Idle
    <2>4. Shapes' /\ SomeoneCanManage'
      BY <2>1, <2>2 DEF Shapes, Idle, SomeoneCanManage
    <2> QED BY <2>1, <2>3, <2>4, NoTurnIdle DEF StillOne, Idle
  <1>6. ASSUME NEW s \in Session, DeleteUser(s)
        PROVE  DoorIInv'
    <2>0. PICK v : v = turn[s].on
      OBVIOUS
    <2>1. /\ turn[s].op = "delete" /\ turn' = [turn EXCEPT ![s] = NoTurn]
          /\ account' = [account EXCEPT ![v].here = FALSE]
          /\ UNCHANGED <<traded, turns, met, emptied>>
      BY <1>6, <2>0 DEF DeleteUser, Takes
    <2>2. /\ turn'[s] = NoTurn /\ \A t \in Session \ {s} : turn'[t] = turn[t]
          /\ account' = [u \in User |-> account'[u]]
          /\ \A u \in User \ {v} : account'[u] = account[u]
      BY <2>1 DEF Shapes
    <2>3. ~met => \A t \in Session : Idle(t)'
      BY <2>1, <2>2, NoTurnIdle DEF StillOne, Idle
    <2>4. Shapes'
      BY <2>1, <2>2 DEF Shapes, Idle
    <2>5. ASSUME ~met, ~emptied
          PROVE  Administered(account')
      <3>1. PICK u \in User : account[u].here /\ account[u].active /\ account[u].role = "admin"
        BY <2>5 DEF SomeoneCanManage, Administered
      <3>2. CASE u # v
        BY <2>2, <3>1, <3>2 DEF Administered
      <3>3. CASE u = v
        <4>1. PICK w \in User \ {v} : account[w].here /\ account[w].role = "admin" /\ account[w].active
          BY <2>0, <2>1, <2>5, <3>1, <3>3 DEF StillOne, AdminsBesides
        <4> QED BY <2>2, <4>1 DEF Administered
      <3> QED BY <3>2, <3>3
    <2> QED BY <2>1, <2>3, <2>4, <2>5, NoTurnIdle DEF StillOne, Idle, SomeoneCanManage
  <1> QED BY <1>1, <1>2, <1>3, <1>4, <1>5, <1>6 DEF DoorsNext

\* Whoever deletes whom, somebody can still reach the permission screen (delete_user
\* counts the administrators left), unless update_user took the last one away or two
\* requests changed accounts at once.
THEOREM SomeoneCanAlwaysManage == DoorsSpec => []SomeoneCanManage
  <1>1. DoorIInv => SomeoneCanManage
    BY DEF DoorIInv
  <1> QED BY <1>1, DoorInvInit, DoorInvStep, PTL DEF DoorsSpec

-----------------------------------------------------------------------------
(* The doors *)

\* What guards the reads of a page.
Guarded(e, ops, area, name) == e.op \in ops => e.needs = <<area, name>>

KnownStock(e) ==
    e.at = "inventory" =>
        /\ Guarded(e, {"list_warehouses"}, "warehouses", "view")
        /\ Guarded(e, {"list_products", "product_lookup"}, "products", "view")
        /\ Guarded(e, {"stock_levels", "near_expiry", "list_adjustments", "list_stocktakes"}, "stock", "view")
        /\ Guarded(e, {"markdown_plan"}, "products", "offers")

KnownSales(e) ==
    /\ e.at = "sales" =>
        /\ Guarded(e, {"list_customers"}, "customers", "view")
        /\ Guarded(e, {"collections_worklist"}, "sales", "collections")
        /\ Guarded(e, {"list_invoices", "list_returns"}, "sales", "view")
        /\ Guarded(e, {"get_my_van"}, "sales", "field_sync")
        /\ Guarded(e, {"list_rounds"}, "sales", "round_settle")
    /\ e.at = "portal" => Guarded(e, {"list_customer_orders"}, "sales", "orders_review")

KnownTrade(e) ==
    /\ e.at = "delivery" => Guarded(e, {"list_trips", "list_delivery_invoices"}, "delivery", "view")
    /\ e.at = "purchases" =>
        /\ Guarded(e, {"list_suppliers"}, "suppliers", "view")
        /\ Guarded(e, {"list_invoices", "list_orders", "list_returns"}, "purchases", "view")
    /\ e.at = "expenses" => Guarded(e, {"list_categories", "list_expenses"}, "expenses", "view")

KnownBooks(e) ==
    /\ e.at = "accounting" =>
        Guarded(e, {"list_accounts", "list_journal_entries", "trial_balance", "tax_summary",
                    "income_statement", "balance_sheet"}, "accounting", "view")
    /\ e.at = "settings" => Guarded(e, {"list_tax_rates", "get_company_settings"}, "settings", "view")
    /\ e.at = "auth" => Guarded(e, {"list_users", "list_permissions"}, "users", "manage")
    /\ e.at = "audit" => Guarded(e, {"list_tables", "list_logs"}, "audit", "view")
    /\ e.at = "imports" => Guarded(e, {"import_guide"}, "data", "import")

Known(e) == KnownStock(e) /\ KnownSales(e) /\ KnownTrade(e) /\ KnownBooks(e)

Listed(e) == e.needs \in ALL_PERMISSIONS \cup Realms

\* What a set of permissions holds, and what the doors of one permission ask for.
LEMMA InArea ==
    ASSUME NEW a, NEW n, NEW area, NEW names
    PROVE  <<a, n>> \in In(area, names) <=> a = area /\ n \in names
  BY DEF In

LEMMA DoorsOf ==
    ASSUME NEW router, NEW area, NEW name, NEW ops
    PROVE  /\ \A e \in R(router, area, name, ops) :
                 e.at = router /\ e.op \in ops /\ e.needs = <<area, name>>
           /\ \A e \in W(router, area, name, ops) :
                 e.at = router /\ e.op \in ops /\ e.needs = <<area, name>>
  BY DEF R, W

\* Every door of the pages, router by router.
LEMMA CustomerDoorsKnown == \A e \in CustomerDoors : Known(e)
  BY DoorsOf DEF CustomerDoors, Known, KnownStock, KnownSales, KnownTrade, KnownBooks, Guarded

LEMMA InvoiceDoorsKnown == \A e \in InvoiceDoors : Known(e)
  BY DoorsOf DEF InvoiceDoors, Known, KnownStock, KnownSales, KnownTrade, KnownBooks, Guarded

LEMMA ReturnDoorsKnown == \A e \in ReturnDoors : Known(e)
  BY DoorsOf DEF ReturnDoors, Known, KnownStock, KnownSales, KnownTrade, KnownBooks, Guarded

LEMMA FieldDoorsKnown == \A e \in FieldDoors : Known(e)
  BY DoorsOf DEF FieldDoors, Known, KnownStock, KnownSales, KnownTrade, KnownBooks, Guarded

LEMMA CreditDoorsKnown == \A e \in CreditDoors : Known(e)
  BY DoorsOf DEF CreditDoors, Known, KnownStock, KnownSales, KnownTrade, KnownBooks, Guarded

LEMMA RationedDoorsKnown == \A e \in RationedDoors : Known(e)
  BY DoorsOf DEF RationedDoors, Known, KnownStock, KnownSales, KnownTrade, KnownBooks, Guarded

LEMMA ProductDoorsKnown == \A e \in ProductDoors : Known(e)
  BY DoorsOf DEF ProductDoors, Known, KnownStock, KnownSales, KnownTrade, KnownBooks, Guarded

LEMMA StockDoorsKnown == \A e \in StockDoors : Known(e)
  BY DoorsOf DEF StockDoors, Known, KnownStock, KnownSales, KnownTrade, KnownBooks, Guarded

LEMMA CountDoorsKnown == \A e \in CountDoors : Known(e)
  BY DoorsOf DEF CountDoors, Known, KnownStock, KnownSales, KnownTrade, KnownBooks, Guarded

LEMMA OfferDoorsKnown == \A e \in OfferDoors : Known(e)
  BY DoorsOf DEF OfferDoors, Known, KnownStock, KnownSales, KnownTrade, KnownBooks, Guarded

LEMMA SupplierDoorsKnown == \A e \in SupplierDoors : Known(e)
  BY DoorsOf DEF SupplierDoors, Known, KnownStock, KnownSales, KnownTrade, KnownBooks, Guarded

LEMMA OrderDoorsKnown == \A e \in OrderDoors : Known(e)
  BY DoorsOf DEF OrderDoors, Known, KnownStock, KnownSales, KnownTrade, KnownBooks, Guarded

LEMMA SupplierMoneyDoorsKnown == \A e \in SupplierMoneyDoors : Known(e)
  BY DoorsOf DEF SupplierMoneyDoors, Known, KnownStock, KnownSales, KnownTrade, KnownBooks, Guarded

LEMMA TillDoorsKnown == \A e \in TillDoors : Known(e)
  BY DoorsOf DEF TillDoors, Known, KnownStock, KnownSales, KnownTrade, KnownBooks, Guarded

LEMMA TripDoorsKnown == \A e \in TripDoors : Known(e)
  BY DoorsOf DEF TripDoors, Known, KnownStock, KnownSales, KnownTrade, KnownBooks, Guarded

LEMMA ExpenseDoorsKnown == \A e \in ExpenseDoors : Known(e)
  BY DoorsOf DEF ExpenseDoors, Known, KnownStock, KnownSales, KnownTrade, KnownBooks, Guarded

LEMMA LedgerDoorsKnown == \A e \in LedgerDoors : Known(e)
  BY DoorsOf DEF LedgerDoors, Known, KnownStock, KnownSales, KnownTrade, KnownBooks, Guarded

LEMMA BankDoorsKnown == \A e \in BankDoors : Known(e)
  BY DoorsOf DEF BankDoors, Known, KnownStock, KnownSales, KnownTrade, KnownBooks, Guarded

LEMMA SalesFigureDoorsKnown == \A e \in SalesFigureDoors : Known(e)
  BY DoorsOf DEF SalesFigureDoors, Known, KnownStock, KnownSales, KnownTrade, KnownBooks, Guarded

LEMMA RiskFigureDoorsKnown == \A e \in RiskFigureDoors : Known(e)
  BY DoorsOf DEF RiskFigureDoors, Known, KnownStock, KnownSales, KnownTrade, KnownBooks, Guarded

LEMMA SettingDoorsKnown == \A e \in SettingDoors : Known(e)
  BY DoorsOf DEF SettingDoors, Known, KnownStock, KnownSales, KnownTrade, KnownBooks, Guarded

LEMMA UserDoorsKnown == \A e \in UserDoors : Known(e)
  BY DoorsOf DEF UserDoors, Known, KnownStock, KnownSales, KnownTrade, KnownBooks, Guarded

LEMMA SystemDoorsKnown == \A e \in SystemDoors : Known(e)
  BY DoorsOf DEF SystemDoors, Known, KnownStock, KnownSales, KnownTrade, KnownBooks, Guarded

LEMMA ImportDoorsKnown == \A e \in ImportDoors : Known(e)
  BY DoorsOf DEF ImportDoors, Known, KnownStock, KnownSales, KnownTrade, KnownBooks, Guarded

LEMMA PortalDoorsKnown == \A e \in PortalDoors : Known(e)
  BY DoorsOf DEF PortalDoors, Known, KnownStock, KnownSales, KnownTrade, KnownBooks, Guarded

LEMMA PortalOrderDoorsKnown == \A e \in PortalOrderDoors : Known(e)
  BY DoorsOf DEF PortalOrderDoors, Known, KnownStock, KnownSales, KnownTrade, KnownBooks, Guarded

\* The catalogue and the templates, permission by permission.
LEMMA Catalogue ==
    ASSUME NEW a, NEW n
    PROVE  <<a, n>> \in ALL_PERMISSIONS <=>
           \/ a = "products" /\ n \in {"view", "manage", "delete", "offers"}
           \/ a = "warehouses" /\ n \in {"view", "manage"}
           \/ a = "stock" /\ n \in {"view", "receive", "transfer", "adjust", "stocktake",
                            "adjust_cancel"}
           \/ a = "customers" /\ n \in {"view", "manage", "portal_access"}
           \/ a = "sales" /\ n \in {"orders_review", "view", "create", "edit", "delete", "returns",
                            "field_sync", "quotations", "payments", "all_customers",
                            "credit_override", "rationed_view", "rationed_manage", "collections",
                            "commission_view", "returns_cancel", "refund_customer", "round_settle",
                            "round_settle_variance"}
           \/ a = "suppliers" /\ n \in {"view", "manage"}
           \/ a = "purchases" /\ n \in {"view", "create", "edit", "delete", "orders", "returns",
                            "payments"}
           \/ a = "cashier" /\ n \in {"view", "collect", "pay"}
           \/ a = "expenses" /\ n \in {"view", "manage"}
           \/ a = "delivery" /\ n \in {"view", "manage", "deliver"}
           \/ a = "accounting" /\ n \in {"view", "manual_entry", "bank_reconciliation"}
           \/ a = "users" /\ n \in {"manage", "delete"}
           \/ a = "audit" /\ n \in {"view"}
           \/ a = "analytics" /\ n \in {"view"}
           \/ a = "settings" /\ n \in {"view", "manage"}
           \/ a = "data" /\ n \in {"import"}
  BY InArea DEF ALL_PERMISSIONS

LEMMA StorekeeperHolds ==
    ASSUME NEW a, NEW n
    PROVE  <<a, n>> \in ROLE_DEFAULT_PERMISSIONS["storekeeper"] <=>
           \/ a = "products" /\ n \in {"view"}
           \/ a = "warehouses" /\ n \in {"view"}
           \/ a = "stock" /\ n \in {"view", "receive", "transfer", "adjust", "stocktake"}
           \/ a = "delivery" /\ n \in {"view", "manage", "deliver"}
           \/ a = "sales" /\ n \in {"round_settle"}
           \/ a = "settings" /\ n \in {"view"}
  BY InArea DEF ROLE_DEFAULT_PERMISSIONS, UserRole

LEMMA SalesHolds ==
    ASSUME NEW a, NEW n
    PROVE  <<a, n>> \in ROLE_DEFAULT_PERMISSIONS["sales"] <=>
           \/ a = "products" /\ n \in {"view"}
           \/ a = "warehouses" /\ n \in {"view"}
           \/ a = "stock" /\ n \in {"view"}
           \/ a = "customers" /\ n \in {"view"}
           \/ a = "delivery" /\ n \in {"view"}
           \/ a = "settings" /\ n \in {"view"}
           \/ a = "sales" /\ n \in {"view", "create", "orders_review", "returns", "quotations",
                            "field_sync", "payments", "collections", "rationed_view"}
  BY InArea DEF ROLE_DEFAULT_PERMISSIONS, UserRole

LEMMA DriverHolds ==
    ASSUME NEW a, NEW n
    PROVE  <<a, n>> \in ROLE_DEFAULT_PERMISSIONS["driver"] <=>
           \/ a = "warehouses" /\ n \in {"view"}
           \/ a = "delivery" /\ n \in {"view", "deliver"}
           \/ a = "settings" /\ n \in {"view"}
  BY InArea DEF ROLE_DEFAULT_PERMISSIONS, UserRole

LEMMA CashierHolds ==
    ASSUME NEW a, NEW n
    PROVE  <<a, n>> \in ROLE_DEFAULT_PERMISSIONS["cashier"] <=>
           \/ a = "cashier" /\ n \in {"view", "collect", "pay"}
           \/ a = "sales" /\ n \in {"refund_customer"}
           \/ a = "customers" /\ n \in {"view"}
           \/ a = "suppliers" /\ n \in {"view"}
           \/ a = "settings" /\ n \in {"view"}
  BY InArea DEF ROLE_DEFAULT_PERMISSIONS, UserRole

LEMMA AccountantHolds ==
    ASSUME NEW a, NEW n
    PROVE  <<a, n>> \in ROLE_DEFAULT_PERMISSIONS["accountant"] <=>
           \/ a = "products" /\ n \in {"view", "offers"}
           \/ a = "warehouses" /\ n \in {"view"}
           \/ a = "stock" /\ n \in {"view"}
           \/ a = "customers" /\ n \in {"view", "manage", "portal_access"}
           \/ a = "sales" /\ n \in {"view", "payments", "collections", "rationed_view",
                            "rationed_manage", "all_customers", "refund_customer",
                            "returns_cancel", "commission_view", "round_settle",
                            "round_settle_variance"}
           \/ a = "suppliers" /\ n \in {"view", "manage"}
           \/ a = "purchases" /\ n \in {"view", "create", "orders", "returns", "payments"}
           \/ a = "accounting" /\ n \in {"view", "manual_entry", "bank_reconciliation"}
           \/ a = "analytics" /\ n \in {"view"}
           \/ a = "expenses" /\ n \in {"view", "manage"}
           \/ a = "settings" /\ n \in {"view"}
  BY InArea DEF ROLE_DEFAULT_PERMISSIONS, UserRole

\* Who may open a page may load it.
Closed(H) ==
    /\ <<"products", "view">> \in H => <<"warehouses", "view">> \in H
    /\ <<"stock", "view">> \in H => <<"warehouses", "view">> \in H
    /\ <<"products", "offers">> \in H => <<"settings", "view">> \in H
    /\ <<"sales", "view">> \in H => /\ <<"warehouses", "view">> \in H /\ <<"customers", "view">> \in H
                                    /\ <<"settings", "view">> \in H
    /\ <<"sales", "field_sync">> \in H => /\ <<"customers", "view">> \in H /\ <<"products", "view">> \in H
                                          /\ <<"settings", "view">> \in H
    /\ <<"sales", "round_settle">> \in H => <<"warehouses", "view">> \in H
    /\ <<"sales", "orders_review">> \in H => <<"warehouses", "view">> \in H /\ <<"settings", "view">> \in H
    /\ <<"delivery", "view">> \in H => <<"warehouses", "view">> \in H
    /\ <<"purchases", "view">> \in H => /\ <<"warehouses", "view">> \in H /\ <<"suppliers", "view">> \in H
                                        /\ <<"settings", "view">> \in H
    /\ <<"analytics", "view">> \in H => <<"products", "view">> \in H /\ <<"customers", "view">> \in H
    /\ <<"audit", "view">> \in H => <<"users", "manage">> \in H

\* One half of each pair is missing.
Halved(H) ==
    /\ <<"sales", "returns">> \notin H \/ <<"sales", "refund_customer">> \notin H
    /\ <<"sales", "returns">> \notin H \/ <<"sales", "returns_cancel">> \notin H
    /\ <<"stock", "stocktake">> \notin H \/ <<"sales", "round_settle_variance">> \notin H
    /\ <<"stock", "stocktake">> \notin H \/ <<"products", "offers">> \notin H
    /\ <<"sales", "create">> \notin H \/ <<"sales", "rationed_manage">> \notin H
    /\ <<"stock", "adjust">> \notin H \/ <<"stock", "adjust_cancel">> \notin H
    /\ <<"users", "manage">> \notin H \/ <<"users", "delete">> \notin H

\* Who chases debts does not raise invoices.
Unlent(H) == <<"sales", "create">> \notin H \/ <<"sales", "collections">> \notin H

\* Each template keeps both rules.
LEMMA StorekeeperHands ==
    LET H == ROLE_DEFAULT_PERMISSIONS["storekeeper"]
    IN  Closed(H) /\ Halved(H)
  BY StorekeeperHolds DEF Closed, Halved

LEMMA SalesHands ==
    LET H == ROLE_DEFAULT_PERMISSIONS["sales"]
    IN  Closed(H) /\ Halved(H)
  BY SalesHolds DEF Closed, Halved

LEMMA DriverHands ==
    LET H == ROLE_DEFAULT_PERMISSIONS["driver"]
    IN  Closed(H) /\ Halved(H)
  BY DriverHolds DEF Closed, Halved

LEMMA CashierHands ==
    LET H == ROLE_DEFAULT_PERMISSIONS["cashier"]
    IN  Closed(H) /\ Halved(H)
  BY CashierHolds DEF Closed, Halved

LEMMA AccountantHands ==
    LET H == ROLE_DEFAULT_PERMISSIONS["accountant"]
    IN  Closed(H) /\ Halved(H)
  BY AccountantHolds DEF Closed, Halved

LEMMA OthersUnlent ==
    ASSUME NEW role \in UserRole \ {"admin", "sales"}
    PROVE  Unlent(ROLE_DEFAULT_PERMISSIONS[role])
  BY StorekeeperHolds, DriverHolds, CashierHolds, AccountantHolds DEF Unlent, UserRole

LEMMA StorekeeperListed == ROLE_DEFAULT_PERMISSIONS["storekeeper"] \subseteq ALL_PERMISSIONS
  <1>1. \A x \in ROLE_DEFAULT_PERMISSIONS["storekeeper"] : x = <<x[1], x[2]>>
    BY DEF ROLE_DEFAULT_PERMISSIONS, UserRole, In
  <1> QED BY <1>1, StorekeeperHolds, Catalogue

LEMMA SalesListed == ROLE_DEFAULT_PERMISSIONS["sales"] \subseteq ALL_PERMISSIONS
  <1>1. \A x \in ROLE_DEFAULT_PERMISSIONS["sales"] : x = <<x[1], x[2]>>
    BY DEF ROLE_DEFAULT_PERMISSIONS, UserRole, In
  <1> QED BY <1>1, SalesHolds, Catalogue

LEMMA DriverListed == ROLE_DEFAULT_PERMISSIONS["driver"] \subseteq ALL_PERMISSIONS
  <1>1. \A x \in ROLE_DEFAULT_PERMISSIONS["driver"] : x = <<x[1], x[2]>>
    BY DEF ROLE_DEFAULT_PERMISSIONS, UserRole, In
  <1> QED BY <1>1, DriverHolds, Catalogue

LEMMA CashierListed == ROLE_DEFAULT_PERMISSIONS["cashier"] \subseteq ALL_PERMISSIONS
  <1>1. \A x \in ROLE_DEFAULT_PERMISSIONS["cashier"] : x = <<x[1], x[2]>>
    BY DEF ROLE_DEFAULT_PERMISSIONS, UserRole, In
  <1> QED BY <1>1, CashierHolds, Catalogue

LEMMA AccountantListed == ROLE_DEFAULT_PERMISSIONS["accountant"] \subseteq ALL_PERMISSIONS
  <1>1. \A x \in ROLE_DEFAULT_PERMISSIONS["accountant"] : x = <<x[1], x[2]>>
    BY DEF ROLE_DEFAULT_PERMISSIONS, UserRole, In
  <1> QED BY <1>1, AccountantHolds, Catalogue

\* What the routes ask for is in the catalogue.
LEMMA CustomerDoorsListed == \A e \in CustomerDoors : Listed(e)
  <1>1. /\ <<"customers", "manage">> \in ALL_PERMISSIONS
        /\ <<"customers", "view">> \in ALL_PERMISSIONS
    BY Catalogue DEF Realms
  <1> QED BY <1>1, DoorsOf DEF CustomerDoors, Listed

LEMMA InvoiceDoorsListed == \A e \in InvoiceDoors : Listed(e)
  <1>1. /\ <<"sales", "create">> \in ALL_PERMISSIONS
        /\ <<"sales", "edit">> \in ALL_PERMISSIONS
        /\ <<"delivery", "manage">> \in ALL_PERMISSIONS
        /\ <<"sales", "delete">> \in ALL_PERMISSIONS
        /\ <<"sales", "view">> \in ALL_PERMISSIONS
    BY Catalogue DEF Realms
  <1> QED BY <1>1, DoorsOf DEF InvoiceDoors, Listed

LEMMA ReturnDoorsListed == \A e \in ReturnDoors : Listed(e)
  <1>1. /\ <<"sales", "returns">> \in ALL_PERMISSIONS
        /\ <<"sales", "quotations">> \in ALL_PERMISSIONS
        /\ <<"sales", "view">> \in ALL_PERMISSIONS
    BY Catalogue DEF Realms
  <1> QED BY <1>1, DoorsOf DEF ReturnDoors, Listed

LEMMA FieldDoorsListed == \A e \in FieldDoors : Listed(e)
  <1>1. /\ <<"sales", "payments">> \in ALL_PERMISSIONS
        /\ <<"sales", "commission_view">> \in ALL_PERMISSIONS
        /\ <<"sales", "field_sync">> \in ALL_PERMISSIONS
        /\ <<"sales", "round_settle">> \in ALL_PERMISSIONS
    BY Catalogue DEF Realms
  <1> QED BY <1>1, DoorsOf DEF FieldDoors, Listed

LEMMA CreditDoorsListed == \A e \in CreditDoors : Listed(e)
  <1>1. /\ <<"sales", "round_settle">> \in ALL_PERMISSIONS
        /\ <<"sales", "returns">> \in ALL_PERMISSIONS
        /\ <<"sales", "refund_customer">> \in ALL_PERMISSIONS
        /\ <<"sales", "returns_cancel">> \in ALL_PERMISSIONS
        /\ <<"sales", "collections">> \in ALL_PERMISSIONS
    BY Catalogue DEF Realms
  <1> QED BY <1>1, DoorsOf DEF CreditDoors, Listed

LEMMA RationedDoorsListed == \A e \in RationedDoors : Listed(e)
  <1>1. /\ <<"sales", "rationed_view">> \in ALL_PERMISSIONS
        /\ <<"sales", "rationed_manage">> \in ALL_PERMISSIONS
    BY Catalogue DEF Realms
  <1> QED BY <1>1, DoorsOf DEF RationedDoors, Listed

LEMMA ProductDoorsListed == \A e \in ProductDoors : Listed(e)
  <1>1. /\ <<"warehouses", "manage">> \in ALL_PERMISSIONS
        /\ <<"warehouses", "view">> \in ALL_PERMISSIONS
        /\ <<"products", "manage">> \in ALL_PERMISSIONS
        /\ <<"products", "delete">> \in ALL_PERMISSIONS
        /\ <<"products", "view">> \in ALL_PERMISSIONS
    BY Catalogue DEF Realms
  <1> QED BY <1>1, DoorsOf DEF ProductDoors, Listed

LEMMA StockDoorsListed == \A e \in StockDoors : Listed(e)
  <1>1. /\ <<"stock", "view">> \in ALL_PERMISSIONS
        /\ <<"stock", "receive">> \in ALL_PERMISSIONS
        /\ <<"stock", "transfer">> \in ALL_PERMISSIONS
        /\ <<"stock", "adjust">> \in ALL_PERMISSIONS
        /\ <<"stock", "adjust_cancel">> \in ALL_PERMISSIONS
    BY Catalogue DEF Realms
  <1> QED BY <1>1, DoorsOf DEF StockDoors, Listed

LEMMA CountDoorsListed == \A e \in CountDoors : Listed(e)
  <1>1. /\ <<"stock", "stocktake">> \in ALL_PERMISSIONS
        /\ <<"stock", "view">> \in ALL_PERMISSIONS
    BY Catalogue DEF Realms
  <1> QED BY <1>1, DoorsOf DEF CountDoors, Listed

LEMMA OfferDoorsListed == \A e \in OfferDoors : Listed(e)
  <1>1. /\ <<"products", "view">> \in ALL_PERMISSIONS
        /\ <<"products", "offers">> \in ALL_PERMISSIONS
    BY Catalogue DEF Realms
  <1> QED BY <1>1, DoorsOf DEF OfferDoors, Listed

LEMMA SupplierDoorsListed == \A e \in SupplierDoors : Listed(e)
  <1>1. /\ <<"suppliers", "manage">> \in ALL_PERMISSIONS
        /\ <<"suppliers", "view">> \in ALL_PERMISSIONS
        /\ <<"purchases", "create">> \in ALL_PERMISSIONS
        /\ <<"purchases", "edit">> \in ALL_PERMISSIONS
        /\ <<"purchases", "delete">> \in ALL_PERMISSIONS
        /\ <<"purchases", "view">> \in ALL_PERMISSIONS
    BY Catalogue DEF Realms
  <1> QED BY <1>1, DoorsOf DEF SupplierDoors, Listed

LEMMA OrderDoorsListed == \A e \in OrderDoors : Listed(e)
  <1>1. /\ <<"purchases", "orders">> \in ALL_PERMISSIONS
        /\ <<"purchases", "view">> \in ALL_PERMISSIONS
    BY Catalogue DEF Realms
  <1> QED BY <1>1, DoorsOf DEF OrderDoors, Listed

LEMMA SupplierMoneyDoorsListed == \A e \in SupplierMoneyDoors : Listed(e)
  <1>1. /\ <<"purchases", "returns">> \in ALL_PERMISSIONS
        /\ <<"purchases", "view">> \in ALL_PERMISSIONS
        /\ <<"purchases", "payments">> \in ALL_PERMISSIONS
    BY Catalogue DEF Realms
  <1> QED BY <1>1, DoorsOf DEF SupplierMoneyDoors, Listed

LEMMA TillDoorsListed == \A e \in TillDoors : Listed(e)
  <1>1. /\ <<"cashier", "view">> \in ALL_PERMISSIONS
        /\ <<"cashier", "collect">> \in ALL_PERMISSIONS
        /\ <<"cashier", "pay">> \in ALL_PERMISSIONS
        /\ <<"sales", "refund_customer">> \in ALL_PERMISSIONS
    BY Catalogue DEF Realms
  <1> QED BY <1>1, DoorsOf DEF TillDoors, Listed

LEMMA TripDoorsListed == \A e \in TripDoors : Listed(e)
  <1>1. /\ <<"delivery", "view">> \in ALL_PERMISSIONS
        /\ <<"delivery", "manage">> \in ALL_PERMISSIONS
        /\ <<"delivery", "deliver">> \in ALL_PERMISSIONS
    BY Catalogue DEF Realms
  <1> QED BY <1>1, DoorsOf DEF TripDoors, Listed

LEMMA ExpenseDoorsListed == \A e \in ExpenseDoors : Listed(e)
  <1>1. /\ <<"expenses", "view">> \in ALL_PERMISSIONS
        /\ <<"expenses", "manage">> \in ALL_PERMISSIONS
    BY Catalogue DEF Realms
  <1> QED BY <1>1, DoorsOf DEF ExpenseDoors, Listed

LEMMA LedgerDoorsListed == \A e \in LedgerDoors : Listed(e)
  <1>1. /\ <<"accounting", "view">> \in ALL_PERMISSIONS
        /\ <<"accounting", "manual_entry">> \in ALL_PERMISSIONS
    BY Catalogue DEF Realms
  <1> QED BY <1>1, DoorsOf DEF LedgerDoors, Listed

LEMMA BankDoorsListed == \A e \in BankDoors : Listed(e)
  <1>1. <<"accounting", "bank_reconciliation">> \in ALL_PERMISSIONS
    BY Catalogue DEF Realms
  <1> QED BY <1>1, DoorsOf DEF BankDoors, Listed

LEMMA SalesFigureDoorsListed == \A e \in SalesFigureDoors : Listed(e)
  <1>1. <<"analytics", "view">> \in ALL_PERMISSIONS
    BY Catalogue DEF Realms
  <1> QED BY <1>1, DoorsOf DEF SalesFigureDoors, Listed

LEMMA RiskFigureDoorsListed == \A e \in RiskFigureDoors : Listed(e)
  <1>1. <<"analytics", "view">> \in ALL_PERMISSIONS
    BY Catalogue DEF Realms
  <1> QED BY <1>1, DoorsOf DEF RiskFigureDoors, Listed

LEMMA SettingDoorsListed == \A e \in SettingDoors : Listed(e)
  <1>1. /\ <<"settings", "view">> \in ALL_PERMISSIONS
        /\ <<"settings", "manage">> \in ALL_PERMISSIONS
    BY Catalogue DEF Realms
  <1> QED BY <1>1, DoorsOf DEF SettingDoors, Listed

LEMMA UserDoorsListed == \A e \in UserDoors : Listed(e)
  <1>1. /\ <<"realm", "nobody">> \in Realms
        /\ <<"realm", "staff">> \in Realms
        /\ <<"users", "manage">> \in ALL_PERMISSIONS
        /\ <<"users", "delete">> \in ALL_PERMISSIONS
    BY Catalogue DEF Realms
  <1> QED BY <1>1, DoorsOf DEF UserDoors, Listed

LEMMA SystemDoorsListed == \A e \in SystemDoors : Listed(e)
  <1>1. /\ <<"audit", "view">> \in ALL_PERMISSIONS
        /\ <<"realm", "staff">> \in Realms
    BY Catalogue DEF Realms
  <1> QED BY <1>1, DoorsOf DEF SystemDoors, Listed

LEMMA ImportDoorsListed == \A e \in ImportDoors : Listed(e)
  <1>1. <<"data", "import">> \in ALL_PERMISSIONS
    BY Catalogue DEF Realms
  <1> QED BY <1>1, DoorsOf DEF ImportDoors, Listed

LEMMA PortalDoorsListed == \A e \in PortalDoors : Listed(e)
  <1>1. /\ <<"realm", "nobody">> \in Realms
        /\ <<"realm", "customer">> \in Realms
    BY Catalogue DEF Realms
  <1> QED BY <1>1, DoorsOf DEF PortalDoors, Listed

LEMMA PortalOrderDoorsListed == \A e \in PortalOrderDoors : Listed(e)
  <1>1. /\ <<"realm", "customer">> \in Realms
        /\ <<"sales", "orders_review">> \in ALL_PERMISSIONS
        /\ <<"customers", "portal_access">> \in ALL_PERMISSIONS
    BY Catalogue DEF Realms
  <1> QED BY <1>1, DoorsOf DEF PortalOrderDoors, Listed

LEMMA EveryDoor == \A e \in Routes : Known(e) /\ Listed(e)
  BY CustomerDoorsKnown, CustomerDoorsListed, InvoiceDoorsKnown, InvoiceDoorsListed, ReturnDoorsKnown, ReturnDoorsListed, FieldDoorsKnown, FieldDoorsListed, CreditDoorsKnown, CreditDoorsListed, RationedDoorsKnown, RationedDoorsListed, ProductDoorsKnown, ProductDoorsListed, StockDoorsKnown, StockDoorsListed, CountDoorsKnown, CountDoorsListed, OfferDoorsKnown, OfferDoorsListed, SupplierDoorsKnown, SupplierDoorsListed, OrderDoorsKnown, OrderDoorsListed, SupplierMoneyDoorsKnown, SupplierMoneyDoorsListed, TillDoorsKnown, TillDoorsListed, TripDoorsKnown, TripDoorsListed, ExpenseDoorsKnown, ExpenseDoorsListed, LedgerDoorsKnown, LedgerDoorsListed, BankDoorsKnown, BankDoorsListed, SalesFigureDoorsKnown, SalesFigureDoorsListed, RiskFigureDoorsKnown, RiskFigureDoorsListed, SettingDoorsKnown, SettingDoorsListed, UserDoorsKnown, UserDoorsListed, SystemDoorsKnown, SystemDoorsListed, ImportDoorsKnown, ImportDoorsListed, PortalDoorsKnown, PortalDoorsListed, PortalOrderDoorsKnown, PortalOrderDoorsListed DEF Routes

-----------------------------------------------------------------------------
\* Whoever may open a page, but for the two, may load what it reads.
LEMMA PageLoads ==
    ASSUME NEW H, Closed(H), NEW page \in NAV_ITEMS, page.perm \in H, page.reads \cap Half = {},
           NEW e \in Routes, <<e.at, e.op>> \in page.reads
    PROVE  e.needs \in H
  <1>1. Known(e)
    BY EveryDoor
  <1>0. <<"analytics", "expiry_worklist">> \notin page.reads /\ <<"sales", "list_customer_credits">> \notin page.reads
    BY DEF Half
  <1> HIDE DEF Routes
  <1>2. CASE e.at = "inventory"
    BY <1>1, <1>2 DEF NAV_ITEMS, Page, Closed, Half, Known, KnownStock, Guarded
  <1>3. CASE e.at = "sales"
    BY <1>0, <1>1, <1>3 DEF NAV_ITEMS, Page, Closed, Known, KnownSales, Guarded
  <1>4. CASE e.at = "portal"
    BY <1>1, <1>4 DEF NAV_ITEMS, Page, Known, KnownSales, Guarded
  <1>5. CASE e.at \in {"delivery", "purchases", "expenses"}
    BY <1>1, <1>5 DEF NAV_ITEMS, Page, Closed, Half, Known, KnownTrade, Guarded
  <1>6. CASE e.at \in {"accounting", "settings", "auth", "audit", "imports"}
    BY <1>1, <1>6 DEF NAV_ITEMS, Page, Closed, Half, Known, KnownBooks, Guarded
  <1>7. CASE e.at \in {"analytics", "cashier"}
    BY <1>0, <1>7 DEF NAV_ITEMS, Page
  <1>8. e.at \in {"inventory", "sales", "portal", "delivery", "purchases", "expenses", "accounting",
                  "settings", "auth", "audit", "imports", "analytics", "cashier"}
    BY DEF NAV_ITEMS, Page
  <1> QED BY <1>2, <1>3, <1>5, <1>6, <1>7, <1>8, <1>4

Row == [role : UserRole, list : Lists \cup {NoList}, active : BOOLEAN, here : BOOLEAN]

\* Accounts are rows of the table, and so is what a request has in hand.
AreRows ==
    /\ account \in [User -> Row]
    /\ turn = [s \in Session |-> turn[s]]
    /\ \A s \in Session : turn[s].was \subseteq Row /\ turn[s].on \in User \cup {0}

LEMMA RowsInit == DoorsInit => AreRows
  <1> SUFFICES ASSUME DoorsInit
               PROVE  AreRows
    OBVIOUS
  <1>1. PICK f \in Staff :
           account = [u \in User |-> [role |-> f[u], list |-> NoList, active |-> TRUE, here |-> TRUE]]
    BY DEF DoorsInit
  <1>2. \A u \in User : [role |-> f[u], list |-> NoList, active |-> TRUE, here |-> TRUE] \in Row
    BY DoorsAssumption DEF Row
  <1>3. account \in [User -> Row]
    BY <1>1, <1>2
  <1> QED BY <1>3 DEF DoorsInit, AreRows, NoTurn

LEMMA ChangedRow ==
    ASSUME NEW a \in Row, NEW w \in Row, NEW n \in Row, NEW b,
           b = [a EXCEPT !.role = Column(@, w.role, n.role),
                         !.list = Column(@, w.list, n.list),
                         !.active = Column(@, w.active, n.active)]
    PROVE  b \in Row
  BY DEF Row, Column

LEMMA ChangesAreRows ==
    ASSUME NEW s \in Session, turn[s].was \subseteq Row
    PROVE  Changes(s) \subseteq Row
  <1>1. ASSUME NEW a \in Row
        PROVE  /\ \A r \in RolesGiven : [a EXCEPT !.role = r] \in Row
               /\ \A l \in Lists : [a EXCEPT !.list = l] \in Row
               /\ \A b \in BOOLEAN : [a EXCEPT !.active = b] \in Row
    BY <1>1, DoorsAssumption DEF Row
  <1> QED BY <1>1 DEF Changes

LEMMA RowsStep == AreRows /\ [DoorsNext]_doorVars => AreRows'
  <1> SUFFICES ASSUME AreRows, [DoorsNext]_doorVars
               PROVE  AreRows'
    OBVIOUS
  <1>1. CASE UNCHANGED doorVars
    BY <1>1 DEF doorVars, AreRows
  <1>2. ASSUME NEW u \in User, Trade(u)
        PROVE  AreRows'
    BY <1>2 DEF Trade, AreRows
  <1>3. ASSUME NEW s \in Session, AbortTurn(s)
        PROVE  AreRows'
    BY <1>3 DEF AbortTurn, Takes, NoTurn, AreRows
  <1>4. ASSUME NEW s \in Session, NEW u \in User, NEW v \in User, NEW op \in {"update", "delete"},
               LoadAccount(s, u, v, op)
        PROVE  AreRows'
    <2>1. /\ turn' = [turn EXCEPT ![s] = [op |-> op, on |-> v, was |-> {account[v]}]]
          /\ account' = account
      BY <1>4 DEF LoadAccount, Takes
    <2>2. account[v] \in Row
      BY DEF AreRows
    <2>3. turn'[s].on = v /\ turn'[s].was = {account[v]} /\ \A t \in Session \ {s} : turn'[t] = turn[t]
      BY <2>1 DEF AreRows
    <2> QED BY <2>1, <2>2, <2>3 DEF AreRows
  <1>5. ASSUME NEW s \in Session, NEW new \in Changes(s), UpdateUser(s, new)
        PROVE  AreRows'
    <2>1. PICK was \in turn[s].was :
             account' = [account EXCEPT ![turn[s].on] = [account[turn[s].on] EXCEPT
                           !.role = Column(@, was.role, new.role),
                           !.list = Column(@, was.list, new.list),
                           !.active = Column(@, was.active, new.active)]]
      BY <1>5 DEF UpdateUser
    <2>2. was \in Row /\ new \in Row
      BY ChangesAreRows DEF AreRows
    <2>3. turn[s].on \in User => [account[turn[s].on] EXCEPT
                           !.role = Column(@, was.role, new.role),
                           !.list = Column(@, was.list, new.list),
                           !.active = Column(@, was.active, new.active)] \in Row
      BY <2>2, ChangedRow DEF AreRows
    <2>4. account' \in [User -> Row]
      BY <2>1, <2>3 DEF AreRows
    <2>5. turn' = [turn EXCEPT ![s] = NoTurn]
      BY <1>5 DEF UpdateUser, Takes
    <2> QED BY <2>4, <2>5 DEF AreRows, NoTurn
  <1>6. ASSUME NEW s \in Session, DeleteUser(s)
        PROVE  AreRows'
    <2>1. /\ account' = [account EXCEPT ![turn[s].on].here = FALSE]
          /\ turn' = [turn EXCEPT ![s] = NoTurn]
      BY <1>6 DEF DeleteUser, Takes
    <2>2. \A a \in Row : [a EXCEPT !.here = FALSE] \in Row
      BY DEF Row
    <2>3. account' \in [User -> Row]
      BY <2>1, <2>2 DEF AreRows
    <2> QED BY <2>1, <2>3 DEF AreRows, NoTurn
  <1> QED BY <1>1, <1>2, <1>3, <1>4, <1>5, <1>6 DEF DoorsNext

LEMMA RealmsApart ==
    ASSUME NEW a, NEW n, <<a, n>> \in Realms
    PROVE  a = "realm"
  BY DEF Realms

LEMMA ByRoleHands ==
    ASSUME AreRows, NEW u \in User, ByRole(u)
    PROVE  /\ Closed(Holds(u)) /\ Halved(Holds(u))
           /\ account[u].role # "sales" => Unlent(Holds(u))
  <1> DEFINE H == ROLE_DEFAULT_PERMISSIONS[account[u].role]
  <1>1. account[u].role \in UserRole \ {"admin"}
    BY DEF AreRows, Row, ByRole
  <1>2. Closed(H) /\ Halved(H)
    BY <1>1, StorekeeperHands, SalesHands, DriverHands, CashierHands, AccountantHands DEF UserRole
  <1>3. account[u].role # "sales" => Unlent(H)
    BY <1>1, OthersUnlent
  <1>4. effective_permissions(account[u]) = H
    BY DEF ByRole, effective_permissions
  <1> HIDE DEF H
  <1>5. ASSUME NEW a, NEW n, a # "realm", account[u].here /\ account[u].active
        PROVE  <<a, n>> \in Holds(u) <=> <<a, n>> \in H
    BY <1>4, <1>5, RealmsApart DEF Holds
  <1>6. ASSUME NEW a, NEW n, a # "realm", ~(account[u].here /\ account[u].active)
        PROVE  <<a, n>> \notin Holds(u)
    BY <1>6 DEF Holds
  <1>7. CASE account[u].here /\ account[u].active
    BY <1>2, <1>3, <1>5, <1>7 DEF Closed, Halved, Unlent
  <1>8. CASE ~(account[u].here /\ account[u].active)
    BY <1>6, <1>8 DEF Closed, Halved, Unlent
  <1> QED BY <1>7, <1>8

LEMMA RowsType == AreRows => DoorsTypeOK
  <1> SUFFICES ASSUME AreRows
               PROVE  DoorsTypeOK
    OBVIOUS
  <1>1. RoutesAreListed
    BY EveryDoor DEF RoutesAreListed, Listed
  <1>2. ASSUME NEW u \in User
        PROVE  effective_permissions(account[u]) \subseteq ALL_PERMISSIONS
    <2>1. account[u].role \in UserRole
      BY DEF AreRows, Row
    <2>2. account[u].role # "admin" => ROLE_DEFAULT_PERMISSIONS[account[u].role] \subseteq ALL_PERMISSIONS
      BY <2>1, StorekeeperListed, SalesListed, DriverListed, CashierListed, AccountantListed DEF UserRole
    <2> QED BY <2>2 DEF effective_permissions
  <1> QED BY <1>1, <1>2 DEF DoorsTypeOK, AreRows

LEMMA RowsKeptApart == AreRows => KeptApart
  <1> SUFFICES ASSUME AreRows, NEW u \in User, ByRole(u), NEW pair \in Halves, pair \subseteq Holds(u)
               PROVE  pair = OwnCredit /\ account[u].role = "sales"
    BY DEF KeptApart
  <1>1. Halved(Holds(u)) /\ (account[u].role # "sales" => Unlent(Holds(u)))
    BY ByRoleHands
  <1> HIDE DEF Holds
  <1>2. \/ <<"sales", "returns">> \in pair /\ <<"sales", "refund_customer">> \in pair
        \/ <<"sales", "returns">> \in pair /\ <<"sales", "returns_cancel">> \in pair
        \/ <<"stock", "stocktake">> \in pair /\ <<"sales", "round_settle_variance">> \in pair
        \/ <<"stock", "stocktake">> \in pair /\ <<"products", "offers">> \in pair
        \/ <<"sales", "create">> \in pair /\ <<"sales", "rationed_manage">> \in pair
        \/ <<"stock", "adjust">> \in pair /\ <<"stock", "adjust_cancel">> \in pair
        \/ <<"users", "manage">> \in pair /\ <<"users", "delete">> \in pair
        \/ pair = OwnCredit
    BY InArea DEF Halves
  <1>3. pair = OwnCredit
    BY <1>1, <1>2 DEF Halved
  <1>4. <<"sales", "create">> \in pair /\ <<"sales", "collections">> \in pair
    BY <1>3, InArea DEF OwnCredit
  <1> QED BY <1>1, <1>3, <1>4 DEF Unlent

LEMMA RowsPagesOpen == AreRows => OtherPagesOpen
  <1> SUFFICES ASSUME AreRows, NEW u \in User, ByRole(u), NEW p \in PagesThatOpen, p.perm \in Holds(u),
                      NEW x \in p.needs
               PROVE  x \in Holds(u)
    BY DEF OtherPagesOpen
  <1>1. PICK page \in NAV_ITEMS :
           p = [perm |-> page.perm, reads |-> page.reads,
                needs |-> {e.needs : e \in {r \in Routes : <<r.at, r.op>> \in page.reads}}]
    BY DEF PagesThatOpen, PageNeeds
  <1>2. page.perm \in Holds(u) /\ page.reads \cap Half = {}
    BY <1>1 DEF PagesThatOpen
  <1>3. PICK e \in Routes : <<e.at, e.op>> \in page.reads /\ x = e.needs
    BY <1>1
  <1> QED BY <1>2, <1>3, ByRoleHands, PageLoads

LEMMA RowsListIsAll == AreRows => ListIsAll
  <1> SUFFICES ASSUME AreRows, NEW u \in User, ~ByRole(u), account[u].role # "admin"
               PROVE  Holds(u) \subseteq account[u].list \cup Realms
    BY DEF ListIsAll
  <1>1. effective_permissions(account[u]) = account[u].list \cap ALL_PERMISSIONS
    BY DEF ByRole, effective_permissions
  <1> QED BY <1>1 DEF Holds, Realms

\* Whatever roles and lists are given to whom, and whoever is switched off or deleted:
\* of those who have what their role gives, only a salesman holds two halves the catalogue
\* keeps apart, and only selling and chasing debts; the pages one is shown load (but for the
\* two), and a list says all a person may (permissions.py, deps.py, Layout.jsx).
THEOREM HandsStayTheirOwn == DoorsSpec => []HandsAreTheirOwn
  <1>1. AreRows => HandsAreTheirOwn
    BY RowsType, RowsKeptApart, RowsPagesOpen, RowsListIsAll DEF HandsAreTheirOwn
  <1> QED BY <1>1, RowsInit, RowsStep, PTL DEF DoorsSpec

-----------------------------------------------------------------------------
(* The portal login *)

Word == {"none", "temporary", "own", "newer", "wrong"}

Work == {"none", "sign_in", "change", "office"}

Login == [id : Nat, pw : Word, failed : Nat, locked : Nat, must : BOOLEAN, active : BOOLEAN]

SignTypeOK ==
    /\ hour \in Nat /\ issued \in Nat
    /\ access \in Login
    /\ knock \in [Session -> [op : Work, pw : Word, row : Login]]
    /\ wrong \in Seq(Nat) /\ jostled \in BOOLEAN

\* Ids are not given twice.
Numbered == access.id <= issued /\ \A s \in Session : knock[s].row.id <= issued

\* There is one row of no login.
Unopened ==
    /\ access.id = 0 => access = NoLogin
    /\ \A s \in Session : /\ knock[s].row.id = 0 => knock[s].row = NoLogin
                          /\ knock[s].op \in {"change", "office"} => knock[s].row.id # 0

\* A request that works alone holds the row as it is, or a row that is gone.
Alone ==
    /\ \A s, t \in Session : knock[s] # NoKnock /\ knock[t] # NoKnock => s = t
    /\ \A s \in Session : knock[s].op # "none" /\ knock[s].row.id = access.id
                          => knock[s].row = access

MustReplace == access.pw = "temporary" => access.must

\* The wrong guesses come in the order of time.
InOrder ==
    /\ \A i, j \in 1..Len(wrong) : i <= j => wrong[i] <= wrong[j]
    /\ \A i \in 1..Len(wrong) : wrong[i] <= hour

\* The count on the row is of the guesses since the last lockout, which lasts from the
\* guess before them.
Counting ==
    access.id # 0 =>
        /\ access.failed < MAX_FAILED_ATTEMPTS /\ access.failed <= Len(wrong)
        /\ access.failed < Len(wrong) =>
              access.locked = wrong[Len(wrong) - access.failed] + LOCKOUT_MINUTES

Spaced ==
    \A i \in 1..(Len(wrong) - MAX_FAILED_ATTEMPTS) :
        wrong[i + MAX_FAILED_ATTEMPTS] - wrong[i] >= LOCKOUT_MINUTES

SignIInv ==
    /\ SignTypeOK /\ Numbered /\ Unopened
    /\ InOrder
    /\ ~jostled => Alone /\ MustReplace /\ Counting /\ Spaced

-----------------------------------------------------------------------------
LEMMA Bounds == MAX_FAILED_ATTEMPTS \in Nat \ {0} /\ LOCKOUT_MINUTES \in Nat \ {0}
  BY SignInAssumption

LEMMA BlankKnock == NoKnock.op = "none" /\ NoKnock.row = NoLogin /\ NoLogin.id = 0
  BY DEF NoKnock, NoLogin

LEMMA BlankLogin == NoLogin \in Login /\ NoKnock \in [op : Work, pw : Word, row : Login]
  BY DEF NoLogin, NoKnock, Login, Word, Work

\* Whoever holds the row as it is leaves it as he means to.
LEMMA SavedAlone ==
    ASSUME access \in Login, NEW new \in Login
    PROVE  Saved(access, new) = new
  BY DEF Saved, Column, Login

LEMMA SavedType ==
    ASSUME access \in Login, NEW was \in Login, NEW new \in Login, was.id = access.id, new.id = was.id
    PROVE  Saved(was, new) \in Login /\ Saved(was, new).id = access.id
  BY DEF Saved, Column, Login

LEMMA FailedType ==
    ASSUME NEW row \in Login, hour \in Nat
    PROVE  Failed(row) \in Login /\ Failed(row).id = row.id
  <1>1. /\ row.failed + 1 \in Nat /\ hour + LOCKOUT_MINUTES \in Nat
    BY Bounds DEF Login
  <1>2. /\ [row EXCEPT !.failed = 0, !.locked = hour + LOCKOUT_MINUTES] \in Login
        /\ [row EXCEPT !.failed = 0, !.locked = hour + LOCKOUT_MINUTES].id = row.id
    BY <1>1 DEF Login
  <1>3. /\ [row EXCEPT !.failed = @ + 1] \in Login
        /\ [row EXCEPT !.failed = @ + 1].id = row.id
    BY <1>1 DEF Login
  <1> QED BY <1>2, <1>3 DEF Failed

LEMMA SignInvInit == SignInit => SignIInv
  <1> SUFFICES ASSUME SignInit
               PROVE  SignIInv
    OBVIOUS
  <1>1. SignTypeOK
    <2>1. access \in Login
      BY DEF SignInit, Login, NoLogin, Word
    <2>2. wrong \in Seq(Nat)
      BY DEF SignInit
    <2> QED BY <2>1, <2>2, BlankLogin DEF SignInit, SignTypeOK
  <1>2. Len(wrong) = 0 /\ access.failed = 0 /\ access.must /\ access.id = 1
    BY DEF SignInit, NoLogin
  <1>3. Numbered
    BY DEF SignInit, Numbered, NoKnock, NoLogin
  <1>4. Alone
    BY DEF SignInit, Alone, NoKnock
  <1>5. Unopened
    <2>1. access.id = 1 /\ \A s \in Session : knock[s] = NoKnock
      BY DEF SignInit, NoLogin
    <2> QED BY <2>1, BlankKnock DEF Unopened
  <1> QED BY <1>1, <1>2, <1>3, <1>4, <1>5, Bounds DEF SignIInv, MustReplace, InOrder, Counting, Spaced

\* What a request does once it has loaded the row, alone or not: it is done, ids stand.
LEMMA Leaving ==
    ASSUME SignIInv, NEW s \in Session, knock[s].op # "none", knock[s].row.id = access.id,
           access.id # 0, NEW new \in Login, new.id = access.id, access' = Saved(knock[s].row, new),
           Ends(s), UNCHANGED <<hour, issued, jostled>>, wrong' \in Seq(Nat)
    PROVE  /\ SignTypeOK' /\ Numbered' /\ Unopened'
           /\ ~jostled' => Alone' /\ access' = new /\ knock[s].row = access
  <1> USE DEF SignIInv
  <1>1. knock[s].row \in Login
    BY DEF SignTypeOK
  <1>2. access' \in Login /\ access'.id = access.id
    BY <1>1, SavedType DEF SignTypeOK
  <1>3. SignTypeOK'
    BY <1>2, BlankLogin DEF SignTypeOK, Ends
  <1>4. Numbered'
    BY <1>2 DEF Numbered, Ends, SignTypeOK, NoKnock, NoLogin
  <1>5. ASSUME ~jostled'
        PROVE  Alone' /\ access' = new /\ knock[s].row = access
    <2>1. knock[s].row = access /\ knock[s] # NoKnock
      BY <1>5 DEF Alone, NoKnock
    <2>2. access' = new
      BY <2>1, SavedAlone DEF SignTypeOK
    <2>3. \A t \in Session : t # s => knock[t] = NoKnock
      BY <1>5, <2>1 DEF Alone
    <2>4. \A t \in Session : knock'[t] = NoKnock
      BY <2>3 DEF Ends, SignTypeOK
    <2> QED BY <2>1, <2>2, <2>4 DEF Alone, NoKnock
  <1>6. Unopened'
    BY <1>2 DEF Unopened, Ends, SignTypeOK, NoKnock, NoLogin
  <1> QED BY <1>3, <1>4, <1>5, <1>6

\* A request loads the row; one that finds another at it is on record.
LEMMA Loading ==
    ASSUME SignIInv, NEW s \in Session, NEW op \in Work, NEW pw \in Word, Loads(s, op, pw),
           op # "sign_in" => access.id # 0, UNCHANGED <<hour, issued, access, wrong>>
    PROVE  SignIInv'
  <1> USE DEF SignIInv
  <1> DEFINE k == [op |-> op, pw |-> pw, row |-> access]
  <1>1. k \in [op : Work, pw : Word, row : Login] /\ k.row = access /\ k.op = op
    BY DEF SignTypeOK
  <1>2. knock' = [knock EXCEPT ![s] = k] /\ jostled' \in BOOLEAN
    BY DEF Loads, SignTypeOK
  <1>3. ~jostled' => ~jostled /\ \A t \in Session \ {s} : knock[t] = NoKnock
    BY DEF Loads
  <1> HIDE DEF k
  <1>4. SignTypeOK'
    BY <1>1, <1>2 DEF SignTypeOK
  <1>5. Numbered' /\ InOrder'
    BY <1>1, <1>2 DEF Numbered, InOrder, SignTypeOK
  <1>7. Unopened'
    BY <1>1, <1>2 DEF Unopened, SignTypeOK
  <1>6. ~jostled' => Alone'
    BY <1>1, <1>2, <1>3 DEF Alone, SignTypeOK, NoKnock
  <1> QED BY <1>3, <1>4, <1>5, <1>6, <1>7 DEF MustReplace, Counting, Spaced

\* One more time at the end keeps m steps apart by gap, if it is that far from the one
\* the last f steps lead back to.
LEMMA OneMore ==
    ASSUME NEW n \in Nat, NEW f \in Nat, NEW m \in Nat \ {0}, NEW gap \in Nat, NEW now \in Nat,
           NEW old, NEW new, f < m, new[n + 1] = now,
           \A i \in 1..n : new[i] = old[i] /\ old[i] \in Nat,
           \A i, j \in 1..n : i <= j => old[i] <= old[j],
           \A i \in 1..(n - m) : old[i + m] - old[i] >= gap,
           f < n => old[n - f] + gap <= now
    PROVE  \A i \in 1..(n + 1 - m) : new[i + m] - new[i] >= gap
  <1> SUFFICES ASSUME NEW i \in 1..(n + 1 - m)
               PROVE  new[i + m] - new[i] >= gap
    OBVIOUS
  <1>1. CASE i + m <= n
    <2>1. i \in 1..(n - m) /\ i \in 1..n /\ i + m \in 1..n
      BY <1>1
    <2> QED BY <2>1
  <1>2. CASE i + m = n + 1
    <2>1. f < n /\ i <= n - f /\ n - f \in 1..n /\ i \in 1..n
      BY <1>2
    <2>2. old[i] <= old[n - f] /\ new[i] = old[i] /\ old[i] \in Nat /\ old[n - f] \in Nat
      BY <2>1
    <2>3. new[i + m] = now
      BY <1>2
    <2> QED BY <2>1, <2>2, <2>3
  <1> QED BY <1>1, <1>2

\* A wrong guess that is answered comes a lockout after the one that brought it.
LEMMA WrongGuess ==
    ASSUME SignIInv, ~jostled, access.id # 0, ~_is_locked(access),
           access' = Failed(access), wrong' = Append(wrong, hour), UNCHANGED hour
    PROVE  MustReplace' /\ Counting' /\ Spaced'
  <1> USE DEF SignIInv
  <1> DEFINE n == Len(wrong)
             f == access.failed
             M == MAX_FAILED_ATTEMPTS
  <1>0. access.must \in BOOLEAN /\ access.pw \in Word /\ access.locked \in Nat
    BY DEF SignTypeOK, Login
  <1>00. MustReplace
    OBVIOUS
  <1>1. /\ n \in Nat /\ f \in Nat /\ M \in Nat \ {0} /\ hour \in Nat /\ access \in Login
        /\ LOCKOUT_MINUTES \in Nat /\ wrong \in Seq(Nat)
    BY Bounds DEF SignTypeOK, Login
  <1>2. /\ Len(wrong') = n + 1 /\ wrong'[n + 1] = hour
        /\ \A i \in 1..n : wrong'[i] = wrong[i] /\ wrong[i] \in Nat
    BY <1>1
  <1>3. f < M /\ f <= n /\ (f < n => access.locked = wrong[n - f] + LOCKOUT_MINUTES)
    BY DEF Counting
  <1>4. access.locked <= hour
    BY <1>1 DEF _is_locked, Login
  <1>5. ASSUME f + 1 >= M
        PROVE  MustReplace' /\ Counting'
    <2>1. access' = [access EXCEPT !.failed = 0, !.locked = hour + LOCKOUT_MINUTES]
      BY <1>5 DEF Failed
    <2>2. /\ access'.failed = 0 /\ access'.locked = hour + LOCKOUT_MINUTES
          /\ access'.pw = access.pw /\ access'.must = access.must
      BY <1>1, <2>1 DEF Login
    <2>3. Counting'
      BY <1>1, <1>2, <2>2 DEF Counting
    <2> QED BY <1>00, <2>2, <2>3, Zenon DEF MustReplace
  <1>6. ASSUME ~(f + 1 >= M)
        PROVE  MustReplace' /\ Counting'
    <2>1. access' = [access EXCEPT !.failed = f + 1]
      BY <1>6 DEF Failed
    <2>2. /\ access'.failed = f + 1 /\ access'.locked = access.locked
          /\ access'.pw = access.pw /\ access'.must = access.must
      BY <1>1, <2>1 DEF Login
    <2>3. Counting'
      <3>1. /\ access'.failed < M /\ access'.failed <= Len(wrong')
            /\ Len(wrong') - access'.failed = n - f
        BY <1>1, <1>2, <1>3, <1>6, <2>2, SMTT(30)
      <3>2. ASSUME f < n
            PROVE  access'.locked = wrong'[n - f] + LOCKOUT_MINUTES
        <4>1. n - f \in 1..n
          BY <1>1, <3>2
        <4> QED BY <1>2, <1>3, <2>2, <3>2, <4>1
      <3>3. access'.failed < Len(wrong') => f < n
        BY <1>1, <1>2, <2>2
      <3> QED BY <3>1, <3>2, <3>3 DEF Counting
    <2> QED BY <1>00, <2>2, <2>3, Zenon DEF MustReplace
  <1>7. Spaced'
    <2>1. /\ \A i, j \in 1..n : i <= j => wrong[i] <= wrong[j]
          /\ \A i \in 1..(n - M) : wrong[i + M] - wrong[i] >= LOCKOUT_MINUTES
          /\ f < n => wrong[n - f] + LOCKOUT_MINUTES <= hour
      BY <1>3, <1>4 DEF InOrder, Spaced
    <2>2. PICK old, new : old = wrong /\ new = wrong'
      OBVIOUS
    <2> HIDE DEF n, f, M
    <2>3. /\ n \in Nat /\ f \in Nat /\ M \in Nat \ {0} /\ hour \in Nat /\ LOCKOUT_MINUTES \in Nat
          /\ f < M /\ new[n + 1] = hour
          /\ \A i \in 1..n : new[i] = old[i] /\ old[i] \in Nat
          /\ \A i, j \in 1..n : i <= j => old[i] <= old[j]
          /\ \A i \in 1..(n - M) : old[i + M] - old[i] >= LOCKOUT_MINUTES
          /\ f < n => old[n - f] + LOCKOUT_MINUTES <= hour
      BY <1>1, <1>2, <1>3, <2>1, <2>2
    <2>4. \A i \in 1..(n + 1 - M) : new[i + M] - new[i] >= LOCKOUT_MINUTES
      BY <2>3, OneMore, Zenon
    <2>5. \A i \in 1..(Len(wrong') - M) : wrong'[i + M] - wrong'[i] >= LOCKOUT_MINUTES
      <3>1. Len(new) = n + 1
        BY <1>2, <2>2
      <3>2. 1..(Len(new) - M) = 1..(n + 1 - M)
        BY <2>3, <3>1
      <3>3. \A i \in 1..(Len(new) - M) : new[i + M] - new[i] >= LOCKOUT_MINUTES
        BY <2>4, <3>2, Zenon
      <3> QED BY <2>2, <3>3, Zenon
    <2> QED BY <2>5 DEF Spaced, M
  <1> QED BY <1>5, <1>6, <1>7

LEMMA InOrderAppend ==
    ASSUME SignTypeOK, InOrder, wrong' = Append(wrong, hour), UNCHANGED hour
    PROVE  InOrder'
  <1>1. /\ Len(wrong') = Len(wrong) + 1 /\ wrong'[Len(wrong) + 1] = hour /\ Len(wrong) \in Nat
        /\ \A i \in 1..Len(wrong) : wrong'[i] = wrong[i] /\ wrong[i] \in Nat
        /\ hour \in Nat
    BY DEF SignTypeOK
  <1> QED BY <1>1 DEF InOrder

-----------------------------------------------------------------------------
(* The steps *)

\* A step that leaves the row, the guesses and the count of requests as they are.
LEMMA Elsewhere ==
    ASSUME SignIInv, UNCHANGED <<access, wrong, jostled, issued>>,
           knock' \in [Session -> [op : Work, pw : Word, row : Login]],
           \A s \in Session : knock'[s] \in {knock[s], NoKnock},
           hour' \in Nat, hour' >= hour
    PROVE  SignIInv'
  <1> USE DEF SignIInv
  <1>1. SignTypeOK'
    BY DEF SignTypeOK
  <1>2. Numbered'
    BY DEF Numbered, NoKnock, NoLogin, SignTypeOK
  <1>3. InOrder'
    <2>1. \A i \in 1..Len(wrong) : wrong[i] \in Nat
      BY DEF SignTypeOK
    <2> QED BY <2>1 DEF InOrder, SignTypeOK
  <1>4. ~jostled => Alone'
    BY DEF Alone, NoKnock
  <1>5. ~jostled => MustReplace' /\ Counting' /\ Spaced'
    BY DEF MustReplace, Counting, Spaced
  <1>6. Unopened'
    <2> SUFFICES ASSUME NEW s \in Session
                 PROVE  /\ knock'[s].row.id = 0 => knock'[s].row = NoLogin
                        /\ knock'[s].op \in {"change", "office"} => knock'[s].row.id # 0
      BY DEF Unopened
    <2>1. CASE knock'[s] = knock[s]
      BY <2>1 DEF Unopened
    <2>2. CASE knock'[s] = NoKnock
      BY <2>2, BlankKnock
    <2> QED BY <2>1, <2>2
  <1> QED BY <1>1, <1>2, <1>3, <1>4, <1>5, <1>6

LEMMA AuthenticateStep ==
    ASSUME SignIInv, NEW s \in Session, Authenticate(s)
    PROVE  SignIInv'
  <1> USE DEF SignIInv
  <1> DEFINE row == knock[s].row
  <1>1. /\ row \in Login /\ row.failed \in Nat /\ Ends(s) /\ UNCHANGED <<hour, issued, jostled>>
        /\ knock[s].op # "none" /\ hour \in Nat /\ wrong \in Seq(Nat)
    BY DEF Authenticate, SignTypeOK, Login
  <1>2. CASE UNCHANGED <<access, wrong>>
    <2>1. knock' \in [Session -> [op : Work, pw : Word, row : Login]]
      BY <1>1, BlankLogin DEF Ends, SignTypeOK
    <2>2. \A t \in Session : knock'[t] \in {knock[t], NoKnock}
      BY <1>1 DEF Ends, SignTypeOK
    <2> QED BY <1>1, <1>2, <2>1, <2>2, Elsewhere
  <1>3. CASE /\ row.id # 0 /\ ~_is_locked(row) /\ access.id = row.id
             /\ access' = Saved(row, Failed(row)) /\ wrong' = Append(wrong, hour)
    <2>1. Failed(row) \in Login /\ Failed(row).id = row.id
      BY <1>1, FailedType
    <2>2. wrong' \in Seq(Nat)
      BY <1>1, <1>3
    <2>3. SignTypeOK' /\ Numbered' /\ Unopened' /\ (~jostled' => Alone' /\ access' = Failed(row) /\ row = access)
      BY <1>1, <1>3, <2>1, <2>2, Leaving
    <2>4. InOrder'
      BY <1>1, <1>3, InOrderAppend
    <2>5. ~jostled' => MustReplace' /\ Counting' /\ Spaced'
      BY <1>1, <1>3, <2>3, WrongGuess
    <2> QED BY <2>3, <2>4, <2>5
  <1>4. CASE /\ row.id # 0 /\ access.id = row.id /\ wrong' = <<>>
             /\ access' = Saved(row, [row EXCEPT !.failed = 0, !.locked = 0])
    <2> DEFINE new == [row EXCEPT !.failed = 0, !.locked = 0]
    <2>1. /\ new \in Login /\ new.id = row.id /\ new.failed = 0
          /\ new.pw = row.pw /\ new.must = row.must
      BY <1>1 DEF Login
    <2>2. wrong' \in Seq(Nat) /\ Len(wrong') = 0
      BY <1>4
    <2> HIDE DEF new
    <2>3. access' = Saved(row, new)
      BY <1>4 DEF new
    <2>4. SignTypeOK' /\ Numbered' /\ Unopened' /\ (~jostled' => Alone' /\ access' = new /\ row = access)
      BY <1>1, <1>4, <2>1, <2>2, <2>3, Leaving
    <2>5. InOrder'
      BY <2>2 DEF InOrder
    <2>6. ~jostled' => Counting' /\ Spaced'
      BY <2>1, <2>2, <2>4, Bounds DEF Counting, Spaced
    <2>7. ~jostled' => MustReplace'
      <3>1. ~jostled' => ~jostled /\ MustReplace
        BY <1>1
      <3> QED BY <2>1, <2>4, <3>1, Zenon DEF MustReplace
    <2> QED BY <2>4, <2>5, <2>6, <2>7
  <1> QED BY <1>2, <1>3, <1>4 DEF Authenticate

LEMMA ChangeStep ==
    ASSUME SignIInv, NEW s \in Session, ChangePassword(s)
    PROVE  SignIInv'
  <1> USE DEF SignIInv
  <1> DEFINE row == knock[s].row
             new == [row EXCEPT !.pw = IF row.pw = "own" THEN "newer" ELSE "own", !.must = FALSE]
  <1>1. row \in Login
    BY DEF SignTypeOK
  <1>2. /\ new \in Login /\ new.id = row.id /\ new.pw # "temporary"
        /\ new.failed = row.failed /\ new.locked = row.locked
    BY <1>1 DEF Login, Word
  <1>3. access' = Saved(row, new) /\ access.id = row.id /\ row.id # 0 /\ knock[s].op # "none"
    BY DEF ChangePassword, Unopened
  <1> HIDE DEF new
  <1>4. SignTypeOK' /\ Numbered' /\ Unopened' /\ (~jostled' => Alone' /\ access' = new /\ row = access)
    BY <1>1, <1>2, <1>3, Leaving DEF ChangePassword, SignTypeOK
  <1>5. UNCHANGED <<wrong, hour, jostled>>
    BY DEF ChangePassword
  <1>6. InOrder'
    BY <1>5 DEF InOrder
  <1>7. ~jostled' => MustReplace'
    BY <1>2, <1>4 DEF MustReplace
  <1>8. ~jostled' => Counting' /\ Spaced'
    BY <1>2, <1>4, <1>5 DEF Counting, Spaced
  <1> QED BY <1>4, <1>6, <1>7, <1>8

LEMMA OfficeStep ==
    ASSUME SignIInv, NEW s \in Session, UpdateLogin(s)
    PROVE  SignIInv'
  <1> USE DEF SignIInv
  <1> DEFINE row == knock[s].row
             suspended == [row EXCEPT !.active = ~row.active]
  <1>1. row \in Login
    BY DEF SignTypeOK
  <1>2. /\ access.id = row.id /\ row.id # 0 /\ knock[s].op # "none"
        /\ Ends(s) /\ UNCHANGED <<hour, issued, jostled>>
    BY DEF UpdateLogin, Unopened
  <1>3. CASE access' = Saved(row, suspended) /\ UNCHANGED wrong
    <2>1. /\ suspended \in Login /\ suspended.id = row.id
          /\ suspended.pw = row.pw /\ suspended.must = row.must
          /\ suspended.failed = row.failed /\ suspended.locked = row.locked
      BY <1>1 DEF Login
    <2> HIDE DEF suspended
    <2>2. SignTypeOK' /\ Numbered' /\ Unopened' /\ (~jostled' => Alone' /\ access' = suspended /\ row = access)
      BY <1>1, <1>2, <1>3, <2>1, Leaving DEF SignTypeOK
    <2>3. InOrder'
      BY <1>2, <1>3 DEF InOrder
    <2>4. ~jostled' => MustReplace'
      <3>1. ~jostled' => ~jostled /\ MustReplace
        BY <1>2
      <3> QED BY <2>1, <2>2, <3>1, Zenon DEF MustReplace
    <2>5. ~jostled' => Counting' /\ Spaced'
      BY <1>2, <1>3, <2>1, <2>2 DEF Counting, Spaced
    <2> QED BY <2>2, <2>3, <2>4, <2>5
  <1>4. CASE access' = Saved(row, Reset(row)) /\ wrong' = <<>>
    <2>1. /\ Reset(row) \in Login /\ Reset(row).id = row.id
          /\ Reset(row).must /\ Reset(row).failed = 0
      BY <1>1 DEF Login, Word, Reset
    <2>2. wrong' \in Seq(Nat) /\ Len(wrong') = 0
      BY <1>4
    <2>3. SignTypeOK' /\ Numbered' /\ Unopened' /\ (~jostled' => Alone' /\ access' = Reset(row))
      BY <1>1, <1>2, <1>4, <2>1, <2>2, Leaving
    <2>4. InOrder'
      BY <2>2 DEF InOrder
    <2>5. ~jostled' => MustReplace' /\ Counting' /\ Spaced'
      BY <2>1, <2>2, <2>3, Bounds DEF MustReplace, Counting, Spaced
    <2> QED BY <2>3, <2>4, <2>5
  <1> QED BY <1>3, <1>4 DEF UpdateLogin

LEMMA RowStep ==
    ASSUME SignIInv, DeleteLogin \/ CreateLogin
    PROVE  SignIInv'
  <1> USE DEF SignIInv
  <1>1. CASE DeleteLogin
    <2>1. access' = NoLogin /\ access'.id = 0 /\ access'.pw = "none"
      BY <1>1 DEF DeleteLogin, NoLogin
    <2>2. UNCHANGED <<hour, issued, knock, wrong, jostled>> /\ access.id # 0
      BY <1>1 DEF DeleteLogin
    <2>3. SignTypeOK'
      BY <2>1, <2>2, BlankLogin DEF SignTypeOK
    <2>4. Numbered' /\ InOrder' /\ (~jostled => MustReplace' /\ Counting' /\ Spaced')
      BY <2>1, <2>2 DEF Numbered, InOrder, MustReplace, Counting, Spaced, SignTypeOK
    <2>5. ~jostled => Alone'
      <3> SUFFICES ASSUME ~jostled, NEW s \in Session, knock[s].op # "none", knock[s].row.id = 0
                   PROVE  knock[s].row = NoLogin
        BY <2>1, <2>2 DEF Alone
      <3> QED BY DEF Unopened
    <2>6. Unopened'
      BY <2>1, <2>2 DEF Unopened
    <2> QED BY <2>2, <2>3, <2>4, <2>5, <2>6
  <1>2. CASE CreateLogin
    <2>1. /\ access' \in Login /\ access'.id = issued + 1 /\ access'.must
          /\ access'.failed = 0 /\ issued' = issued + 1
      <3>1. issued + 1 \in Nat /\ issued' = issued + 1
        BY <1>2 DEF CreateLogin, SignTypeOK
      <3>2. access' = [id |-> issued', pw |-> "temporary", failed |-> 0, locked |-> 0,
                       must |-> TRUE, active |-> TRUE]
        BY <1>2 DEF CreateLogin, NoLogin
      <3> QED BY <3>1, <3>2 DEF Login, Word
    <2>2. UNCHANGED <<hour, knock, jostled>> /\ wrong' = <<>> /\ Len(wrong') = 0
      BY <1>2 DEF CreateLogin
    <2>3. SignTypeOK'
      BY <2>1, <2>2 DEF SignTypeOK
    <2>4. /\ InOrder' /\ MustReplace' /\ Counting' /\ Spaced'
      BY <2>1, <2>2, Bounds DEF InOrder, MustReplace, Counting, Spaced
    <2>5. Numbered' /\ (~jostled => Alone')
      <3>1. \A s \in Session : knock[s].row.id \in Nat /\ knock[s].row.id <= issued
        BY DEF Numbered, SignTypeOK, Login
      <3> QED BY <2>1, <2>2, <3>1 DEF Numbered, Alone, SignTypeOK
    <2>6. Unopened'
      BY <2>1, <2>2 DEF Unopened, SignTypeOK
    <2> QED BY <2>2, <2>3, <2>4, <2>5, <2>6
  <1> QED BY <1>1, <1>2

LEMMA SignInvStep ==
    ASSUME SignIInv, [SignNext]_signVars
    PROVE  SignIInv'
  <1> USE DEF SignIInv
  <1>1. ASSUME NEW s \in Session, NEW pw \in {access.pw, "wrong"}, Knock(s, pw)
        PROVE  SignIInv'
    <2>1. pw \in Word /\ "sign_in" \in Work
      BY DEF SignTypeOK, Login, Word, Work
    <2> QED BY <1>1, <2>1, Loading DEF Knock
  <1>2. ASSUME NEW s \in Session, NEW op \in {"change", "office"}, LoadLogin(s, op)
        PROVE  SignIInv'
    <2>1. access.pw \in Word /\ op \in Work
      BY DEF SignTypeOK, Login, Work
    <2> QED BY <1>2, <2>1, Loading DEF LoadLogin
  <1>3. ASSUME NEW s \in Session, AbortKnock(s)
        PROVE  SignIInv'
    BY <1>3, Elsewhere, BlankLogin DEF AbortKnock, Ends, SignTypeOK
  <1>4. CASE Tick
    BY <1>4, Elsewhere DEF Tick, SignTypeOK
  <1>5. CASE Crash
    BY <1>5, Elsewhere, BlankLogin DEF Crash, SignTypeOK
  <1>6. CASE UNCHANGED signVars
    BY <1>6, Elsewhere DEF signVars, SignTypeOK
  <1> QED
    BY <1>1, <1>2, <1>3, <1>4, <1>5, <1>6, AuthenticateStep, ChangeStep, OfficeStep, RowStep
       DEF SignNext

LEMMA SignInvariance == SignSpec => []SignIInv
  BY SignInvInit, SignInvStep, PTL DEF SignSpec

\* A password the office handed out opens nothing but the password screen, however often
\* the login is closed, opened, reset and tried, as long as one request at a time has it.
THEOREM TemporaryIsAlwaysReplaced == SignSpec => []TemporaryIsReplaced
  <1>1. SignIInv => TemporaryIsReplaced
    BY DEF SignIInv, MustReplace, TemporaryIsReplaced
  <1> QED BY <1>1, SignInvariance, PTL

\* Any stretch of the lockout's length answers no more wrong guesses than it takes to
\* lock, whatever those are and whenever the process restarts.
THEOREM LockoutAlwaysHolds == SignSpec => []LockoutHolds
  <1>1. SignIInv => LockoutHolds
    BY DEF SignIInv, Spaced, LockoutHolds
  <1> QED BY <1>1, SignInvariance, PTL

-----------------------------------------------------------------------------
(* The register of regulated goods *)

\* A register is not there, open or closed; a line is not written, gone, or of an invoice.
Registers == [client : Client, at : {"open", "closed"}] \cup {NoRecord}

Lines == [invoice : Invoice, qty : Nat \ {0}] \cup {[invoice |-> 0, qty |-> 0], GoneLine}

BooksOfRecord ==
    /\ record \in [Record -> Registers]
    /\ DOMAIN printed = Record
    /\ line \in [Line -> Lines]
    /\ filed \in [Line -> Record \cup {0}]
    /\ invoice \in [Invoice -> [client : Client \cup {0, -1}, returned : Nat]]
    /\ DOMAIN clerk = Session

\* A register a request holds is there and of its customer; a closed one is on record.
HoldsRecord(k) ==
    /\ k.record \in Record /\ record[k.record] # NoRecord
    /\ record[k.record].client = k.client
    /\ record[k.record].at = "closed" => k.record \in late

\* What a request has in hand.
Selling(k) ==
    /\ k.op \in {"create", "edit"} /\ k.client \in Client /\ k.target \in Invoice
    /\ k.rows \in Seq(Nat \ {0})
    /\ \A l \in Line : l \in k.held => line[l].invoice # 0
    /\ k.record # 0 => HoldsRecord(k)

Untagging(k) ==
    /\ k.op = "untag" /\ HoldsRecord(k) /\ k.target \in Line
    /\ line[k.target].invoice # 0 /\ filed[k.target] \in {0, k.record}

Taxing(k) ==
    /\ k.op = "taxes" /\ HoldsRecord(k)
    /\ k.record \notin late => k.held = printed[k.record]

Closing(k) == k.op = "close" /\ HoldsRecord(k)

InHand(k) == k = NoClerk \/ Selling(k) \/ Untagging(k) \/ Taxing(k) \/ Closing(k)

\* A line that is filed is an invoice's, and its register is there.
FiledLive == \A l \in Line : filed[l] # 0 => line[l].invoice \in Invoice /\ record[filed[l]] # NoRecord

OneEach == \A q, r \in Record :
    record[q].at = "open" /\ record[r].at = "open" /\ record[q].client = record[r].client => q = r

RegisterIInv ==
    /\ BooksOfRecord /\ OneEach /\ FiledLive /\ TaxesOnce
    /\ \A s \in Session : InHand(clerk[s])

-----------------------------------------------------------------------------
(* What a register declares *)

LEMMA Division ==
    ASSUME NEW a \in Nat, NEW b \in Nat \ {0}
    PROVE  /\ a \div b \in Nat /\ (a % b) \in Nat
           /\ a = b * (a \div b) + (a % b) /\ (a % b) < b
  OBVIOUS

\* A share is a natural number within a half of the quotient.
LEMMA HalfEvenNear ==
    ASSUME NEW a \in Nat, NEW b \in Nat \ {0}
    PROVE  /\ HalfEven(a, b) \in Nat
           /\ 2 * (b * HalfEven(a, b)) <= 2 * a + b
           /\ 2 * a <= 2 * (b * HalfEven(a, b)) + b
  <1> DEFINE q == a \div b
             r == a % b
  <1>1. q \in Nat /\ r \in Nat /\ a = b * q + r /\ r < b
    BY Division
  <1>2. \/ HalfEven(a, b) = q /\ 2 * r <= b
        \/ HalfEven(a, b) = q + 1 /\ 2 * r >= b
    BY <1>1 DEF HalfEven
  <1> HIDE DEF q, r
  <1>3. b * (q + 1) = b * q + b
    BY <1>1
  <1>4. b * q \in Int
    BY <1>1
  <1> QED BY <1>1, <1>2, <1>3, <1>4

LEMMA HalfEvenAbove ==
    ASSUME NEW a \in Nat, NEW b \in Nat \ {0}, NEW n \in Nat, n * b <= a
    PROVE  HalfEven(a, b) >= n
  <1> DEFINE q == a \div b
             r == a % b
  <1>1. q \in Nat /\ r \in Nat /\ a = b * q + r /\ r < b
    BY Division
  <1>2. HalfEven(a, b) = q \/ HalfEven(a, b) = q + 1
    BY DEF HalfEven
  <1> HIDE DEF q, r
  <1>3. q >= n
    <2> SUFFICES ASSUME q + 1 <= n PROVE FALSE
      BY <1>1
    <2>1. b * (q + 1) <= n * b
      BY <1>1
    <2>2. b * (q + 1) = b * q + b
      BY <1>1
    <2> QED BY <1>1, <2>1, <2>2
  <1> QED BY <1>1, <1>2, <1>3

LEMMA HalfEvenBelow ==
    ASSUME NEW a \in Nat, NEW b \in Nat \ {0}, NEW n \in Nat, a <= n * b
    PROVE  HalfEven(a, b) <= n
  <1> DEFINE q == a \div b
             r == a % b
  <1>1. q \in Nat /\ r \in Nat /\ a = b * q + r /\ r < b
    BY Division
  <1>2. \/ HalfEven(a, b) = q
        \/ HalfEven(a, b) = q + 1 /\ r > 0
    BY <1>1 DEF HalfEven
  <1> HIDE DEF q, r
  <1>3. q <= n
    <2> SUFFICES ASSUME n + 1 <= q PROVE FALSE
      BY <1>1
    <2>1. (n + 1) * b <= b * q
      BY <1>1
    <2>2. (n + 1) * b = n * b + b
      BY <1>1
    <2> QED BY <1>1, <2>1, <2>2
  <1>4. q = n => r = 0
    BY <1>1
  <1> QED BY <1>1, <1>2, <1>3, <1>4
\* The shares of what came back of n lines, S sold on them, miss it by n halves at most.
LEMMA SharesNear ==
    ASSUME NEW ls, IsFiniteSet(ls), NEW q, \A l \in ls : q[l] \in Nat \ {0},
           NEW S \in Nat \ {0}, S = SumFunctionOnSet(q, ls), NEW back \in Nat,
           NEW h, \A l \in ls : h[l] = HalfEven(back * q[l], S)
    PROVE  /\ SumFunctionOnSet(h, ls) \in Int
           /\ 2 * SumFunctionOnSet(h, ls) <= 2 * back + Cardinality(ls)
           /\ 2 * back <= 2 * SumFunctionOnSet(h, ls) + Cardinality(ls)
  <1> DEFINE one   == [l \in ls |-> 1]
             odd   == [l \in ls |-> S]
             twice == [l \in ls |-> 2 * back * q[l]]
             most  == [l \in ls |-> 2 * back * q[l] + S]
             whole == [l \in ls |-> 2 * S * h[l]]
             more  == [l \in ls |-> 2 * S * h[l] + S]
             H == SumFunctionOnSet(h, ls)
             n == Cardinality(ls)
  <1>1. \A l \in ls : /\ h[l] \in Nat
                      /\ 2 * S * h[l] <= 2 * back * q[l] + S
                      /\ 2 * back * q[l] <= 2 * S * h[l] + S
                      /\ 2 * back * q[l] \in Int /\ 2 * S * h[l] \in Int
    <2> SUFFICES ASSUME NEW l \in ls
                 PROVE  /\ h[l] \in Nat
                        /\ 2 * S * h[l] <= 2 * back * q[l] + S
                        /\ 2 * back * q[l] <= 2 * S * h[l] + S
                        /\ 2 * back * q[l] \in Int /\ 2 * S * h[l] \in Int
      OBVIOUS
    <2>1. PICK x \in Nat : x = q[l]
      OBVIOUS
    <2>2. back * x \in Nat
      OBVIOUS
    <2>3. /\ HalfEven(back * x, S) \in Nat
          /\ 2 * (S * HalfEven(back * x, S)) <= 2 * (back * x) + S
          /\ 2 * (back * x) <= 2 * (S * HalfEven(back * x, S)) + S
      BY <2>2, HalfEvenNear
    <2>4. PICK y \in Nat : y = h[l]
      BY <2>1, <2>3
    <2>5. 2 * (S * y) <= 2 * (back * x) + S /\ 2 * (back * x) <= 2 * (S * y) + S
      BY <2>1, <2>3, <2>4
    <2>6. 2 * S * y = 2 * (S * y) /\ 2 * back * x = 2 * (back * x)
      OBVIOUS
    <2>7. 2 * S * y \in Int /\ 2 * back * x \in Int
      OBVIOUS
    <2> QED BY <2>1, <2>4, <2>5, <2>6, <2>7
  <1>2. Whole(q, ls) /\ Whole(h, ls) /\ Whole(one, ls) /\ Whole(odd, ls) /\ Whole(twice, ls)
        /\ Whole(most, ls) /\ Whole(whole, ls) /\ Whole(more, ls)
    BY <1>1 DEF Whole
  <1>3. SumFunctionOnSet(one, ls) = n
    <2>1. SameTerms(one, [x \in ls |-> 1], ls)
      BY DEF SameTerms
    <2> QED BY <2>1, SumOnes
  <1>4. SumFunctionOnSet(odd, ls) = S * n
    <2>1. Times(one, odd, S, ls)
      BY DEF Times
    <2> HIDE DEF one, odd, n
    <2> QED BY <1>2, <1>3, <2>1, SumTimes
  <1>5. SumFunctionOnSet(twice, ls) = 2 * back * S
    <2>1. Times(q, twice, 2 * back, ls) /\ 2 * back \in Int
      BY DEF Times
    <2> HIDE DEF twice
    <2> QED BY <1>2, <2>1, SumTimes
  <1>6. SumFunctionOnSet(whole, ls) = 2 * S * H
    <2>1. Times(h, whole, 2 * S, ls) /\ 2 * S \in Int
      BY DEF Times
    <2> HIDE DEF whole
    <2> QED BY <1>2, <2>1, SumTimes
  <1>7. SumFunctionOnSet(most, ls) = 2 * back * S + S * n
    <2>1. Adds(twice, odd, most, ls)
      BY DEF Adds
    <2> HIDE DEF twice, odd, most, n
    <2> QED BY <1>2, <1>4, <1>5, <2>1, SumAdd
  <1>8. SumFunctionOnSet(more, ls) = 2 * S * H + S * n
    <2>1. Adds(whole, odd, more, ls)
      BY DEF Adds
    <2> HIDE DEF whole, odd, more, n, H
    <2> QED BY <1>2, <1>4, <1>6, <2>1, SumAdd
  <1>9. 2 * S * H <= 2 * back * S + S * n
    <2>1. Below(whole, most, ls)
      BY <1>1 DEF Below
    <2> HIDE DEF whole, most, n, H
    <2> QED BY <1>2, <1>6, <1>7, <2>1, SumGrows
  <1>10. 2 * back * S <= 2 * S * H + S * n
    <2>1. Below(twice, more, ls)
      BY <1>1 DEF Below
    <2> HIDE DEF twice, more, n, H
    <2> QED BY <1>2, <1>5, <1>8, <2>1, SumGrows
  <1>11. H \in Int /\ n \in Int
    BY <1>2, SumInt, FS_CardinalityType
  <1> HIDE DEF H, n
  <1>12. 2 * S * H = (2 * H) * S /\ 2 * back * S + S * n = (2 * back + n) * S
         /\ 2 * back * S = (2 * back) * S /\ 2 * S * H + S * n = (2 * H + n) * S
    BY <1>11
  <1>13. \A a, b \in Int : a * S <= b * S => a <= b
    OBVIOUS
  <1>14. 2 * H <= 2 * back + n /\ 2 * back <= 2 * H + n
    BY <1>9, <1>10, <1>11, <1>12, <1>13
  <1> QED BY <1>11, <1>14 DEF H, n

\* What is declared of lines that are all in a register, back having come back of the S sold.
LEMMA NetsNear ==
    ASSUME NEW ls, IsFiniteSet(ls), ls # {}, NEW q, \A l \in ls : q[l] \in Nat \ {0},
           NEW S, S = SumFunctionOnSet(q, ls), NEW back \in Nat,
           NEW net, \A l \in ls : net[l] = AtLeast(q[l] - HalfEven(back * q[l], S), 0)
    PROVE  2 * Distance(SumFunctionOnSet(net, ls), AtLeast(S - back, 0)) <= Cardinality(ls)
  <1>1. Whole(q, ls)
    BY DEF Whole
  <1>2. S \in Nat \ {0}
    <2>1. PICK l \in ls : TRUE
      OBVIOUS
    <2> DEFINE only == [x \in ls |-> IF x = l THEN q[l] ELSE 0]
               none == [x \in ls |-> 0]
    <2>2. Whole(only, ls) /\ Whole(none, ls) /\ SameTerms(none, only, ls \ {l}) /\ Below(only, q, ls)
      BY DEF Whole, SameTerms, Below
    <2>3. SumFunctionOnSet(none, ls) = 0
      BY SumZero DEF SameTerms
    <2>4. only[l] = q[l] /\ none[l] = 0 /\ q[l] \in Nat
      BY <2>1
    <2> HIDE DEF only, none
    <2>5. SumFunctionOnSet(only, ls) = SumFunctionOnSet(none, ls) + (only[l] - none[l])
      BY <2>1, <2>2, SumChange
    <2>6. SumFunctionOnSet(only, ls) <= S /\ S \in Int
      BY <1>1, <2>2, SumGrows, SumInt
    <2>7. q[l] \in Nat \ {0}
      BY <2>1
    <2> QED BY <2>3, <2>4, <2>5, <2>6, <2>7
  <1>3. Cardinality(ls) \in Nat
    BY FS_CardinalityType
  <1>4. CASE back >= S
    <2>1. \A l \in ls : net[l] = 0
      <3> SUFFICES ASSUME NEW l \in ls PROVE net[l] = 0
        OBVIOUS
      <3>1. PICK x \in Nat : x = q[l]
        OBVIOUS
      <3>2. x * S <= back * x /\ back * x \in Nat
        BY <1>2, <1>4
      <3>3. HalfEven(back * x, S) >= x /\ HalfEven(back * x, S) \in Nat
        BY <1>2, <3>2, HalfEvenAbove, HalfEvenNear
      <3> QED BY <3>1, <3>3 DEF AtLeast
    <2>2. SumFunctionOnSet(net, ls) = 0
      BY <2>1, SumZero DEF SameTerms
    <2> QED BY <1>2, <1>3, <1>4, <2>2 DEF Distance, AtLeast
  <1>5. CASE back < S
    <2> DEFINE h == [l \in ls |-> HalfEven(back * q[l], S)]
    <2>1. \A l \in ls : h[l] \in Nat /\ q[l] = h[l] + net[l] /\ net[l] \in Int
      <3> SUFFICES ASSUME NEW l \in ls PROVE h[l] \in Nat /\ q[l] = h[l] + net[l] /\ net[l] \in Int
        OBVIOUS
      <3>1. PICK x \in Nat : x = q[l]
        OBVIOUS
      <3>2. back * x <= x * S /\ back * x \in Nat
        BY <1>2, <1>5
      <3>3. HalfEven(back * x, S) <= x /\ HalfEven(back * x, S) \in Nat
        BY <1>2, <3>2, HalfEvenBelow, HalfEvenNear
      <3> QED BY <3>1, <3>3 DEF AtLeast
    <2>2. Whole(h, ls) /\ Whole(net, ls) /\ Adds(h, net, q, ls)
      BY <2>1 DEF Whole, Adds
    <2>3. \A l \in ls : h[l] = HalfEven(back * q[l], S)
      OBVIOUS
    <2> HIDE DEF h
    <2>4. S = SumFunctionOnSet(h, ls) + SumFunctionOnSet(net, ls)
      BY <2>2, SumAdd
    <2>5. /\ SumFunctionOnSet(h, ls) \in Int
          /\ 2 * SumFunctionOnSet(h, ls) <= 2 * back + Cardinality(ls)
          /\ 2 * back <= 2 * SumFunctionOnSet(h, ls) + Cardinality(ls)
      BY <1>2, <2>3, SharesNear
    <2>6. SumFunctionOnSet(net, ls) \in Int
      BY <2>2, SumInt
    <2> QED BY <1>2, <1>3, <1>5, <2>4, <2>5, <2>6 DEF Distance, AtLeast
  <1> QED BY <1>2, <1>4, <1>5

LEMMA LinesFinite ==
    ASSUME NEW ls \in SUBSET Line
    PROVE  IsFiniteSet(ls)
  BY RegisterAssumption, FS_Subset

\* Whatever came back, a register declares of an invoice filed whole what the shop kept.
LEMMA NetsAlwaysAddUp == BooksOfRecord => NetsAddUp
  <1> SUFFICES ASSUME BooksOfRecord, NEW r \in Record, NEW i \in Invoice,
                      LinesOf(i) # {}, LinesOf(i) \subseteq FiledIn(r)
               PROVE  2 * Distance(SumFunction([l \in LinesOf(i) |-> NetOf(l)]),
                                   AtLeast(SoldOn(LinesOf(i)) - invoice[i].returned, 0))
                        <= Cardinality(LinesOf(i))
    BY DEF NetsAddUp
  <1>1. PICK ls : ls = LinesOf(i)
    OBVIOUS
  <1> DEFINE q == [l \in Line |-> line[l].qty]
             net == [l \in ls |-> NetOf(l)]
             S == SumFunctionOnSet(q, ls)
             back == invoice[i].returned
  <1>2. IsFiniteSet(ls) /\ ls # {} /\ ls \subseteq Line
    BY <1>1, LinesFinite DEF LinesOf
  <1>3. back \in Nat /\ \A l \in ls : q[l] \in Nat \ {0}
    BY <1>1, RegisterAssumption DEF BooksOfRecord, LinesOf, Lines, GoneLine
  <1>4. \A l \in ls : net[l] = AtLeast(q[l] - HalfEven(back * q[l], S), 0)
    <2> SUFFICES ASSUME NEW l \in ls PROVE net[l] = AtLeast(q[l] - HalfEven(back * q[l], S), 0)
      OBVIOUS
    <2>1. filed[l] = r /\ line[l].invoice = i /\ l \in Line
      BY <1>1 DEF LinesOf, FiledIn
    <2>2. FiledIn(filed[l]) \cap LinesOf(line[l].invoice) = ls
      BY <1>1, <2>1
    <2>3. ShareOf(l, ls) = HalfEven(back * q[l], S)
      BY <2>1 DEF ShareOf, SoldOn
    <2>4. NetOf(l) = AtLeast(line[l].qty - ShareOf(l, ls), 0)
      BY <2>2 DEF NetOf
    <2> QED BY <2>1, <2>3, <2>4
  <1>5. SumFunction(net) = SumFunctionOnSet(net, ls)
    BY DEF SumFunction
  <1>6. 2 * Distance(SumFunctionOnSet(net, ls), AtLeast(S - back, 0)) <= Cardinality(ls)
    <2> HIDE DEF q, net, back
    <2> QED BY <1>2, <1>3, <1>4, NetsNear
  <1> QED BY <1>1, <1>5, <1>6 DEF SoldOn

-----------------------------------------------------------------------------
(* What a step leaves to the others *)

\* The id of a new register is that of one not there.
LEMMA NewRecord ==
    ASSUME NEW r, r = NextId(record, Record, NoRecord), r # 0
    PROVE  r \in Record /\ record[r] = NoRecord
  <1> DEFINE free == {q \in Record : record[q] = NoRecord}
  <1>1. Record \subseteq Nat /\ 0 \notin Record
    BY RegisterAssumption
  <1>2. free # {} /\ free \in SUBSET Nat
    BY <1>1 DEF NextId
  <1>3. PICK q \in free : \A m \in free : ~ (m < q)
    BY <1>2, LeastNatural
  <1>4. q \in Record /\ record[q] = NoRecord /\ \A m \in Record : m < q => record[m] # NoRecord
    BY <1>3
  <1> QED BY <1>4 DEF NextId

Company(k) ==
    /\ \A r \in Record : record[r] # NoRecord =>
          record'[r] # NoRecord /\ record'[r].client = record[r].client
    /\ late \subseteq late'
    /\ k.record \in Record => \/ k.record \in late'
                              \/ /\ record[k.record].at = "closed" \/ record'[k.record].at # "closed"
                                 /\ printed'[k.record] = printed[k.record]
    /\ \A l \in Line : line[l].invoice # 0 => line'[l].invoice # 0 /\ filed'[l] \in {0, filed[l]}

\* What a request has in hand it still has after a step of another.
LEMMA StillInHand ==
    ASSUME NEW k, InHand(k), Company(k)
    PROVE  InHand(k)'
  <1>1. HoldsRecord(k) => HoldsRecord(k)'
    BY DEF HoldsRecord, Company
  <1>2. CASE k = NoClerk
    BY <1>2 DEF InHand
  <1>3. CASE Selling(k)
    BY <1>1, <1>3 DEF InHand, Selling, Company
  <1>4. CASE Untagging(k)
    BY <1>1, <1>4 DEF InHand, Untagging, Company
  <1>5. CASE Taxing(k)
    BY <1>1, <1>5 DEF InHand, Taxing, Company, HoldsRecord
  <1>6. CASE Closing(k)
    BY <1>1, <1>6 DEF InHand, Closing
  <1> QED BY <1>2, <1>3, <1>4, <1>5, <1>6 DEF InHand

LEMMA OthersInHand ==
    ASSUME BooksOfRecord, BooksOfRecord', \A t \in Session : InHand(clerk[t]), NEW s \in Session,
           \A t \in Session \ {s} : clerk'[t] = clerk[t] /\ Company(clerk[t]),
           InHand(clerk[s])'
    PROVE  (\A t \in Session : InHand(clerk[t]))'
  <1> SUFFICES ASSUME NEW t \in Session, t # s PROVE InHand(clerk[t])'
    OBVIOUS
  <1>1. PICK k : k = clerk[t]
    OBVIOUS
  <1>2. InHand(k) /\ Company(k) /\ clerk'[t] = k
    BY <1>1
  <1>3. InHand(k)'
    BY <1>2, StillInHand
  <1> QED BY <1>2, <1>3

\* A step after which everything is as it was, but what a request has in hand.
Onwards(s) ==
    /\ UNCHANGED <<record, printed, line, filed, invoice, late>>
    /\ \E k : clerk' = [clerk EXCEPT ![s] = k] /\ InHand(k)

LEMMA OnwardsInv ==
    ASSUME RegisterIInv, NEW s \in Session, Onwards(s)
    PROVE  RegisterIInv' /\ Declared
  <1>1. PICK k : clerk' = [clerk EXCEPT ![s] = k] /\ InHand(k)
    BY DEF Onwards
  <1>2. UNCHANGED <<record, printed, line, filed, invoice, late>>
    BY DEF Onwards
  <1>3. BooksOfRecord'
    BY <1>1, <1>2 DEF RegisterIInv, BooksOfRecord
  <1>4. OneEach' /\ FiledLive' /\ TaxesOnce'
    BY <1>2 DEF RegisterIInv, OneEach, FiledLive, TaxesOnce
  <1>5. \A t \in Session \ {s} : clerk'[t] = clerk[t] /\ Company(clerk[t])
    BY <1>1, <1>2 DEF RegisterIInv, BooksOfRecord, Company
  <1>6. InHand(clerk[s])'
    <2>1. clerk'[s] = k
      BY <1>1 DEF RegisterIInv, BooksOfRecord
    <2>2. InHand(k)'
      BY <1>1, <1>2 DEF InHand, Selling, Untagging, Taxing, Closing, HoldsRecord
    <2> QED BY <2>1, <2>2
  <1>7. (\A t \in Session : InHand(clerk[t]))'
    BY <1>3, <1>5, <1>6, OthersInHand DEF RegisterIInv
  <1>8. Declared
    BY <1>2 DEF Declared, FiledIn
  <1> QED BY <1>3, <1>4, <1>7, <1>8 DEF RegisterIInv

LEMMA RegisterInvInit == RegisterInit => RegisterIInv
  <1> SUFFICES ASSUME RegisterInit PROVE RegisterIInv
    OBVIOUS
  <1>1. BooksOfRecord
    BY DEF RegisterInit, BooksOfRecord, Registers, Lines, NoInvoice
  <1>2. OneEach /\ FiledLive /\ TaxesOnce
    BY DEF RegisterInit, OneEach, FiledLive, TaxesOnce, NoRecord
  <1>3. \A s \in Session : InHand(clerk[s])
    BY DEF RegisterInit, InHand
  <1> QED BY <1>1, <1>2, <1>3 DEF RegisterIInv

-----------------------------------------------------------------------------
(* The steps *)

\* The statements that load: a sale is built, a register read as open, or all is given up.
LEMMA BuildIs ==
    ASSUME RegisterIInv, NEW s \in Session, NEW i \in Invoice, NEW c \in Client, NEW q \in Split,
           BuildSale(s, i, c, q)
    PROVE  Onwards(s)
  <1> DEFINE k == [op |-> IF invoice[i] = NoInvoice THEN "create" ELSE "edit",
                   client |-> c, record |-> SeenOpen(c), target |-> i,
                   rows |-> q, held |-> LinesOf(i)]
  <1>1. clerk' = [clerk EXCEPT ![s] = k] /\ UNCHANGED <<record, printed, line, filed, invoice, late>>
    BY DEF BuildSale
  <1>2. k.record # 0 => HoldsRecord(k)
    <2>1. CASE OpenOf(c) = {}
      BY <2>1 DEF SeenOpen
    <2>2. CASE OpenOf(c) # {}
      <3>1. SeenOpen(c) \in OpenOf(c)
        BY <2>2 DEF SeenOpen
      <3> QED BY <3>1 DEF HoldsRecord, OpenOf, NoRecord
    <2> QED BY <2>1, <2>2
  <1>3. Selling(k)
    BY <1>2, RegisterAssumption DEF Selling, LinesOf
  <1> HIDE DEF k
  <1> QED BY <1>1, <1>3 DEF Onwards, InHand

LEMMA LoadIs ==
    ASSUME RegisterIInv, NEW s \in Session, NEW op, NEW r \in Record, NEW l, NEW rates,
           op \in {"untag", "taxes", "close"}, op = "untag" => l \in Line,
           LoadRegister(s, op, r, l, rates)
    PROVE  Onwards(s)
  <1> DEFINE k == [op |-> op, client |-> record[r].client, record |-> r,
                   target |-> l, rows |-> rates, held |-> printed[r]]
  <1>1. clerk' = [clerk EXCEPT ![s] = k] /\ UNCHANGED <<record, printed, line, filed, invoice, late>>
    BY DEF LoadRegister
  <1>2. HoldsRecord(k)
    BY DEF LoadRegister, IsOpen, HoldsRecord, NoRecord
  <1>3. op = "untag" => line[l].invoice # 0 /\ filed[l] = r
    BY RegisterAssumption DEF LoadRegister, RegisterIInv, FiledLive
  <1>4. Untagging(k) \/ Taxing(k) \/ Closing(k)
    BY <1>2, <1>3 DEF Untagging, Taxing, Closing
  <1> HIDE DEF k
  <1> QED BY <1>1, <1>4 DEF Onwards, InHand

LEMMA AbortIs ==
    ASSUME NEW s \in Session, AbortClerk(s)
    PROVE  Onwards(s)
  BY DEF AbortClerk, Onwards, InHand

\* A register is opened where none is.
LEMMA OpenedIs ==
    ASSUME BooksOfRecord, OneEach, NEW c \in Client, NoneOpenFor(c), NEW r \in Record,
           record[r] = NoRecord, record' = Opened(r, c)
    PROVE  /\ record' \in [Record -> Registers] /\ OneEach'
           /\ record'[r] = [client |-> c, at |-> "open"]
           /\ \A q \in Record : q # r => record'[q] = record[q]
  <1>1. record' = [record EXCEPT ![r] = [client |-> c, at |-> "open"]]
    BY DEF Opened
  <1>2. [client |-> c, at |-> "open"] \in Registers
    BY DEF Registers
  <1>3. record \in [Record -> Registers]
    BY DEF BooksOfRecord
  <1>4. record' \in [Record -> Registers]
    BY <1>1, <1>2, <1>3
  <1>5. /\ record'[r] = [client |-> c, at |-> "open"]
        /\ \A q \in Record : q # r => record'[q] = record[q]
    BY <1>1, <1>3
  <1>6. \A q \in Record : record[q].at = "open" => record[q].client # c
    <2> SUFFICES ASSUME NEW q \in Record, record[q].at = "open", record[q].client = c PROVE FALSE
      OBVIOUS
    <2>1. record[q] = [client |-> c, at |-> "open"]
      BY <1>3 DEF Registers, NoRecord
    <2> QED BY <2>1 DEF NoneOpenFor, OpenOf
  <1>7. OneEach'
    BY <1>5, <1>6 DEF OneEach
  <1> QED BY <1>4, <1>5, <1>7

LEMMA ViewInv ==
    ASSUME RegisterIInv, NEW c \in Client, ViewRegister(c)
    PROVE  RegisterIInv' /\ Declared
  <1>1. PICK r : r = NextId(record, Record, NoRecord) /\ r # 0
    BY DEF ViewRegister
  <1>2. NoneOpenFor(c) /\ record' = Opened(r, c) /\ UNCHANGED <<printed, line, filed, invoice, clerk, late>>
    BY <1>1 DEF ViewRegister
  <1>3. r \in Record /\ record[r] = NoRecord
    BY <1>1, NewRecord
  <1>4. /\ record' \in [Record -> Registers] /\ OneEach'
        /\ record'[r] = [client |-> c, at |-> "open"]
        /\ \A q \in Record : q # r => record'[q] = record[q]
    BY <1>2, <1>3, OpenedIs DEF RegisterIInv
  <1>5. BooksOfRecord'
    BY <1>2, <1>4 DEF RegisterIInv, BooksOfRecord
  <1>6. FiledLive' /\ TaxesOnce'
    <2>1. \A q \in Record : record[q] # NoRecord => record'[q] # NoRecord
      BY <1>3, <1>4
    <2>2. FiledLive'
      BY <1>2, <2>1 DEF RegisterIInv, FiledLive, BooksOfRecord
    <2>3. TaxesOnce'
      BY <1>2 DEF RegisterIInv, TaxesOnce
    <2> QED BY <2>2, <2>3
  <1>7. (\A t \in Session : InHand(clerk[t]))'
    <2> SUFFICES ASSUME NEW t \in Session PROVE InHand(clerk[t])'
      OBVIOUS
    <2>1. PICK k : k = clerk[t]
      OBVIOUS
    <2>2. Company(k)
      <3>1. \A q \in Record : record[q] # NoRecord => record'[q] = record[q]
        BY <1>3, <1>4
      <3>2. \A q \in Record : record[q].at = "closed" \/ record'[q].at # "closed"
        BY <1>3, <1>4
      <3> QED BY <1>2, <3>1, <3>2 DEF Company
    <2>3. InHand(k)'
      BY <2>1, <2>2, StillInHand DEF RegisterIInv
    <2> QED BY <1>2, <2>1, <2>3
  <1>8. Declared
    <2>1. \A q \in Record : record[q].at = "closed" => record'[q] = record[q]
      BY <1>3, <1>4 DEF NoRecord
    <2> QED BY <1>2, <2>1 DEF Declared, FiledIn
  <1> QED BY <1>4, <1>5, <1>6, <1>7, <1>8 DEF RegisterIInv

\* A step on invoices and lines alone: lines go, and nothing is filed.
Leaves ==
    /\ UNCHANGED <<record, printed, clerk, late>>
    /\ \A l \in Line : \/ line'[l] = line[l] /\ filed'[l] = filed[l]
                       \/ line'[l] = GoneLine /\ filed'[l] = 0 /\ line[l].invoice \in Invoice

LEMMA LeavesInv ==
    ASSUME RegisterIInv, BooksOfRecord', Leaves
    PROVE  RegisterIInv' /\ Declared
  <1>1. UNCHANGED <<record, printed, clerk, late>>
    BY DEF Leaves
  <1>2. OneEach' /\ TaxesOnce'
    BY <1>1 DEF RegisterIInv, OneEach, TaxesOnce
  <1>3. FiledLive'
    BY <1>1 DEF RegisterIInv, FiledLive, Leaves
  <1>4. (\A t \in Session : InHand(clerk[t]))'
    <2> SUFFICES ASSUME NEW t \in Session PROVE InHand(clerk[t])'
      OBVIOUS
    <2>1. PICK k : k = clerk[t]
      OBVIOUS
    <2>2. Company(k)
      <3>1. \A l \in Line : line[l].invoice # 0 => line'[l].invoice # 0 /\ filed'[l] \in {0, filed[l]}
        BY DEF Leaves, GoneLine
      <3>2. \A r \in Record : record[r].at = "closed" \/ record'[r].at # "closed"
        BY <1>1
      <3> QED BY <1>1, <3>1, <3>2 DEF Company
    <2>3. InHand(k)'
      BY <2>1, <2>2, StillInHand DEF RegisterIInv
    <2> QED BY <1>1, <2>1, <2>3
  <1>5. Declared
    <2> SUFFICES ASSUME NEW r \in Record
                 PROVE  /\ FiledIn(r)' \subseteq FiledIn(r)
                        /\ \A l \in FiledIn(r) \ FiledIn(r)' : line'[l].invoice = -1
      BY <1>1 DEF Declared
    <2>1. r # 0
      BY RegisterAssumption
    <2>2. FiledIn(r)' \subseteq FiledIn(r)
      BY <2>1 DEF FiledIn, Leaves
    <2>3. \A l \in FiledIn(r) \ FiledIn(r)' : line'[l].invoice = -1
      BY <2>1 DEF FiledIn, Leaves, GoneLine
    <2> QED BY <2>2, <2>3
  <1> QED BY <1>2, <1>3, <1>4, <1>5 DEF RegisterIInv

LEMMA DeleteInv ==
    ASSUME RegisterIInv, NEW i \in Invoice, DeleteSale(i)
    PROVE  RegisterIInv' /\ Declared
  <1>1. BooksOfRecord'
    <2>1. line' \in [Line -> Lines] /\ filed' \in [Line -> Record \cup {0}]
      BY DEF RegisterIInv, BooksOfRecord, DeleteSale, Lines
    <2>2. invoice' \in [Invoice -> [client : Client \cup {0, -1}, returned : Nat]]
      BY DEF RegisterIInv, BooksOfRecord, DeleteSale
    <2> QED BY <2>1, <2>2 DEF RegisterIInv, BooksOfRecord, DeleteSale
  <1>2. Leaves
    BY DEF DeleteSale, Leaves, LinesOf, RegisterIInv, BooksOfRecord
  <1> QED BY <1>1, <1>2, LeavesInv

LEMMA ReturnInv ==
    ASSUME RegisterIInv, NEW i \in Invoice, NEW by \in {1, -1}, PostReturn(i, by)
    PROVE  RegisterIInv' /\ Declared
  <1>1. BooksOfRecord'
    <2>1. invoice[i].returned + by \in Nat
      BY DEF PostReturn, RegisterIInv, BooksOfRecord
    <2>2. invoice' \in [Invoice -> [client : Client \cup {0, -1}, returned : Nat]]
      BY <2>1 DEF RegisterIInv, BooksOfRecord, PostReturn
    <2> QED BY <2>2 DEF RegisterIInv, BooksOfRecord, PostReturn
  <1>2. Leaves
    BY DEF PostReturn, Leaves
  <1> QED BY <1>1, <1>2, LeavesInv

\* A step of a request that then is done.
LEMMA DoneInHand ==
    ASSUME BooksOfRecord, BooksOfRecord', \A t \in Session : InHand(clerk[t]), NEW s \in Session,
           clerk' = [clerk EXCEPT ![s] = NoClerk], \A t \in Session \ {s} : Company(clerk[t])
    PROVE  (\A t \in Session : InHand(clerk[t]))'
  <1>1. \A t \in Session \ {s} : clerk'[t] = clerk[t]
    BY DEF BooksOfRecord
  <1>2. InHand(clerk[s])'
    BY DEF BooksOfRecord, InHand
  <1> QED BY <1>1, <1>2, OthersInHand

LEMMA UntagInv ==
    ASSUME RegisterIInv, NEW s \in Session, Untag(s)
    PROVE  RegisterIInv' /\ Declared
  <1>1. PICK k : k = clerk[s]
    OBVIOUS
  <1>2. Untagging(k)
    BY <1>1 DEF RegisterIInv, InHand, Untag, Selling, Taxing, Closing, NoClerk
  <1>3. /\ UNCHANGED <<record, printed, line, invoice, late>>
        /\ filed' = [filed EXCEPT ![k.target] = 0] /\ clerk' = [clerk EXCEPT ![s] = NoClerk]
    BY <1>1 DEF Untag
  <1>4. k.target \in Line /\ k.record \in Record /\ filed[k.target] \in {0, k.record}
    BY <1>2 DEF Untagging, HoldsRecord
  <1>5. /\ filed' \in [Line -> Record \cup {0}]
        /\ \A l \in Line : filed'[l] = IF l = k.target THEN 0 ELSE filed[l]
    BY <1>3, <1>4 DEF RegisterIInv, BooksOfRecord
  <1>6. BooksOfRecord'
    BY <1>3, <1>5 DEF RegisterIInv, BooksOfRecord
  <1>7. OneEach' /\ TaxesOnce'
    BY <1>3 DEF RegisterIInv, OneEach, TaxesOnce
  <1>8. FiledLive'
    BY <1>3, <1>5 DEF RegisterIInv, FiledLive
  <1>9. \A t \in Session \ {s} : Company(clerk[t])
    BY <1>3, <1>5 DEF Company
  <1>10. (\A t \in Session : InHand(clerk[t]))'
    BY <1>3, <1>6, <1>9, DoneInHand DEF RegisterIInv
  <1>11. Declared
    <2> SUFFICES ASSUME NEW r \in Record \ late, record[r].at = "closed"
                 PROVE  FiledIn(r)' = FiledIn(r)
      BY <1>3 DEF Declared
    <2>1. k.record # r /\ r # 0
      BY <1>2, RegisterAssumption DEF Untagging, HoldsRecord
    <2> QED BY <1>4, <1>5, <2>1 DEF FiledIn
  <1> QED BY <1>6, <1>7, <1>8, <1>10, <1>11 DEF RegisterIInv

\* Whoever holds a register another writes the taxes of, or closes, is on record.
LEMMA HolderIsTouched ==
    ASSUME NEW s \in Session, NEW t \in Session \ {s}, NEW rs, clerk[t].record \in rs
    PROVE  clerk[t].record \in Touched(s, rs)
  BY DEF Touched

LEMMA TaxesInv ==
    ASSUME RegisterIInv, NEW s \in Session, SetTaxes(s)
    PROVE  RegisterIInv' /\ Declared
  <1>1. PICK k : k = clerk[s]
    OBVIOUS
  <1>2. Taxing(k)
    BY <1>1 DEF RegisterIInv, InHand, SetTaxes, Selling, Untagging, Closing, NoClerk
  <1>3. /\ UNCHANGED <<record, line, filed, invoice>>
        /\ printed' = [printed EXCEPT ![k.record] = ReplaceTaxes(s, k.record)]
        /\ late' = late \cup Touched(s, {k.record}) /\ clerk' = [clerk EXCEPT ![s] = NoClerk]
    BY <1>1 DEF SetTaxes
  <1>4. k.record \in Record /\ (record[k.record].at = "closed" => k.record \in late)
        /\ (k.record \notin late => k.held = printed[k.record])
    BY <1>2 DEF Taxing, HoldsRecord
  <1>5. /\ DOMAIN printed' = Record
        /\ \A r \in Record : printed'[r] = IF r = k.record THEN ReplaceTaxes(s, r) ELSE printed[r]
    BY <1>3, <1>4 DEF RegisterIInv, BooksOfRecord
  <1>6. BooksOfRecord'
    BY <1>3, <1>5 DEF RegisterIInv, BooksOfRecord
  <1>7. OneEach' /\ FiledLive'
    BY <1>3 DEF RegisterIInv, OneEach, FiledLive
  <1>8. TaxesOnce'
    <2> SUFFICES ASSUME NEW r \in Record, r \notin late', NEW a \in printed'[r], NEW b \in printed'[r],
                        a[1] = b[1]
                 PROVE  a = b
      BY DEF TaxesOnce
    <2>1. CASE r # k.record
      <3>1. a \in printed[r] /\ b \in printed[r] /\ r \notin late
        BY <1>3, <1>5, <2>1
      <3> QED BY <3>1 DEF RegisterIInv, TaxesOnce
    <2>2. CASE r = k.record
      <3>1. k.held = printed[r]
        BY <1>3, <1>4, <2>2
      <3>2. printed'[r] = {<<t, NextWriting(r)>> : t \in k.rows}
        BY <1>1, <1>5, <2>2, <3>1 DEF ReplaceTaxes
      <3>3. PICK w : w = NextWriting(r)
        OBVIOUS
      <3>4. PICK t : a = <<t, w>>
        BY <3>2, <3>3
      <3>5. PICK u : b = <<u, w>>
        BY <3>2, <3>3
      <3> QED BY <3>4, <3>5
    <2> QED BY <2>1, <2>2
  <1>9. \A t \in Session \ {s} : Company(clerk[t])
    <2> SUFFICES ASSUME NEW t \in Session \ {s} PROVE Company(clerk[t])
      OBVIOUS
    <2>1. clerk[t].record = k.record => clerk[t].record \in late'
      BY <1>3, HolderIsTouched
    <2> QED BY <1>3, <1>5, <2>1 DEF Company
  <1>10. (\A t \in Session : InHand(clerk[t]))'
    BY <1>3, <1>6, <1>9, DoneInHand DEF RegisterIInv
  <1>11. Declared
    BY <1>3, <1>4, <1>5 DEF Declared, FiledIn
  <1> QED BY <1>6, <1>7, <1>8, <1>10, <1>11 DEF RegisterIInv

\* The register a closing goes on with.
NextAfter(k) ==
    LET others == OpenOf(k.client) \ {k.record}
    IN  IF others = {} THEN NextId(record, Record, NoRecord) ELSE CHOOSE n \in others : TRUE

LEMMA NextAfterIs ==
    ASSUME BooksOfRecord, NEW k, HoldsRecord(k), NEW n, n = NextAfter(k), n # 0
    PROVE  /\ n \in Record /\ n # k.record
           /\ \/ record[n] = NoRecord /\ OpenOf(k.client) \subseteq {k.record}
              \/ record[n] = [client |-> k.client, at |-> "open"]
  <1> DEFINE others == OpenOf(k.client) \ {k.record}
  <1>1. CASE others = {}
    <2>1. n = NextId(record, Record, NoRecord)
      BY <1>1 DEF NextAfter
    <2>2. n \in Record /\ record[n] = NoRecord
      BY <2>1, NewRecord
    <2> QED BY <1>1, <2>2 DEF HoldsRecord
  <1>2. CASE others # {}
    <2>1. n \in others
      BY <1>2 DEF NextAfter
    <2> QED BY <2>1 DEF OpenOf
  <1> QED BY <1>1, <1>2

LEMMA CloseInv ==
    ASSUME RegisterIInv, NEW s \in Session, CloseRegister(s)
    PROVE  RegisterIInv' /\ Declared
  <1>1. PICK k : k = clerk[s]
    OBVIOUS
  <1>2. HoldsRecord(k)
    BY <1>1 DEF RegisterIInv, InHand, CloseRegister, Selling, Untagging, Taxing, Closing, NoClerk
  <1>3. PICK n : n = NextAfter(k)
    OBVIOUS
  <1>4. PICK r : r = k.record
    OBVIOUS
  <1>5. /\ n # 0
        /\ record' = [record EXCEPT ![r].at = "closed", ![n] = [client |-> k.client, at |-> "open"]]
        /\ printed' = IF printed[r] = {} THEN printed
                      ELSE [printed EXCEPT ![n] = {<<row[1], NextWriting(n)>> : row \in printed[r]}]
        /\ late' = late \cup Touched(s, {r, n})
        /\ clerk' = [clerk EXCEPT ![s] = NoClerk]
        /\ UNCHANGED <<line, filed, invoice>>
    BY <1>1, <1>3, <1>4 DEF CloseRegister, NextAfter
  <1>6. /\ n \in Record /\ n # r
        /\ \/ record[n] = NoRecord /\ OpenOf(k.client) \subseteq {r}
           \/ record[n] = [client |-> k.client, at |-> "open"]
    BY <1>2, <1>3, <1>4, <1>5, NextAfterIs DEF RegisterIInv
  <1>7. /\ r \in Record /\ record[r].client = k.client /\ k.client \in Client
        /\ record[r].at = "closed" => r \in late
    BY <1>2, <1>4 DEF HoldsRecord, RegisterIInv, BooksOfRecord, Registers
  <1>8. /\ record' \in [Record -> Registers]
        /\ \A q \in Record : record'[q] = IF q = n THEN [client |-> k.client, at |-> "open"]
                                          ELSE IF q = r THEN [client |-> k.client, at |-> "closed"]
                                          ELSE record[q]
    <2>1. record \in [Record -> Registers]
      BY DEF RegisterIInv, BooksOfRecord
    <2>2. record[r] = [client |-> k.client, at |-> record[r].at]
      BY <1>7, <2>1 DEF Registers, NoRecord
    <2>3. [record[r] EXCEPT !.at = "closed"] = [client |-> k.client, at |-> "closed"]
      BY <2>2
    <2>4. [client |-> k.client, at |-> "closed"] \in Registers
          /\ [client |-> k.client, at |-> "open"] \in Registers
      BY <1>7 DEF Registers
    <2> QED BY <1>5, <1>6, <1>7, <2>1, <2>3, <2>4
  <1>9. BooksOfRecord'
    BY <1>5, <1>8 DEF RegisterIInv, BooksOfRecord
  <1>10. OneEach'
    <2> SUFFICES ASSUME NEW q \in Record, q # n, record'[q].at = "open", record'[q].client = k.client
                 PROVE  FALSE
      BY <1>6, <1>8 DEF RegisterIInv, OneEach
    <2>1. q # r /\ record[q] = record'[q]
      BY <1>8
    <2>2. record[q] = [client |-> k.client, at |-> "open"]
      BY <2>1 DEF RegisterIInv, BooksOfRecord, Registers, NoRecord
    <2>3. q \in OpenOf(k.client)
      BY <2>2 DEF OpenOf
    <2> QED BY <1>6, <2>1, <2>2, <2>3 DEF RegisterIInv, OneEach
  <1>11. \A q \in Record : record[q] # NoRecord => record'[q] # NoRecord
    BY <1>8 DEF NoRecord
  <1>12. FiledLive'
    BY <1>5, <1>11 DEF RegisterIInv, FiledLive, BooksOfRecord
  <1>13. \A q \in Record : q # n => printed'[q] = printed[q]
    BY <1>5 DEF RegisterIInv, BooksOfRecord
  <1>14. TaxesOnce'
    <2> SUFFICES ASSUME NEW q \in Record, q \notin late', NEW a \in printed'[q], NEW b \in printed'[q],
                        a[1] = b[1]
                 PROVE  a = b
      BY DEF TaxesOnce
    <2>1. CASE printed'[q] = printed[q]
      BY <1>5, <2>1 DEF RegisterIInv, TaxesOnce
    <2>2. CASE printed'[q] # printed[q]
      <3>1. q = n /\ printed'[n] = {<<row[1], NextWriting(n)>> : row \in printed[r]}
        BY <1>5, <1>6, <1>13, <2>2 DEF RegisterIInv, BooksOfRecord
      <3>2. PICK w : w = NextWriting(n)
        OBVIOUS
      <3>3. PICK t : a = <<t, w>>
        BY <3>1, <3>2
      <3>4. PICK u : b = <<u, w>>
        BY <3>1, <3>2
      <3> QED BY <3>3, <3>4
    <2> QED BY <2>1, <2>2
  <1>15. \A t \in Session \ {s} : Company(clerk[t])
    <2> SUFFICES ASSUME NEW t \in Session \ {s} PROVE Company(clerk[t])
      OBVIOUS
    <2>1. clerk[t].record \in {r, n} => clerk[t].record \in late'
      BY <1>5, HolderIsTouched
    <2>2. \A q \in Record : record[q] # NoRecord => record'[q].client = record[q].client
      BY <1>6, <1>7, <1>8
    <2>3. \A q \in Record \ {r, n} : record'[q] = record[q] /\ printed'[q] = printed[q]
      BY <1>8, <1>13
    <2> QED BY <1>5, <1>11, <2>1, <2>2, <2>3 DEF Company
  <1>16. (\A t \in Session : InHand(clerk[t]))'
    BY <1>5, <1>9, <1>15, DoneInHand DEF RegisterIInv
  <1>17. Declared
    <2>1. \A q \in Record \ late : record[q].at = "closed" => q # r /\ q # n
      BY <1>6, <1>7 DEF NoRecord
    <2> QED BY <1>5, <1>8, <1>13, <2>1 DEF Declared, FiledIn
  <1> QED BY <1>9, <1>10, <1>12, <1>14, <1>16, <1>17 DEF RegisterIInv

\* The new lines are not written yet, and there is a quantity for each.
LEMMA NewLinesAre ==
    ASSUME NEW rows \in Seq(Nat \ {0}), NEW new, new = NextLines(Len(rows)),
           Cardinality(new) = Len(rows), NEW l \in new
    PROVE  /\ l \in Line /\ line[l].invoice = 0
           /\ rows[Cardinality({m \in new : m <= l})] \in Nat \ {0}
  <1>1. new \subseteq Line /\ l \in Line /\ line[l].invoice = 0 /\ l <= l
    BY RegisterAssumption DEF NextLines
  <1> DEFINE upTo == {m \in new : m <= l}
  <1>2. IsFiniteSet(new) /\ upTo \subseteq new /\ l \in upTo
    BY <1>1, LinesFinite
  <1> HIDE DEF upTo
  <1>3. /\ IsFiniteSet(upTo) /\ Cardinality(upTo) <= Cardinality(new)
        /\ Cardinality(upTo) \in Nat /\ Cardinality(upTo) # 0
    BY <1>2, FS_Subset, FS_CardinalityType, FS_EmptySet
  <1>4. Cardinality(upTo) \in 1..Len(rows)
    BY <1>3
  <1>5. rows[Cardinality(upTo)] \in Nat \ {0}
    BY <1>4
  <1> QED BY <1>1, <1>5 DEF upTo

LEMMA FileInv ==
    ASSUME RegisterIInv, NEW s \in Session, NEW r \in Record, FileSale(s, r)
    PROVE  RegisterIInv' /\ Declared
  <1>1. PICK k : k = clerk[s]
    OBVIOUS
  <1>2. Selling(k)
    BY <1>1 DEF RegisterIInv, InHand, FileSale, Untagging, Taxing, Closing, NoClerk
  <1>3. PICK new : new = NextLines(Len(k.rows))
    OBVIOUS
  <1> DEFINE nth(l) == Cardinality({m \in new : m <= l})
  <1>4. /\ Cardinality(new) = Len(k.rows) /\ Settles(s, r)
        /\ record' = Opened(r, k.client)
        /\ line' = [l \in Line |->
                      CASE l \in new -> [invoice |-> k.target,
                                         qty |-> k.rows[nth(l)]]
                        [] l \in k.held -> GoneLine
                        [] OTHER -> line[l]]
        /\ filed' = [l \in Line |-> IF l \in new THEN r ELSE IF l \in k.held THEN 0 ELSE filed[l]]
        /\ invoice' = [invoice EXCEPT ![k.target].client = k.client]
        /\ clerk' = [clerk EXCEPT ![s] = NoClerk]
        /\ UNCHANGED <<printed, late>>
    BY <1>1, <1>3 DEF FileSale
  <1>5. k.client \in Client /\ k.target \in Invoice /\ k.rows \in Seq(Nat \ {0})
        /\ (k.record # 0 => HoldsRecord(k))
    BY <1>2 DEF Selling
  <1>6. \A l \in new : /\ l \in Line /\ line[l].invoice = 0
                       /\ k.rows[nth(l)] \in Nat \ {0}
    BY <1>3, <1>4, <1>5, NewLinesAre
  <1> HIDE DEF nth
  <1>7. \/ k.record = 0 /\ NoneOpenFor(k.client) /\ record[r] = NoRecord
        \/ k.record = r /\ HoldsRecord(k)
    BY <1>1, <1>4, <1>5, NewRecord, RegisterAssumption DEF Settles
  \* The register filed under is there; a closed one is on record.
  <1>8. /\ record' \in [Record -> Registers] /\ OneEach' /\ record'[r] # NoRecord
        /\ record'[r].at = "closed" => r \in late
        /\ \A q \in Record : record[q] = NoRecord \/ record'[q] = record[q]
        /\ \A q \in Record : record[q].at = "closed" \/ record'[q].at # "closed"
        /\ record[r].at = "closed" => r \in late
    <2>1. CASE k.record = 0 /\ NoneOpenFor(k.client) /\ record[r] = NoRecord
      <3>1. /\ record' \in [Record -> Registers] /\ OneEach'
            /\ record'[r] = [client |-> k.client, at |-> "open"]
            /\ \A q \in Record : q # r => record'[q] = record[q]
        BY <1>4, <1>5, <2>1, OpenedIs DEF RegisterIInv
      <3> QED BY <2>1, <3>1 DEF NoRecord
    <2>2. CASE k.record = r /\ HoldsRecord(k)
      <3>1. record' = record /\ record[r] # NoRecord /\ (record[r].at = "closed" => r \in late)
        BY <1>4, <2>2 DEF HoldsRecord, Opened
      <3> QED BY <3>1 DEF RegisterIInv, BooksOfRecord, OneEach
    <2> QED BY <1>7, <2>1, <2>2
  <1>9. \A l \in Line :
           \/ /\ line'[l].invoice = k.target /\ line'[l] \in Lines /\ filed'[l] = r
              /\ line[l].invoice = 0
           \/ line'[l] = GoneLine /\ filed'[l] = 0
           \/ line'[l] = line[l] /\ filed'[l] = filed[l]
    <2> SUFFICES ASSUME NEW l \in Line
                 PROVE  \/ /\ line'[l].invoice = k.target /\ line'[l] \in Lines /\ filed'[l] = r
                           /\ line[l].invoice = 0
                        \/ line'[l] = GoneLine /\ filed'[l] = 0
                        \/ line'[l] = line[l] /\ filed'[l] = filed[l]
      OBVIOUS
    <2>1. CASE l \in new
      <3>1. PICK x \in Nat \ {0} : x = k.rows[nth(l)]
        BY <1>6, <2>1
      <3>2. filed'[l] = r
        BY <1>4, <2>1
      <3>4. line'[l] = [invoice |-> k.target, qty |-> k.rows[nth(l)]]
        <4>1. line'[l] = CASE l \in new -> [invoice |-> k.target, qty |-> k.rows[nth(l)]]
                           [] l \in k.held -> GoneLine
                           [] OTHER -> line[l]
          BY <1>4, Zenon
        <4>2. l \notin k.held
          BY <1>2, <1>6, <2>1 DEF Selling
        <4> QED BY <2>1, <4>1, <4>2
      <3>3. [invoice |-> k.target, qty |-> x] \in Lines
        BY <1>5 DEF Lines
      <3> QED BY <1>6, <2>1, <3>1, <3>2, <3>3, <3>4
    <2>2. CASE l \notin new /\ l \in k.held
      BY <1>4, <2>2
    <2>3. CASE l \notin new /\ l \notin k.held
      BY <1>4, <2>3
    <2> QED BY <2>1, <2>2, <2>3
  <1>10. BooksOfRecord'
    <2>1. line' \in [Line -> Lines]
      <3>1. \A l \in Line : line'[l] \in Lines
        BY <1>9 DEF RegisterIInv, BooksOfRecord, Lines
      <3> QED BY <1>4, <3>1
    <2>2. filed' \in [Line -> Record \cup {0}]
      BY <1>4 DEF RegisterIInv, BooksOfRecord
    <2>3. invoice' \in [Invoice -> [client : Client \cup {0, -1}, returned : Nat]]
      BY <1>4, <1>5 DEF RegisterIInv, BooksOfRecord
    <2> QED BY <1>4, <1>8, <2>1, <2>2, <2>3 DEF RegisterIInv, BooksOfRecord
  <1>11. FiledLive'
    <2> SUFFICES ASSUME NEW l \in Line, filed'[l] # 0
                 PROVE  line'[l].invoice \in Invoice /\ record'[filed'[l]] # NoRecord
      BY DEF FiledLive
    <2>1. CASE line'[l].invoice = k.target /\ filed'[l] = r
      BY <1>5, <1>8, <2>1
    <2>2. CASE line'[l] = line[l] /\ filed'[l] = filed[l]
      <3>1. filed'[l] = filed[l] /\ line'[l] = line[l]
        BY <2>2
      <3>2. filed[l] \in Record /\ line[l].invoice \in Invoice /\ record[filed[l]] # NoRecord
        BY <3>1 DEF RegisterIInv, FiledLive, BooksOfRecord
      <3> QED BY <1>8, <3>1, <3>2
    <2> QED BY <1>9, <2>1, <2>2
  <1>12. TaxesOnce'
    BY <1>4 DEF RegisterIInv, TaxesOnce
  <1>13. \A t \in Session \ {s} : Company(clerk[t])
    <2> SUFFICES ASSUME NEW t \in Session \ {s} PROVE Company(clerk[t])
      OBVIOUS
    <2>1. \A l \in Line : line[l].invoice # 0 => line'[l].invoice # 0 /\ filed'[l] \in {0, filed[l]}
      <3>1. GoneLine.invoice # 0
        BY DEF GoneLine
      <3> QED BY <1>9, <3>1
    <2>2. \A q \in Record : record[q] # NoRecord =>
              record'[q] # NoRecord /\ record'[q].client = record[q].client
      BY <1>8
    <2> QED BY <1>4, <1>8, <2>1, <2>2 DEF Company
  <1>14. (\A t \in Session : InHand(clerk[t]))'
    BY <1>4, <1>10, <1>13, DoneInHand DEF RegisterIInv
  <1>15. Declared
    <2> SUFFICES ASSUME NEW q \in Record \ late, record[q].at = "closed"
                 PROVE  /\ record'[q].at = "closed" /\ FiledIn(q)' \subseteq FiledIn(q)
                        /\ \A l \in FiledIn(q) \ FiledIn(q)' : line'[l].invoice = -1
      BY <1>4 DEF Declared
    <2>1. q # r /\ q # 0 /\ record'[q] = record[q]
      BY <1>8, RegisterAssumption DEF NoRecord
    <2>2. FiledIn(q)' \subseteq FiledIn(q)
      BY <1>9, <2>1 DEF FiledIn
    <2>3. ASSUME NEW l \in FiledIn(q), l \notin FiledIn(q)' PROVE line'[l].invoice = -1
      <3>1. l \in Line /\ filed[l] = q /\ filed'[l] # q
        BY <2>3 DEF FiledIn
      <3>2. line[l].invoice # 0
        BY <2>1, <3>1, RegisterAssumption DEF RegisterIInv, FiledLive
      <3> QED BY <1>9, <3>1, <3>2 DEF GoneLine
    <2> QED BY <2>1, <2>2, <2>3
  <1> QED BY <1>8, <1>10, <1>11, <1>12, <1>14, <1>15 DEF RegisterIInv

LEMMA RegisterStutters ==
    ASSUME RegisterIInv, UNCHANGED registerVars
    PROVE  RegisterIInv' /\ Declared
  BY DEF registerVars, RegisterIInv, BooksOfRecord, OneEach, FiledLive, TaxesOnce, InHand, Selling,
         Untagging, Taxing, Closing, HoldsRecord, Declared, FiledIn

LEMMA RegisterInvStep == RegisterIInv /\ [RegisterNext]_registerVars => RegisterIInv' /\ Declared
  <1> SUFFICES ASSUME RegisterIInv, [RegisterNext]_registerVars PROVE RegisterIInv' /\ Declared
    OBVIOUS
  <1>1. CASE UNCHANGED registerVars
    BY <1>1, RegisterStutters
  <1>2. ASSUME NEW c \in Client, ViewRegister(c) PROVE RegisterIInv' /\ Declared
    BY <1>2, ViewInv
  <1>3. ASSUME NEW i \in Invoice, DeleteSale(i) PROVE RegisterIInv' /\ Declared
    BY <1>3, DeleteInv
  <1>4. ASSUME NEW i \in Invoice, PostReturn(i, 1) \/ PostReturn(i, -1) PROVE RegisterIInv' /\ Declared
    BY <1>4, ReturnInv
  <1>5. ASSUME NEW s \in Session, Untag(s) PROVE RegisterIInv' /\ Declared
    BY <1>5, UntagInv
  <1>6. ASSUME NEW s \in Session, SetTaxes(s) PROVE RegisterIInv' /\ Declared
    BY <1>6, TaxesInv
  <1>7. ASSUME NEW s \in Session, CloseRegister(s) PROVE RegisterIInv' /\ Declared
    BY <1>7, CloseInv
  <1>8. ASSUME NEW s \in Session, AbortClerk(s) PROVE RegisterIInv' /\ Declared
    BY <1>8, AbortIs, OnwardsInv
  <1>9. ASSUME NEW s \in Session, NEW r \in Record, FileSale(s, r) PROVE RegisterIInv' /\ Declared
    BY <1>9, FileInv
  <1>10. ASSUME NEW s \in Session, NEW r \in Record,
                \/ LoadRegister(s, "close", r, 0, {})
                \/ \E l \in Line : LoadRegister(s, "untag", r, l, {})
                \/ \E t \in SUBSET Rate : LoadRegister(s, "taxes", r, 0, t)
         PROVE  RegisterIInv' /\ Declared
    BY <1>10, LoadIs, OnwardsInv
  <1>11. ASSUME NEW s \in Session, NEW i \in Invoice, NEW c \in Client, NEW q \in Split,
                BuildSale(s, i, c, q)
         PROVE  RegisterIInv' /\ Declared
    BY <1>11, BuildIs, OnwardsInv
  <1> QED
    BY <1>1, <1>2, <1>3, <1>4, <1>5, <1>6, <1>7, <1>8, <1>9, <1>10, <1>11
       DEF RegisterNext, RegisterStep

LEMMA RegisterInvariance == RegisterSpec => []RegisterIInv
  <1>1. RegisterIInv /\ [RegisterNext]_registerVars => RegisterIInv'
    BY RegisterInvStep
  <1> QED BY RegisterInvInit, <1>1, PTL DEF RegisterSpec

LEMMA OneOpenEach == RegisterIInv => OneOpenRegister
  <1> SUFFICES ASSUME RegisterIInv, NEW c \in Client PROVE Cardinality(OpenOf(c)) <= 1
    BY DEF OneOpenRegister
  <1>1. \A q, r \in OpenOf(c) : q = r
    BY DEF OpenOf, RegisterIInv, OneEach
  <1>2. CASE OpenOf(c) = {}
    BY <1>2, FS_EmptySet
  <1>3. CASE OpenOf(c) # {}
    <2>1. PICK r \in OpenOf(c) : TRUE
      BY <1>3
    <2>2. OpenOf(c) = {r}
      BY <1>1, <2>1
    <2>3. Cardinality(OpenOf(c)) = 1
      BY <2>2, FS_Singleton
    <2> QED BY <2>3
  <1> QED BY <1>2, <1>3

\* A customer accumulates in one register at a time, no tax is printed twice, a line that is
\* gone is declared nowhere, and what is declared of an invoice filed whole is what the shop
\* kept, to the rounding of its shares: for any sales, returns and closings at once.
THEOREM RegisterAlwaysFollows == RegisterSpec => []RegisterFollows
  <1>1. RegisterIInv => RegisterFollows
    <2> SUFFICES ASSUME RegisterIInv PROVE RegisterFollows
      OBVIOUS
    <2>1. NetsAddUp
      BY NetsAlwaysAddUp DEF RegisterIInv
    <2>2. ASSUME NEW l \in Line, filed[l] # 0
          PROVE  line[l].invoice \in Invoice /\ record[filed[l]].at # "none"
      <3>1. filed[l] \in Record /\ line[l].invoice \in Invoice /\ record[filed[l]] # NoRecord
        BY <2>2 DEF RegisterIInv, FiledLive, BooksOfRecord
      <3> QED BY <3>1 DEF RegisterIInv, BooksOfRecord, Registers
    <2> QED BY <2>1, <2>2, OneOpenEach DEF RegisterFollows, RegisterIInv
  <1> QED BY RegisterInvariance, <1>1, PTL

\* A closed register that no request held while it was closed gains nothing, keeps its taxes
\* and loses only lines that were corrected or deleted.
THEOREM DeclarationsStand == RegisterSpec => DeclaredStands
  <1>1. RegisterIInv /\ [RegisterNext]_registerVars => [Declared]_registerVars
    BY RegisterInvStep
  <1> QED BY RegisterInvariance, <1>1, PTL DEF RegisterSpec, DeclaredStands

-----------------------------------------------------------------------------
(* The brake on sign-ins *)

\* Times in the order they were added, none after now.
Chronological(times) ==
    /\ \A i, j \in 1..Len(times) : i <= j => times[i] <= times[j]
    /\ \A i \in 1..Len(times) : times[i] <= second

\* The nth entry from the end, which is what a trim at the front leaves in its place.
FromEnd(times, n) == times[Len(times) + 1 - n]

\* What was let through is remembered, from the latest on, or older than the window.
Remembered(hits, times) ==
    \A n \in 1..Len(times) :
        \/ n <= Len(hits) /\ FromEnd(hits, n) = FromEnd(times, n)
        \/ Expired(FromEnd(times, n))

\* What one source has in memory and what is remembered of it.
Sound(hits, times) ==
    /\ hits \in Seq(Nat) /\ times \in Seq(Nat)
    /\ Len(times) <= MAX_ATTEMPTS + 1
    /\ Chronological(times)
    /\ Remembered(hits, times)

\* A gap of the window between an attempt and the one so many places later.
WellSpaced(times) ==
    \A i \in 1..(Len(times) - MAX_ATTEMPTS) : times[i + MAX_ATTEMPTS] - times[i] > WINDOW_SECONDS

BrakeIInv ==
    /\ second \in Nat
    /\ DOMAIN attempts = Source /\ DOMAIN passed = Source
    /\ \A c \in Source : Sound(attempts[c], passed[c])
    /\ SignInsAreSpaced

LEMMA BrakeConstants == WINDOW_SECONDS \in Nat /\ MAX_ATTEMPTS \in Nat \ {0}
  BY BrakeAssumption

\* Taking the expired ones off the front leaves a suffix, and what went had expired.
LEMMA RecentIsSuffix ==
    ASSUME second \in Nat, NEW hits \in Seq(Nat)
    PROVE  /\ Recent(hits) \in Seq(Nat)
           /\ Len(Recent(hits)) <= Len(hits)
           /\ \A n \in 1..Len(Recent(hits)) : FromEnd(Recent(hits), n) = FromEnd(hits, n)
           /\ \A n \in 1..Len(hits) : n > Len(Recent(hits)) => Expired(FromEnd(hits, n))
  <1> DEFINE Front(i) == /\ \A j \in 1..(i - 1) : Expired(hits[j])
                         /\ i <= Len(hits) => ~Expired(hits[i])
  <1> DEFINE L == Len(hits)
  <1>0. L \in Nat /\ \A i \in 1..L : hits[i] \in Nat
    BY ElementOfSeq, LenProperties
  <1>1. \E i \in 1..(L + 1) : Front(i)
    <2> DEFINE Fresh == {i \in 1..(L + 1) : i <= L => ~Expired(hits[i])}
    <2>1. Fresh \in SUBSET Nat /\ L + 1 \in Fresh
      BY <1>0
    <2>2. PICK i \in Fresh : \A m \in Fresh : ~(m < i)
      <3> HIDE DEF Fresh
      <3> QED BY <2>1, LeastNatural
    <2>3. \A j \in 1..(i - 1) : j \notin Fresh
      BY <2>1, <2>2
    <2> QED BY <1>0, <2>3
  <1> DEFINE k == CHOOSE i \in 1..(L + 1) : Front(i)
  <1>2. k \in 1..(L + 1) /\ Front(k)
    BY <1>1
  <1>3. Recent(hits) = SubSeq(hits, k, L)
    BY DEF Recent
  <1> HIDE DEF k
  <1>4. /\ SubSeq(hits, k, L) \in Seq(Nat)
        /\ Len(SubSeq(hits, k, L)) = IF k <= L THEN L - k + 1 ELSE 0
        /\ \A i \in 1..(L - k + 1) : SubSeq(hits, k, L)[i] = hits[k + i - 1]
    <2>1. k \in Int /\ L \in Int /\ \A i \in k..L : hits[i] \in Nat
      BY <1>0, <1>2
    <2> HIDE DEF L
    <2> QED BY <2>1, SubSeqProperties
  <1>5. Len(Recent(hits)) = L - k + 1
    BY <1>0, <1>2, <1>3, <1>4
  <1>6. ASSUME NEW n \in 1..Len(Recent(hits))
        PROVE  FromEnd(Recent(hits), n) = FromEnd(hits, n)
    <2>1. n \in 1..(L - k + 1) /\ L - k + 1 + 1 - n \in 1..(L - k + 1)
      BY <1>0, <1>2, <1>5
    <2>2. Recent(hits)[L - k + 1 + 1 - n] = hits[k + (L - k + 1 + 1 - n) - 1]
      BY <1>3, <1>4, <2>1
    <2>3. k + (L - k + 1 + 1 - n) - 1 = L + 1 - n
      BY <1>0, <1>2
    <2> QED BY <1>5, <2>2, <2>3 DEF FromEnd
  <1>7. ASSUME NEW n \in 1..L, n > Len(Recent(hits))
        PROVE  Expired(FromEnd(hits, n))
    <2>1. L + 1 - n \in 1..(k - 1)
      BY <1>0, <1>2, <1>5, <1>7
    <2> QED BY <1>2, <2>1 DEF FromEnd
  <1> QED BY <1>0, <1>2, <1>3, <1>4, <1>5, <1>6, <1>7

\* A newest entry added to both: the entries before move one place from the end.
LEMMA AppendFromEnd ==
    ASSUME NEW s \in Seq(Nat), NEW t \in Nat
    PROVE  /\ Append(s, t) \in Seq(Nat) /\ Len(Append(s, t)) = Len(s) + 1
           /\ FromEnd(Append(s, t), 1) = t
           /\ \A n \in 2..(Len(s) + 1) : FromEnd(Append(s, t), n) = FromEnd(s, n - 1)
  <1>1. Len(s) \in Nat
    BY LenProperties
  <1>2. /\ Append(s, t) \in Seq(Nat) /\ Len(Append(s, t)) = Len(s) + 1
        /\ \A i \in 1..Len(s) : Append(s, t)[i] = s[i]
        /\ Append(s, t)[Len(s) + 1] = t
    BY AppendProperties
  <1>3. FromEnd(Append(s, t), 1) = t
    BY <1>1, <1>2 DEF FromEnd
  <1>4. ASSUME NEW n \in 2..(Len(s) + 1)
        PROVE  FromEnd(Append(s, t), n) = FromEnd(s, n - 1)
    <2>1. /\ Len(s) + 1 + 1 - n = Len(s) + 1 - (n - 1)
          /\ Len(s) + 1 - (n - 1) \in 1..Len(s)
      BY <1>1
    <2> QED BY <1>2, <2>1 DEF FromEnd
  <1> QED BY <1>2, <1>3, <1>4

\* The oldest dropped: nothing moves, seen from the end.
LEMMA TailFromEnd ==
    ASSUME NEW s \in Seq(Nat), s # <<>>
    PROVE  /\ Tail(s) \in Seq(Nat) /\ Len(Tail(s)) = Len(s) - 1
           /\ \A n \in 1..(Len(s) - 1) : FromEnd(Tail(s), n) = FromEnd(s, n)
  <1>1. Len(s) \in Nat
    BY LenProperties
  <1>2. /\ Tail(s) \in Seq(Nat) /\ Len(Tail(s)) = Len(s) - 1
        /\ \A i \in 1..Len(Tail(s)) : Tail(s)[i] = s[i + 1]
    BY HeadTailProperties
  <1>3. ASSUME NEW n \in 1..(Len(s) - 1)
        PROVE  FromEnd(Tail(s), n) = FromEnd(s, n)
    <2>1. /\ (Len(s) - 1 + 1 - n) + 1 = Len(s) + 1 - n
          /\ Len(s) - 1 + 1 - n \in 1..(Len(s) - 1)
      BY <1>1
    <2> QED BY <1>2, <2>1 DEF FromEnd
  <1> QED BY <1>2, <1>3

\* In order, said from the end.
LEMMA OrderFromEnd ==
    ASSUME NEW s \in Seq(Nat)
    PROVE  Chronological(s) <=> /\ \A n, m \in 1..Len(s) : m <= n => FromEnd(s, n) <= FromEnd(s, m)
                          /\ \A n \in 1..Len(s) : FromEnd(s, n) <= second
  <1> DEFINE L == Len(s)
  <1>1. L \in Nat
    BY LenProperties
  <1>2. \A n \in 1..L : L + 1 - n \in 1..L /\ L + 1 - (L + 1 - n) = n
    BY <1>1
  <1>4. \A i \in 1..L : s[i] = FromEnd(s, L + 1 - i)
    BY <1>2 DEF FromEnd
  <1>5. \A n \in 1..L : FromEnd(s, n) = s[L + 1 - n]
    BY DEF FromEnd
  <1>6. ASSUME Chronological(s)
        PROVE  /\ \A n, m \in 1..L : m <= n => FromEnd(s, n) <= FromEnd(s, m)
               /\ \A n \in 1..L : FromEnd(s, n) <= second
    <2>1. (\A i, j \in 1..L : i <= j => s[i] <= s[j]) /\ \A i \in 1..L : s[i] <= second
      BY <1>6 DEF Chronological
    <2>2. ASSUME NEW n \in 1..L, NEW m \in 1..L, m <= n
          PROVE  FromEnd(s, n) <= FromEnd(s, m)
      <3>1. L + 1 - n \in 1..L /\ L + 1 - m \in 1..L /\ L + 1 - n <= L + 1 - m
        BY <1>1, <2>2
      <3> QED BY <2>1, <3>1 DEF FromEnd
    <2>3. ASSUME NEW n \in 1..L
          PROVE  FromEnd(s, n) <= second
      BY <1>2, <2>1 DEF FromEnd
    <2> QED BY <2>2, <2>3
  <1>7. ASSUME /\ \A n, m \in 1..L : m <= n => FromEnd(s, n) <= FromEnd(s, m)
               /\ \A n \in 1..L : FromEnd(s, n) <= second
        PROVE  Chronological(s)
    <2>1. (\A i, j \in 1..L : i <= j => s[i] <= s[j]) /\ \A i \in 1..L : s[i] <= second
      <3>1. ASSUME NEW i \in 1..L, NEW j \in 1..L, i <= j
            PROVE  s[i] <= s[j]
        <4>1. L + 1 - i \in 1..L /\ L + 1 - j \in 1..L /\ L + 1 - j <= L + 1 - i
          BY <1>1, <3>1
        <4>2. FromEnd(s, L + 1 - i) <= FromEnd(s, L + 1 - j)
          BY <1>7, <4>1
        <4> QED BY <1>4, <4>2
      <3>2. ASSUME NEW i \in 1..L
            PROVE  s[i] <= second
        <4>1. L + 1 - i \in 1..L
          BY <1>1
        <4> QED BY <1>4, <1>7, <4>1
      <3> QED BY <3>1, <3>2
    <2> QED BY <2>1 DEF Chronological
  <1> QED BY <1>6, <1>7

LEMMA Trimmed ==
    ASSUME second \in Nat, NEW hits, NEW times, Sound(hits, times)
    PROVE  Sound(Recent(hits), times)
  <1>1. hits \in Seq(Nat) /\ Remembered(hits, times)
    BY DEF Sound
  <1>2. /\ Recent(hits) \in Seq(Nat)
        /\ Len(Recent(hits)) <= Len(hits)
        /\ \A n \in 1..Len(Recent(hits)) : FromEnd(Recent(hits), n) = FromEnd(hits, n)
        /\ \A n \in 1..Len(hits) : n > Len(Recent(hits)) => Expired(FromEnd(hits, n))
    BY <1>1, RecentIsSuffix
  <1>3. Len(Recent(hits)) \in Nat /\ Len(hits) \in Nat
    BY <1>1, <1>2, LenProperties
  <1>4. ASSUME NEW n \in 1..Len(times)
        PROVE  \/ n <= Len(Recent(hits)) /\ FromEnd(Recent(hits), n) = FromEnd(times, n)
               \/ Expired(FromEnd(times, n))
    <2>1. CASE n <= Len(hits) /\ FromEnd(hits, n) = FromEnd(times, n)
      <3>1. n \in 1..Len(hits)
        BY <1>3, <2>1
      <3>2. CASE n <= Len(Recent(hits))
        BY <1>2, <1>3, <2>1, <3>2
      <3>3. CASE n > Len(Recent(hits))
        BY <1>2, <2>1, <3>1, <3>3
      <3> QED BY <1>3, <3>2, <3>3
    <2>2. CASE Expired(FromEnd(times, n))
      BY <2>2
    <2> QED BY <1>1, <2>1, <2>2 DEF Remembered
  <1>5. Remembered(Recent(hits), times)
    BY <1>4 DEF Remembered
  <1> QED BY <1>2, <1>5 DEF Sound

\* A source that went quiet loses nothing that still counts.
LEMMA SweptIsSound ==
    ASSUME second \in Nat, NEW hits, NEW times, Sound(hits, times), Stale(hits)
    PROVE  Sound(<<>>, times)
  <1>1. /\ hits \in Seq(Nat) /\ times \in Seq(Nat)
        /\ Chronological(times) /\ Remembered(hits, times)
    BY DEF Sound
  <1>2. Len(hits) \in Nat /\ Len(times) \in Nat
    BY <1>1, LenProperties
  <1>3. ASSUME NEW n \in 1..Len(times)
        PROVE  Expired(FromEnd(times, n))
    <2>1. CASE Expired(FromEnd(times, 1))
      <3>1. 1 \in 1..Len(times) /\ 1 <= n
        BY <1>2
      <3>2. FromEnd(times, n) <= FromEnd(times, 1)
        BY <1>1, <3>1, OrderFromEnd
      <3>3. FromEnd(times, n) \in Nat /\ FromEnd(times, 1) \in Nat
        <4>1. \A m \in 1..Len(times) : Len(times) + 1 - m \in 1..Len(times)
          BY <1>2
        <4> QED BY <1>1, <3>1, <4>1, ElementOfSeq DEF FromEnd
      <3> QED BY <2>1, <3>2, <3>3, BrakeConstants DEF Expired
    <2>2. CASE 1 <= Len(hits) /\ FromEnd(hits, 1) = FromEnd(times, 1)
      <3>1. hits # <<>>
        BY <1>1, <2>2, EmptySeq
      <3>2. Expired(hits[Len(hits)])
        BY <3>1 DEF Stale
      <3>3. FromEnd(hits, 1) = hits[Len(hits)]
        <4>1. Len(hits) + 1 - 1 = Len(hits)
          BY <1>2
        <4> QED BY <4>1 DEF FromEnd
      <3> QED BY <2>1, <2>2, <3>2, <3>3
    <2>3. 1 \in 1..Len(times)
      BY <1>2
    <2> QED BY <1>1, <2>1, <2>2, <2>3 DEF Remembered
  <1>4. Remembered(<<>>, times)
    BY <1>3 DEF Remembered
  <1> QED BY <1>4, EmptySeq DEF Sound

\* An attempt let through with the window not full.
LEMMA CountedIsSound ==
    ASSUME second \in Nat, NEW hits, NEW times, Sound(hits, times),
           Len(hits) < MAX_ATTEMPTS
    PROVE  /\ Sound(Append(hits, second), Newest(Append(times, second)))
           /\ WellSpaced(times) => WellSpaced(Newest(Append(times, second)))
  <1> DEFINE h == Append(hits, second)
             t == Append(times, second)
  <1>1. /\ hits \in Seq(Nat) /\ times \in Seq(Nat)
        /\ Chronological(times) /\ Remembered(hits, times)
        /\ Len(times) <= MAX_ATTEMPTS + 1
    BY DEF Sound
  <1>2. Len(hits) \in Nat /\ Len(times) \in Nat
    BY <1>1, LenProperties
  <1>3. /\ h \in Seq(Nat) /\ Len(h) = Len(hits) + 1 /\ FromEnd(h, 1) = second
        /\ \A n \in 2..(Len(hits) + 1) : FromEnd(h, n) = FromEnd(hits, n - 1)
    BY <1>1, AppendFromEnd
  <1>4. /\ t \in Seq(Nat) /\ Len(t) = Len(times) + 1 /\ FromEnd(t, 1) = second
        /\ \A n \in 2..(Len(times) + 1) : FromEnd(t, n) = FromEnd(times, n - 1)
    BY <1>1, AppendFromEnd
  <1> HIDE DEF h, t
  <1>5. /\ \A n, m \in 1..Len(times) : m <= n => FromEnd(times, n) <= FromEnd(times, m)
        /\ \A n \in 1..Len(times) : FromEnd(times, n) <= second
    BY <1>1, OrderFromEnd
  <1>6. \A n \in 2..(Len(times) + 1) : n - 1 \in 1..Len(times)
    BY <1>2
  <1>7. ASSUME NEW n \in 1..Len(t), NEW m \in 1..Len(t), m <= n
        PROVE  FromEnd(t, n) <= FromEnd(t, m)
    <2>1. CASE m = 1
      <3>1. CASE n = 1
        BY <1>4, <2>1, <3>1
      <3>2. CASE n # 1
        <4>1. n \in 2..(Len(times) + 1)
          BY <1>2, <1>4, <3>2
        <4> QED BY <1>4, <1>5, <1>6, <2>1, <4>1
      <3> QED BY <3>1, <3>2
    <2>2. CASE m # 1
      <3>1. n \in 2..(Len(times) + 1) /\ m \in 2..(Len(times) + 1) /\ m - 1 <= n - 1
        BY <1>2, <1>4, <1>7, <2>2
      <3> QED BY <1>4, <1>5, <1>6, <3>1
    <2> QED BY <2>1, <2>2
  <1>8. ASSUME NEW n \in 1..Len(t)
        PROVE  FromEnd(t, n) <= second
    <2>1. CASE n = 1
      BY <1>4, <2>1
    <2>2. CASE n # 1
      <3>1. n \in 2..(Len(times) + 1)
        BY <1>2, <1>4, <2>2
      <3> QED BY <1>4, <1>5, <1>6, <3>1
    <2> QED BY <2>1, <2>2
  <1>9. ASSUME NEW n \in 1..Len(t)
        PROVE  \/ n <= Len(h) /\ FromEnd(h, n) = FromEnd(t, n)
               \/ Expired(FromEnd(t, n))
    <2>1. CASE n = 1
      BY <1>2, <1>3, <1>4, <2>1
    <2>2. CASE n # 1
      <3>1. n \in 2..(Len(times) + 1) /\ n - 1 \in 1..Len(times)
        BY <1>2, <1>4, <2>2
      <3>2. FromEnd(t, n) = FromEnd(times, n - 1)
        BY <1>4, <3>1
      <3>3. \/ n - 1 <= Len(hits) /\ FromEnd(hits, n - 1) = FromEnd(times, n - 1)
            \/ Expired(FromEnd(times, n - 1))
        BY <1>1, <3>1 DEF Remembered
      <3>4. CASE n - 1 <= Len(hits) /\ FromEnd(hits, n - 1) = FromEnd(times, n - 1)
        <4>1. n \in 2..(Len(hits) + 1) /\ n <= Len(h)
          BY <1>2, <1>3, <3>1, <3>4
        <4> QED BY <1>3, <3>2, <3>4, <4>1
      <3> QED BY <3>2, <3>3, <3>4
    <2> QED BY <2>1, <2>2
  <1> DEFINE u == Newest(t)
  <1>10. /\ u \in Seq(Nat) /\ Len(u) \in Nat
         /\ Len(u) <= Len(t) /\ Len(u) <= MAX_ATTEMPTS + 1
         /\ \A n \in 1..Len(u) : FromEnd(u, n) = FromEnd(t, n)
    <2>1. CASE Len(t) > MAX_ATTEMPTS + 1
      <3>1. t # <<>>
        BY <1>2, <1>4, EmptySeq
      <3>2. u = Tail(t)
        BY <2>1 DEF Newest
      <3>3. /\ Tail(t) \in Seq(Nat) /\ Len(Tail(t)) = Len(t) - 1
            /\ \A n \in 1..(Len(t) - 1) : FromEnd(Tail(t), n) = FromEnd(t, n)
        BY <1>4, <3>1, TailFromEnd
      <3> QED BY <1>1, <1>2, <1>4, <3>2, <3>3, BrakeConstants
    <2>2. CASE ~(Len(t) > MAX_ATTEMPTS + 1)
      BY <1>2, <1>4, <2>2, BrakeConstants DEF Newest
    <2> QED BY <2>1, <2>2
  <1> HIDE DEF u
  <1>11. \A n \in 1..Len(u) : n \in 1..Len(t)
    BY <1>2, <1>4, <1>10
  <1>12. Chronological(u)
    BY <1>7, <1>8, <1>10, <1>11, OrderFromEnd
  <1>13. Remembered(h, u)
    BY <1>9, <1>10, <1>11 DEF Remembered
  <1>14. Sound(h, u)
    BY <1>3, <1>10, <1>12, <1>13 DEF Sound
  <1>15. WellSpaced(u)
    <2> SUFFICES ASSUME NEW i \in 1..(Len(u) - MAX_ATTEMPTS)
                 PROVE  u[i + MAX_ATTEMPTS] - u[i] > WINDOW_SECONDS
      BY DEF WellSpaced
    <2> DEFINE M == MAX_ATTEMPTS
    <2>1. M \in Nat \ {0} /\ WINDOW_SECONDS \in Nat
      BY BrakeConstants
    <2>2. i = 1 /\ Len(u) = M + 1
      BY <1>10, <2>1
    <2>3. FromEnd(u, 1) = u[M + 1] /\ FromEnd(u, M + 1) = u[1]
      <3>1. M + 1 + 1 - 1 = M + 1 /\ M + 1 + 1 - (M + 1) = 1
        BY <2>1
      <3> QED BY <2>2, <3>1 DEF FromEnd
    <2>4. 1 \in 1..Len(u) /\ M + 1 \in 1..Len(u)
      BY <2>1, <2>2
    <2>5. u[M + 1] = second
      BY <1>4, <1>10, <2>3, <2>4
    <2>6. u[1] = FromEnd(times, M) /\ M \in 1..Len(times)
      <3>1. M + 1 \in 1..Len(t)
        BY <1>11, <2>4
      <3>2. M + 1 \in 2..(Len(times) + 1) /\ M + 1 - 1 = M /\ M \in 1..Len(times)
        BY <1>2, <1>4, <2>1, <3>1
      <3> QED BY <1>4, <1>10, <2>3, <2>4, <3>2
    <2>7. Expired(u[1])
      <3>1. ~(M <= Len(hits))
        BY <1>2, <2>1
      <3> QED BY <1>1, <2>6, <3>1 DEF Remembered
    <2>8. u[1] \in Nat
      BY <1>10, <2>4, ElementOfSeq
    <2>9. u[M + 1] - u[1] > WINDOW_SECONDS
      BY <2>1, <2>5, <2>7, <2>8 DEF Expired
    <2> QED BY <2>1, <2>2, <2>9
  <1> QED BY <1>14, <1>15 DEF h, t, u

LEMMA NothingIsSound ==
    second \in Nat => Sound(<<>>, <<>>)
  <1>1. <<>> \in Seq(Nat) /\ Len(<<>>) = 0
    BY EmptySeq
  <1>2. \A i \in 1..0 : FALSE
    OBVIOUS
  <1>3. Chronological(<<>>) /\ Remembered(<<>>, <<>>)
    BY <1>1, <1>2 DEF Chronological, Remembered
  <1> QED BY <1>1, <1>3, BrakeConstants DEF Sound

LEMMA BrakeInvInit == BrakeInit => BrakeIInv
  <1> SUFFICES ASSUME BrakeInit
               PROVE  BrakeIInv
    OBVIOUS
  <1>1. second \in Nat /\ DOMAIN attempts = Source /\ DOMAIN passed = Source
    BY DEF BrakeInit
  <1>2. \A c \in Source : attempts[c] = <<>> /\ passed[c] = <<>>
    BY DEF BrakeInit
  <1>3. \A c \in Source : Sound(attempts[c], passed[c])
    BY <1>1, <1>2, NothingIsSound
  <1>4. SignInsAreSpaced
    <2>1. Len(<<>>) = 0
      BY EmptySeq
    <2> QED BY <1>2, <2>1, BrakeConstants DEF SignInsAreSpaced
  <1> QED BY <1>1, <1>3, <1>4 DEF BrakeIInv

\* What has expired stays so.
LEMMA TimePasses ==
    ASSUME second \in Nat, second' \in Nat, second <= second',
           NEW hits, NEW times, Sound(hits, times)
    PROVE  /\ hits \in Seq(Nat) /\ times \in Seq(Nat) /\ Len(times) <= MAX_ATTEMPTS + 1
           /\ \A i, j \in 1..Len(times) : i <= j => times[i] <= times[j]
           /\ \A i \in 1..Len(times) : times[i] <= second'
           /\ \A n \in 1..Len(times) :
                 \/ n <= Len(hits) /\ FromEnd(hits, n) = FromEnd(times, n)
                 \/ FromEnd(times, n) < second' - WINDOW_SECONDS
  <1>1. hits \in Seq(Nat) /\ times \in Seq(Nat) /\ Len(times) <= MAX_ATTEMPTS + 1
    BY DEF Sound
  <1>2. \A i \in 1..Len(times) : times[i] \in Nat
    BY <1>1, ElementOfSeq
  <1>3. \A n \in 1..Len(times) : FromEnd(times, n) \in Nat
    <2>1. \A n \in 1..Len(times) : Len(times) + 1 - n \in 1..Len(times)
      BY <1>1, LenProperties
    <2> QED BY <1>2, <2>1 DEF FromEnd
  <1>4. /\ \A i, j \in 1..Len(times) : i <= j => times[i] <= times[j]
        /\ \A i \in 1..Len(times) : times[i] <= second'
    BY <1>2 DEF Sound, Chronological
  <1>5. \A n \in 1..Len(times) :
            \/ n <= Len(hits) /\ FromEnd(hits, n) = FromEnd(times, n)
            \/ FromEnd(times, n) < second' - WINDOW_SECONDS
    BY <1>3, BrakeConstants DEF Sound, Remembered, Expired
  <1> QED BY <1>1, <1>4, <1>5

LEMMA BrakeInvStep ==
    ASSUME BrakeIInv, [BrakeNext]_brakeVars
    PROVE  BrakeIInv'
  <1>1. /\ second \in Nat
        /\ DOMAIN attempts = Source /\ DOMAIN passed = Source
        /\ \A c \in Source : Sound(attempts[c], passed[c])
        /\ \A c \in Source : WellSpaced(passed[c])
    BY DEF BrakeIInv, SignInsAreSpaced, WellSpaced
  <1>2. ASSUME second' \in Nat, second <= second',
               DOMAIN attempts' = Source, DOMAIN passed' = Source,
               \A c \in Source : Sound(attempts'[c], passed'[c]),
               \A c \in Source : WellSpaced(passed'[c])
        PROVE  BrakeIInv'
    <2>1. ASSUME NEW c \in Source
          PROVE  Sound(attempts[c], passed[c])'
      <3>1. Sound(attempts'[c], passed'[c])
        BY <1>2
      <3> QED BY <1>1, <1>2, <3>1, TimePasses DEF Sound, Chronological, Remembered, Expired, FromEnd
    <2> QED BY <1>2, <2>1 DEF BrakeIInv, SignInsAreSpaced, WellSpaced
  <1>3. CASE Passes
    <2>1. second' \in Nat /\ second <= second'
      BY <1>1, <1>3 DEF Passes
    <2> QED BY <1>1, <1>2, <1>3, <2>1 DEF Passes
  <1>4. CASE Restart
    <2>1. \A c \in Source : attempts'[c] = <<>> /\ passed'[c] = <<>>
      BY <1>4 DEF Restart
    <2>2. \A c \in Source : Sound(attempts'[c], passed'[c])
      BY <1>1, <2>1, NothingIsSound
    <2>3. WellSpaced(<<>>)
      <3>1. Len(<<>>) = 0
        BY EmptySeq
      <3> QED BY <3>1, BrakeConstants DEF WellSpaced
    <2>4. DOMAIN attempts' = Source /\ DOMAIN passed' = Source
          /\ second' \in Nat /\ second <= second'
      BY <1>1, <1>4 DEF Restart
    <2> QED BY <1>2, <2>1, <2>2, <2>3, <2>4
  <1>5. ASSUME NEW c \in Source, Refused(c)
        PROVE  BrakeIInv'
    <2>1. /\ second' \in Nat /\ second <= second'
          /\ DOMAIN attempts' = Source /\ DOMAIN passed' = Source
          /\ passed' = passed
          /\ \A d \in Source : attempts'[d] = IF d = c THEN Recent(attempts[c]) ELSE attempts[d]
      BY <1>1, <1>5 DEF Refused
    <2>2. \A d \in Source : Sound(attempts'[d], passed'[d])
      BY <1>1, <2>1, Trimmed
    <2> QED BY <1>1, <1>2, <2>1, <2>2
  <1>6. ASSUME NEW c \in Source, Counted(c)
        PROVE  BrakeIInv'
    <2> DEFINE old  == Recent(attempts[c])
               all  == [attempts EXCEPT ![c] = Append(Recent(@), second)]
    <2>1. /\ second' = second /\ Len(old) < MAX_ATTEMPTS
          /\ attempts' = Swept(all)
          /\ passed' = [passed EXCEPT ![c] = Newest(Append(@, second))]
      BY <1>6 DEF Counted
    <2>2. Sound(old, passed[c])
      BY <1>1, Trimmed
    <2>3. /\ Sound(Append(old, second), Newest(Append(passed[c], second)))
          /\ WellSpaced(Newest(Append(passed[c], second)))
      <3> HIDE DEF old
      <3> QED BY <1>1, <2>1, <2>2, CountedIsSound
    <2>4. DOMAIN all = Source /\ \A d \in Source :
                all[d] = IF d = c THEN Append(old, second) ELSE attempts[d]
      BY <1>1
    <2>5. DOMAIN passed' = Source /\ \A d \in Source :
                passed'[d] = IF d = c THEN Newest(Append(passed[c], second)) ELSE passed[d]
      BY <1>1, <2>1
    <2> HIDE DEF old, all
    <2>6. \A d \in Source : Sound(all[d], passed'[d]) /\ WellSpaced(passed'[d])
      BY <1>1, <2>3, <2>4, <2>5
    <2>7. DOMAIN attempts' = Source /\ \A d \in Source :
                attempts'[d] = all[d] \/ (attempts'[d] = <<>> /\ Stale(all[d]))
      BY <2>1, <2>4 DEF Swept
    <2>8. \A d \in Source : Sound(attempts'[d], passed'[d])
      BY <1>1, <2>6, <2>7, SweptIsSound
    <2>9. second' \in Nat /\ second <= second'
      BY <1>1, <2>1
    <2> QED BY <1>2, <2>5, <2>6, <2>7, <2>8, <2>9
  <1>7. CASE UNCHANGED brakeVars
    <2>1. second' = second /\ attempts' = attempts /\ passed' = passed
      BY <1>7 DEF brakeVars
    <2> QED BY <1>1, <1>2, <2>1
  <1> QED BY <1>3, <1>4, <1>5, <1>6, <1>7 DEF BrakeNext

\* Any stretch of the window lets through no more than the limit from one source, while
\* the process lives, whatever the sweep of quiet sources forgets (enforce).
THEOREM SignInsAlwaysSpaced == BrakeSpec => []SignInsAreSpaced
  <1>1. BrakeIInv => SignInsAreSpaced
    BY DEF BrakeIInv
  <1> QED BY <1>1, BrakeInvInit, BrakeInvStep, PTL DEF BrakeSpec

-----------------------------------------------------------------------------
(* The imported books *)

\* One more element at the end of a list of terms.
LEMMA SumList ==
    ASSUME NEW S, IsFiniteSet(S), NEW e, Whole(e, S), NEW x, x \notin S, e[x] \in Int,
           NEW T, T = S \cup {x}
    PROVE  /\ IsFiniteSet(T) /\ Whole(e, T)
           /\ SumFunctionOnSet(e, T) = SumFunctionOnSet(e, S) + e[x]
  <1>1. Whole(e, S \cup {x})
    BY DEF Whole
  <1>2. IsFiniteSet(S \cup {x})
    BY FS_AddElement
  <1> QED BY <1>1, <1>2, SumOneMore, SumInt

LEMMA Accounts ==
    Account = {"cash", "bank", "receivable", "inventory", "payable", "vat", "capital", "revenue",
               "discount", "cogs"}
  BY DEF Account, DEFAULT_ACCOUNTS

LEMMA AccountTypes ==
    /\ DEFAULT_ACCOUNTS["receivable"] = "asset"
    /\ \A a \in Account : DEFAULT_ACCOUNTS[a] \in {"asset", "liability", "equity", "revenue", "expense"}
  BY DEF Account, DEFAULT_ACCOUNTS

\* A sum over the chart, written out.
LEMMA AccountSum ==
    ASSUME NEW e, Whole(e, Account)
    PROVE  /\ IsFiniteSet(Account)
           /\ SumFunctionOnSet(e, Account)
                = e["cash"] + e["bank"] + e["receivable"] + e["inventory"] + e["payable"]
                  + e["vat"] + e["capital"] + e["revenue"] + e["discount"] + e["cogs"]
  <1> DEFINE S1 == {"cash"}
  <1> DEFINE S2 == S1 \cup {"bank"}
  <1> DEFINE S3 == S2 \cup {"receivable"}
  <1> DEFINE S4 == S3 \cup {"inventory"}
  <1> DEFINE S5 == S4 \cup {"payable"}
  <1> DEFINE S6 == S5 \cup {"vat"}
  <1> DEFINE S7 == S6 \cup {"capital"}
  <1> DEFINE S8 == S7 \cup {"revenue"}
  <1> DEFINE S9 == S8 \cup {"discount"}
  <1> DEFINE S10 == S9 \cup {"cogs"}
  <1>a. S10 = Account
    BY Accounts
  <1>i. \A a \in Account : e[a] \in Int
    BY DEF Whole
  <1>v. /\ e["cash"] \in Int /\ e["bank"] \in Int /\ e["receivable"] \in Int /\ e["inventory"] \in Int
        /\ e["payable"] \in Int /\ e["vat"] \in Int /\ e["capital"] \in Int /\ e["revenue"] \in Int
        /\ e["discount"] \in Int /\ e["cogs"] \in Int
    BY <1>i, Accounts
  <1>0. SumFunctionOnSet(e, {}) = 0 /\ IsFiniteSet({}) /\ Whole(e, {})
    BY SumStep, FS_EmptySet DEF Whole
  <1>s1. "cash" \notin {} /\ S1 = {} \cup {"cash"} /\ e["cash"] \in Int
    BY <1>v
  <1>s2. "bank" \notin S1 /\ S2 = S1 \cup {"bank"} /\ e["bank"] \in Int
    BY <1>v
  <1>s3. "receivable" \notin S2 /\ S3 = S2 \cup {"receivable"} /\ e["receivable"] \in Int
    BY <1>v
  <1>s4. "inventory" \notin S3 /\ S4 = S3 \cup {"inventory"} /\ e["inventory"] \in Int
    BY <1>v
  <1>s5. "payable" \notin S4 /\ S5 = S4 \cup {"payable"} /\ e["payable"] \in Int
    BY <1>v
  <1>s6. "vat" \notin S5 /\ S6 = S5 \cup {"vat"} /\ e["vat"] \in Int
    BY <1>v
  <1>s7. "capital" \notin S6 /\ S7 = S6 \cup {"capital"} /\ e["capital"] \in Int
    BY <1>v
  <1>s8. "revenue" \notin S7 /\ S8 = S7 \cup {"revenue"} /\ e["revenue"] \in Int
    BY <1>v
  <1>s9. "discount" \notin S8 /\ S9 = S8 \cup {"discount"} /\ e["discount"] \in Int
    BY <1>v
  <1>s10. "cogs" \notin S9 /\ S10 = S9 \cup {"cogs"} /\ e["cogs"] \in Int
    BY <1>v
  <1> HIDE DEF S1, S2, S3, S4, S5, S6, S7, S8, S9, S10
  <1>t1. IsFiniteSet(S1) /\ Whole(e, S1) /\ SumFunctionOnSet(e, S1) = SumFunctionOnSet(e, {}) + e["cash"]
    BY <1>s1, <1>0, SumList
  <1>t2. IsFiniteSet(S2) /\ Whole(e, S2) /\ SumFunctionOnSet(e, S2) = SumFunctionOnSet(e, S1) + e["bank"]
    BY <1>s2, <1>t1, SumList
  <1>t3. IsFiniteSet(S3) /\ Whole(e, S3) /\ SumFunctionOnSet(e, S3) = SumFunctionOnSet(e, S2) + e["receivable"]
    BY <1>s3, <1>t2, SumList
  <1>t4. IsFiniteSet(S4) /\ Whole(e, S4) /\ SumFunctionOnSet(e, S4) = SumFunctionOnSet(e, S3) + e["inventory"]
    BY <1>s4, <1>t3, SumList
  <1>t5. IsFiniteSet(S5) /\ Whole(e, S5) /\ SumFunctionOnSet(e, S5) = SumFunctionOnSet(e, S4) + e["payable"]
    BY <1>s5, <1>t4, SumList
  <1>t6. IsFiniteSet(S6) /\ Whole(e, S6) /\ SumFunctionOnSet(e, S6) = SumFunctionOnSet(e, S5) + e["vat"]
    BY <1>s6, <1>t5, SumList
  <1>t7. IsFiniteSet(S7) /\ Whole(e, S7) /\ SumFunctionOnSet(e, S7) = SumFunctionOnSet(e, S6) + e["capital"]
    BY <1>s7, <1>t6, SumList
  <1>t8. IsFiniteSet(S8) /\ Whole(e, S8) /\ SumFunctionOnSet(e, S8) = SumFunctionOnSet(e, S7) + e["revenue"]
    BY <1>s8, <1>t7, SumList
  <1>t9. IsFiniteSet(S9) /\ Whole(e, S9) /\ SumFunctionOnSet(e, S9) = SumFunctionOnSet(e, S8) + e["discount"]
    BY <1>s9, <1>t8, SumList
  <1>t10. IsFiniteSet(S10) /\ Whole(e, S10) /\ SumFunctionOnSet(e, S10) = SumFunctionOnSet(e, S9) + e["cogs"]
    BY <1>s10, <1>t9, SumList
  <1>q. SumFunctionOnSet(e, S10)
                = e["cash"] + e["bank"] + e["receivable"] + e["inventory"] + e["payable"]
                  + e["vat"] + e["capital"] + e["revenue"] + e["discount"] + e["cogs"]
    BY <1>0, <1>t1, <1>t2, <1>t3, <1>t4, <1>t5, <1>t6, <1>t7, <1>t8, <1>t9, <1>t10, <1>v
  <1> QED BY <1>a, <1>q, <1>t10

\* Accounts that add up to nothing balance, by type.
LEMMA ZeroBalances ==
    ASSUME ledger \in [Account -> Int], SumFunctionOnSet(ledger, Account) = 0
    PROVE  IsBalanced
  <1> DEFINE N == {"asset", "liability", "equity", "revenue", "expense"}
  <1> DEFINE h == [n \in N |-> TotalOf(n)]
  <1>1. Whole(ledger, Account)
    BY DEF Whole
  <1>2. IsFiniteSet(Account)
    BY <1>1, AccountSum
  <1>3. ASSUME NEW n \in N
        PROVE  TotalOf(n) \in Int
    <2>1. {a \in Account : DEFAULT_ACCOUNTS[a] = n} \in SUBSET Account
      OBVIOUS
    <2>2. IsFiniteSet({a \in Account : DEFAULT_ACCOUNTS[a] = n})
      BY <1>2, <2>1, FS_Subset
    <2>3. Whole(ledger, {a \in Account : DEFAULT_ACCOUNTS[a] = n})
      BY <1>1 DEF Whole
    <2> HIDE DEF N
    <2> QED BY <2>2, <2>3, SumInt DEF TotalOf
  <1> DEFINE S1 == {"asset"}
  <1> DEFINE S2 == S1 \cup {"liability"}
  <1> DEFINE S3 == S2 \cup {"equity"}
  <1> DEFINE S4 == S3 \cup {"revenue"}
  <1> DEFINE S5 == S4 \cup {"expense"}
  <1>a. S5 = N
    OBVIOUS
  <1>v. /\ h["asset"] \in Int /\ h["liability"] \in Int /\ h["equity"] \in Int
        /\ h["revenue"] \in Int /\ h["expense"] \in Int
    BY <1>3
  <1>h. /\ h["asset"] = TotalOf("asset") /\ h["liability"] = TotalOf("liability")
        /\ h["equity"] = TotalOf("equity") /\ h["revenue"] = TotalOf("revenue")
        /\ h["expense"] = TotalOf("expense")
    OBVIOUS
  <1>z. h = [n \in N |-> SumFunctionOnSet(ledger, {a \in Account : DEFAULT_ACCOUNTS[a] = n})]
    BY DEF TotalOf
  <1>m. \A a \in Account : DEFAULT_ACCOUNTS[a] \in N
    BY AccountTypes
  <1> HIDE DEF h, N
  <1>0. SumFunctionOnSet(h, {}) = 0 /\ IsFiniteSet({}) /\ Whole(h, {})
    BY SumStep, FS_EmptySet DEF Whole
  <1>s1. "asset" \notin {} /\ S1 = {} \cup {"asset"} /\ h["asset"] \in Int
    BY <1>v
  <1>s2. "liability" \notin S1 /\ S2 = S1 \cup {"liability"} /\ h["liability"] \in Int
    BY <1>v
  <1>s3. "equity" \notin S2 /\ S3 = S2 \cup {"equity"} /\ h["equity"] \in Int
    BY <1>v
  <1>s4. "revenue" \notin S3 /\ S4 = S3 \cup {"revenue"} /\ h["revenue"] \in Int
    BY <1>v
  <1>s5. "expense" \notin S4 /\ S5 = S4 \cup {"expense"} /\ h["expense"] \in Int
    BY <1>v
  <1> HIDE DEF S1, S2, S3, S4, S5
  <1>t1. IsFiniteSet(S1) /\ Whole(h, S1) /\ SumFunctionOnSet(h, S1) = SumFunctionOnSet(h, {}) + h["asset"]
    BY <1>s1, <1>0, SumList
  <1>t2. IsFiniteSet(S2) /\ Whole(h, S2) /\ SumFunctionOnSet(h, S2) = SumFunctionOnSet(h, S1) + h["liability"]
    BY <1>s2, <1>t1, SumList
  <1>t3. IsFiniteSet(S3) /\ Whole(h, S3) /\ SumFunctionOnSet(h, S3) = SumFunctionOnSet(h, S2) + h["equity"]
    BY <1>s3, <1>t2, SumList
  <1>t4. IsFiniteSet(S4) /\ Whole(h, S4) /\ SumFunctionOnSet(h, S4) = SumFunctionOnSet(h, S3) + h["revenue"]
    BY <1>s4, <1>t3, SumList
  <1>t5. IsFiniteSet(S5) /\ Whole(h, S5) /\ SumFunctionOnSet(h, S5) = SumFunctionOnSet(h, S4) + h["expense"]
    BY <1>s5, <1>t4, SumList
  <1>n. IsFiniteSet(N)
    BY <1>a, <1>t5
  <1>4. SumFunctionOnSet(h, N) = 0
    BY <1>1, <1>2, <1>m, <1>n, <1>z, SumByKey
  <1>5. SumFunctionOnSet(h, S5) = h["asset"] + h["liability"] + h["equity"] + h["revenue"] + h["expense"]
    BY <1>0, <1>t1, <1>t2, <1>t3, <1>t4, <1>t5, <1>v
  <1>6. h["asset"] + h["liability"] + h["equity"] + h["revenue"] + h["expense"] = 0
    BY <1>a, <1>4, <1>5
  <1>7. PICK p \in Int, q \in Int, r \in Int, s \in Int, t \in Int :
           /\ p = h["asset"] /\ q = h["liability"] /\ r = h["equity"] /\ s = h["revenue"]
           /\ t = h["expense"]
    BY <1>v
  <1>9. p + q + r + s + t = 0
    BY <1>6, <1>7
  <1>8. p = -q - r + (-s - t)
    BY <1>9
  <1> QED BY <1>h, <1>7, <1>8 DEF IsBalanced, NetProfit

\* Two sides that are not nothing.
LEMMA TwoSides ==
    ASSUME NEW e, NEW x \in Account, NEW y \in Account, x # y, e[x] # 0, e[y] # 0
    PROVE  Cardinality({a \in Account : e[a] # 0}) >= 2
  <1> DEFINE S == {a \in Account : e[a] # 0}
  <1>1. IsFiniteSet(Account)
    <2>1. Whole([a \in Account |-> 0], Account)
      BY DEF Whole
    <2> QED BY <2>1, AccountSum
  <1>2. IsFiniteSet(S)
    BY <1>1, FS_Subset
  <1>3. {x} \cup {y} \in SUBSET S
    OBVIOUS
  <1>4. Cardinality({x} \cup {y}) = 2
    <2>1. IsFiniteSet({x}) /\ Cardinality({x}) = 1 /\ y \notin {x}
      BY FS_Singleton
    <2> QED BY <2>1, FS_AddElement
  <1>5. Cardinality(S) \in Nat
    BY <1>2, FS_CardinalityType
  <1> HIDE DEF S
  <1>6. Cardinality({x} \cup {y}) <= Cardinality(S)
    BY <1>2, <1>3, FS_Subset
  <1> QED BY <1>4, <1>5, <1>6 DEF S

-----------------------------------------------------------------------------
LEMMA KeptIs == \A n \in Int : Kept(n) \in Nat /\ (n >= 0 => Kept(n) = n) /\ (n <= 0 => Kept(n) = 0)
  BY DEF Kept, AtLeast

LEMMA MethodIs == \A m : cash_or_bank(m) \in {"cash", "bank"}
  BY DEF cash_or_bank

\* What the entry of an invoice holds.
LEMMA InvoiceEntries ==
    ASSUME NEW r, InvoiceRow(r)
    PROVE  /\ Whole(SaleEntry(r), Account) /\ Whole(PurchaseEntry(r), Account)
           /\ SaleEntry(r)["receivable"] = Kept(r.total) /\ SaleEntry(r)["payable"] = 0
           /\ SaleEntry(r)["inventory"] = 0
           /\ PurchaseEntry(r)["payable"] = -Kept(r.total) /\ PurchaseEntry(r)["receivable"] = 0
           /\ PurchaseEntry(r)["inventory"] = 0
           /\ SumOf(SaleEntry(r)) = Kept(r.total) + Kept(r.extra) - Kept(r.sub) - Kept(r.tax)
           /\ SumOf(PurchaseEntry(r)) = Kept(r.sub + r.extra) + Kept(r.tax) - Kept(r.total)
  <1>1. /\ Kept(r.total) \in Int /\ Kept(r.extra) \in Int /\ Kept(r.sub) \in Int /\ Kept(r.tax) \in Int
        /\ Kept(r.sub + r.extra) \in Int
    BY KeptIs DEF InvoiceRow
  <1>2. PICK t \in Int, x \in Int, s \in Int, v \in Int, g \in Int :
           /\ t = Kept(r.total) /\ x = Kept(r.extra) /\ s = Kept(r.sub) /\ v = Kept(r.tax)
           /\ g = Kept(r.sub + r.extra)
    BY <1>1
  <1>3. SaleEntry(r) = [a \in Account |->
           CASE a = "receivable" -> t [] a = "discount" -> x [] a = "revenue" -> -s
             [] a = "vat" -> -v [] OTHER -> 0]
    BY <1>2, Accounts DEF SaleEntry, Sides
  <1>4. PurchaseEntry(r) = [a \in Account |->
           CASE a = "cogs" -> g [] a = "vat" -> v [] a = "payable" -> -t [] OTHER -> 0]
    BY <1>2, Accounts DEF PurchaseEntry, Sides
  <1>5. Whole(SaleEntry(r), Account)
    BY <1>3, Accounts DEF Whole
  <1>6. Whole(PurchaseEntry(r), Account)
    BY <1>4, Accounts DEF Whole
  <1>7. PICK e : e = SaleEntry(r)
    OBVIOUS
  <1>8. /\ e["cash"] = 0 /\ e["bank"] = 0 /\ e["receivable"] = t /\ e["inventory"] = 0 /\ e["payable"] = 0
        /\ e["vat"] = -v /\ e["capital"] = 0 /\ e["revenue"] = -s /\ e["discount"] = x /\ e["cogs"] = 0
    BY <1>3, <1>7, Accounts
  <1>9. SumOf(SaleEntry(r)) = t + x - s - v
    <2>1. SumOf(e) = 0 + 0 + t + 0 + 0 + (-v) + 0 + (-s) + x + 0
      BY <1>5, <1>7, <1>8, AccountSum DEF SumOf
    <2>2. 0 + 0 + t + 0 + 0 + (-v) + 0 + (-s) + x + 0 = t + x - s - v
      OBVIOUS
    <2> QED BY <1>7, <2>1, <2>2
  <1>10. PICK d : d = PurchaseEntry(r)
    OBVIOUS
  <1>11. /\ d["cash"] = 0 /\ d["bank"] = 0 /\ d["receivable"] = 0 /\ d["inventory"] = 0 /\ d["payable"] = -t
         /\ d["vat"] = v /\ d["capital"] = 0 /\ d["revenue"] = 0 /\ d["discount"] = 0 /\ d["cogs"] = g
    BY <1>4, <1>10, Accounts
  <1>12. SumOf(PurchaseEntry(r)) = g + v - t
    <2>1. SumOf(d) = 0 + 0 + 0 + 0 + (-t) + v + 0 + 0 + 0 + g
      BY <1>6, <1>10, <1>11, AccountSum DEF SumOf
    <2>2. 0 + 0 + 0 + 0 + (-t) + v + 0 + 0 + 0 + g = g + v - t
      OBVIOUS
    <2> QED BY <1>10, <2>1, <2>2
  <1> QED BY <1>2, <1>5, <1>6, <1>7, <1>8, <1>9, <1>10, <1>11, <1>12

\* What a payment's entry holds.
LEMMA PaymentEntries ==
    ASSUME NEW side \in {"customer", "supplier"}, NEW sum \in Int, NEW m
    PROVE  LET e == Settled(side, sum, m) IN
           /\ Whole(e, Account) /\ SumOf(e) = 0
           /\ side = "customer" => e["receivable"] = -Kept(sum) /\ e["payable"] = 0
           /\ side = "supplier" => e["payable"] = Kept(sum) /\ e["receivable"] = 0
           /\ e["inventory"] = 0
           /\ sum > 0 => Accepted(e)
  <1> DEFINE e == Settled(side, sum, m)
  <1>1. PICK c \in {"cash", "bank"} : c = cash_or_bank(m)
    BY MethodIs
  <1>2. PICK k \in {"receivable", "payable"} : k = Control(side)
    BY DEF Control
  <1>3. Kept(sum) \in Int /\ (sum > 0 => Kept(sum) > 0)
    BY KeptIs
  <1>4. PICK in \in Int : in = IF side = "customer" THEN Kept(sum) ELSE -Kept(sum)
    BY <1>3
  <1>5. e = [a \in Account |-> CASE a = c -> in [] a = k -> -in [] OTHER -> 0]
    BY <1>1, <1>2, <1>4 DEF Settled
  <1> HIDE DEF e
  <1>6. Whole(e, Account)
    BY <1>5, Accounts DEF Whole
  <1>7. /\ k = "receivable" => e["receivable"] = -in /\ e["payable"] = 0
        /\ k = "payable" => e["payable"] = -in /\ e["receivable"] = 0
        /\ c = "cash" => e["cash"] = in /\ e["bank"] = 0
        /\ c = "bank" => e["bank"] = in /\ e["cash"] = 0
        /\ e["inventory"] = 0 /\ e["vat"] = 0 /\ e["capital"] = 0 /\ e["revenue"] = 0 /\ e["discount"] = 0
        /\ e["cogs"] = 0
    BY <1>5, Accounts
  <1>8. SumOf(e) = e["cash"] + e["bank"] + e["receivable"] + 0 + e["payable"] + 0 + 0 + 0 + 0 + 0
    BY <1>6, <1>7, AccountSum DEF SumOf
  <1>9. SumOf(e) = 0
    <2>1. /\ e["cash"] + e["bank"] = in /\ e["receivable"] + e["payable"] = -in
          /\ e["cash"] \in Int /\ e["bank"] \in Int /\ e["receivable"] \in Int /\ e["payable"] \in Int
      BY <1>7
    <2> QED BY <1>8, <2>1
  <1>10. side = "customer" <=> k = "receivable"
    BY <1>2 DEF Control
  <1>11. (side = "customer" => -in = -Kept(sum)) /\ (side = "supplier" => -in = Kept(sum))
    BY <1>3, <1>4
  <1>12. ASSUME sum > 0
         PROVE  Accepted(e)
    <2>1. in # 0 /\ -in # 0
      BY <1>3, <1>4, <1>12
    <2>2. e[c] # 0 /\ e[k] # 0 /\ c # k /\ c \in Account /\ k \in Account
      BY <1>5, <2>1, Accounts
    <2> QED BY <1>9, <2>2, TwoSides DEF Accepted
  <1> QED BY <1>6, <1>7, <1>9, <1>10, <1>11, <1>12 DEF e

LEMMA OpeningEntries ==
    ASSUME NEW f, Workbook(f)
    PROVE  /\ StockValue(f) \in Int /\ Whole(OpeningEntry(f), Account) /\ SumOf(OpeningEntry(f)) = 0
           /\ OpeningEntry(f)["inventory"] = Kept(StockValue(f))
           /\ OpeningEntry(f)["receivable"] = 0 /\ OpeningEntry(f)["payable"] = 0
           /\ StockValue(f) > 0 => Accepted(OpeningEntry(f))
  <1>1. StockValue(f) \in Int
    <2>1. IsFiniteSet(f.stock) /\ Whole([r \in f.stock |-> r.qty * r.cost], f.stock)
      BY DEF Workbook, StockRow, Whole
    <2> QED BY <2>1, SumInt DEF StockValue
  <1>2. PICK v \in Int : v = Kept(StockValue(f)) /\ (StockValue(f) > 0 => v > 0)
    BY <1>1, KeptIs
  <1>3. PICK e : e = OpeningEntry(f)
    OBVIOUS
  <1>4. e = [a \in Account |-> CASE a = "inventory" -> v [] a = "capital" -> -v [] OTHER -> 0]
    BY <1>2, <1>3, Accounts DEF OpeningEntry, Sides
  <1>5. Whole(e, Account)
    BY <1>4, Accounts DEF Whole
  <1>6. /\ e["cash"] = 0 /\ e["bank"] = 0 /\ e["receivable"] = 0 /\ e["inventory"] = v /\ e["payable"] = 0
        /\ e["vat"] = 0 /\ e["capital"] = -v /\ e["revenue"] = 0 /\ e["discount"] = 0 /\ e["cogs"] = 0
    BY <1>4, Accounts
  <1>7. SumOf(e) = 0
    <2>1. SumOf(e) = 0 + 0 + 0 + v + 0 + 0 + (-v) + 0 + 0 + 0
      BY <1>5, <1>6, AccountSum DEF SumOf
    <2> QED BY <2>1
  <1>8. v > 0 => Accepted(e)
    <2>1. v > 0 => v # 0 /\ -v # 0
      OBVIOUS
    <2>2. "inventory" \in Account /\ "capital" \in Account /\ "inventory" # "capital"
      BY Accounts
    <2>3. v > 0 => e["inventory"] # 0 /\ e["capital"] # 0
      BY <1>6, <2>1
    <2> QED BY <1>7, <2>2, <2>3, TwoSides DEF Accepted
  <1> QED BY <1>1, <1>2, <1>3, <1>5, <1>6, <1>7, <1>8

-----------------------------------------------------------------------------
\* A header that is exact is taken by the ledger.
LEMMA ExactAccepted ==
    ASSUME NEW r, InvoiceRow(r), Exact(r)
    PROVE  /\ r.side = "customer" => Accepted(SaleEntry(r))
           /\ r.side = "supplier" => Accepted(PurchaseEntry(r))
  <1>1. PICK t \in Nat, x \in Nat, s \in Nat, v \in Nat :
           /\ t = r.total /\ x = r.extra /\ s = r.sub /\ v = r.tax /\ s + v > 0
           /\ r.side = "customer" => t + x = s + v
           /\ r.side = "supplier" => t = s + x + v
    BY DEF Exact
  <1>2. /\ Kept(r.total) = t /\ Kept(r.extra) = x /\ Kept(r.sub) = s /\ Kept(r.tax) = v
        /\ Kept(r.sub + r.extra) = s + x
    BY <1>1, KeptIs
  <1>3. ASSUME r.side = "customer"
        PROVE  Accepted(SaleEntry(r))
    <2>1. PICK e : e = SaleEntry(r)
      OBVIOUS
    <2>2. e["receivable"] = t /\ e["discount"] = x /\ e["revenue"] = -s /\ e["vat"] = -v
      BY <1>2, <2>1, Accounts DEF SaleEntry, Sides
    <2>3. SumOf(e) = 0
      <3>1. SumOf(e) = t + x - s - v
        BY <1>2, <2>1, InvoiceEntries
      <3> QED BY <1>1, <1>3, <3>1
    <2>4. (t # 0 \/ x # 0) /\ (-s # 0 \/ -v # 0)
      BY <1>1, <1>3
    <2>5. (e["receivable"] # 0 \/ e["discount"] # 0) /\ (e["revenue"] # 0 \/ e["vat"] # 0)
      BY <2>2, <2>4
    <2>6. {"receivable", "discount", "revenue", "vat"} \subseteq Account
      BY Accounts
    <2>7. PICK a \in {"receivable", "discount"}, b \in {"revenue", "vat"} : e[a] # 0 /\ e[b] # 0
      BY <2>5
    <2> QED BY <2>1, <2>3, <2>6, <2>7, TwoSides DEF Accepted
  <1>4. ASSUME r.side = "supplier"
        PROVE  Accepted(PurchaseEntry(r))
    <2>1. PICK e : e = PurchaseEntry(r)
      OBVIOUS
    <2>2. e["payable"] = -t /\ e["cogs"] = s + x /\ e["vat"] = v
      BY <1>2, <2>1, Accounts DEF PurchaseEntry, Sides
    <2>3. SumOf(e) = 0
      <3>1. SumOf(e) = (s + x) + v - t
        BY <1>2, <2>1, InvoiceEntries
      <3> QED BY <1>1, <1>4, <3>1
    <2>4. -t # 0 /\ (s + x # 0 \/ v # 0)
      BY <1>1, <1>4
    <2>5. e["payable"] # 0 /\ (e["cogs"] # 0 \/ e["vat"] # 0)
      BY <2>2, <2>4
    <2>6. {"payable", "cogs", "vat"} \subseteq Account
      BY Accounts
    <2>7. PICK b \in {"cogs", "vat"} : e[b] # 0
      BY <2>5
    <2> QED BY <2>1, <2>3, <2>5, <2>6, <2>7, TwoSides DEF Accepted
  <1> QED BY <1>3, <1>4

-----------------------------------------------------------------------------
\* What a side owes by its invoices, and what its vouchers cleared, as the ledger has it.
Due(side, rows) ==
    LET on == On(side, rows) IN SumFunctionOnSet([r \in on |-> Kept(r.total) - Kept(r.paid)], on)

Cleared(side, rows) ==
    LET on == On(side, rows) IN SumFunctionOnSet([v \in on |-> Kept(v.sum)], on)

InvoiceRows(rows) == IsFiniteSet(rows) /\ \A r \in rows : InvoiceRow(r)
VoucherRows(rows) == IsFiniteSet(rows) /\ \A v \in rows : VoucherRow(v)

LEMMA OnRows ==
    ASSUME NEW rows, IsFiniteSet(rows), NEW side
    PROVE  /\ On(side, rows) \in SUBSET rows /\ IsFiniteSet(On(side, rows))
           /\ \A r \in On(side, rows) : r.side = side
  <1>1. On(side, rows) \in SUBSET rows
    BY DEF On
  <1>2. IsFiniteSet(On(side, rows))
    BY <1>1, FS_Subset
  <1> QED BY <1>1, <1>2 DEF On

LEMMA DueIsInt ==
    ASSUME NEW rows, InvoiceRows(rows), NEW side
    PROVE  Due(side, rows) \in Int
  <1>1. IsFiniteSet(On(side, rows)) /\ \A r \in On(side, rows) : InvoiceRow(r)
    BY OnRows DEF InvoiceRows
  <1>2. Whole([r \in On(side, rows) |-> Kept(r.total) - Kept(r.paid)], On(side, rows))
    BY <1>1, KeptIs DEF Whole, InvoiceRow
  <1> QED BY <1>1, <1>2, SumInt DEF Due

LEMMA ClearedIsInt ==
    ASSUME NEW rows, VoucherRows(rows), NEW side
    PROVE  Cleared(side, rows) \in Int
  <1>1. IsFiniteSet(On(side, rows)) /\ \A r \in On(side, rows) : VoucherRow(r)
    BY OnRows DEF VoucherRows
  <1>2. Whole([v \in On(side, rows) |-> Kept(v.sum)], On(side, rows))
    BY <1>1, KeptIs DEF Whole, VoucherRow
  <1> QED BY <1>1, <1>2, SumInt DEF Cleared

\* The sheets of one side post to the accounts of that side what the rows owe.
LEMMA SalesPosts ==
    ASSUME NEW f, Workbook(f)
    PROVE  /\ \A a \in Account : SalesPost(f, a) \in Int
           /\ SalesPost(f, "receivable") = Due("customer", f.invoices)
           /\ SalesPost(f, "payable") = 0 /\ SalesPost(f, "inventory") = 0
           /\ AllAccepted(f) => SumFunctionOnSet([a \in Account |-> SalesPost(f, a)], Account) = 0
  <1>1. PICK rows : rows = On("customer", f.invoices)
    OBVIOUS
  <1>2. /\ IsFiniteSet(rows) /\ \A r \in rows : r \in f.invoices /\ InvoiceRow(r) /\ r.side = "customer"
    BY <1>1, OnRows DEF Workbook
  <1>3. \A r \in rows : /\ Whole(SaleEntry(r), Account) /\ Whole(SettledOn(r), Account)
                        /\ SaleEntry(r)["receivable"] = Kept(r.total)
                        /\ SettledOn(r)["receivable"] = -Kept(r.paid)
                        /\ SaleEntry(r)["payable"] = 0 /\ SettledOn(r)["payable"] = 0
                        /\ SaleEntry(r)["inventory"] = 0 /\ SettledOn(r)["inventory"] = 0
                        /\ SumOf(SettledOn(r)) = 0 /\ r.paid \in Int /\ r.total \in Int
    BY <1>2, InvoiceEntries, PaymentEntries DEF InvoiceRow, SettledOn
  <1> DEFINE row(a) == [r \in rows |-> SaleEntry(r)[a] + SettledOn(r)[a]]
  <1>4. \A a \in Account : SalesPost(f, a) = SumFunctionOnSet(row(a), rows)
    BY <1>1 DEF SalesPost
  <1>5. \A a \in Account : Whole(row(a), rows)
    BY <1>3 DEF Whole
  <1>6. \A a \in Account : SalesPost(f, a) \in Int
    BY <1>2, <1>4, <1>5, SumInt
  <1>7. "receivable" \in Account /\ "payable" \in Account /\ "inventory" \in Account
    BY Accounts
  <1>8. SalesPost(f, "receivable") = Due("customer", f.invoices)
    <2>1. \A r \in rows : Kept(r.total) \in Int /\ Kept(r.paid) \in Int
      BY <1>3, KeptIs
    <2>2. \A r \in rows : SaleEntry(r)["receivable"] + SettledOn(r)["receivable"] = Kept(r.total) - Kept(r.paid)
      BY <1>3, <2>1
    <2>3. row("receivable") = [r \in rows |-> Kept(r.total) - Kept(r.paid)]
      BY <2>2
    <2> HIDE DEF row
    <2> QED BY <1>1, <1>4, <1>7, <2>3 DEF Due
  <1>9. SalesPost(f, "payable") = 0 /\ SalesPost(f, "inventory") = 0
    <2>1. /\ SameTerms(row("payable"), [r \in rows |-> 0], rows)
          /\ SameTerms(row("inventory"), [r \in rows |-> 0], rows)
      BY <1>3 DEF SameTerms
    <2> HIDE DEF row
    <2> QED BY <1>2, <1>4, <1>7, <2>1, SumZero
  <1>10. ASSUME AllAccepted(f)
         PROVE  SumFunctionOnSet([a \in Account |-> SalesPost(f, a)], Account) = 0
    <2> DEFINE M == [a \in Account |-> row(a)]
    <2>1. IsFiniteSet(Account)
      <3>1. Whole([a \in Account |-> 0], Account)
        BY DEF Whole
      <3> QED BY <3>1, AccountSum
    <2>2. \A a \in Account, r \in rows : M[a][r] = SaleEntry(r)[a] + SettledOn(r)[a] /\ M[a][r] \in Int
      BY <1>3 DEF Whole
    <2>3. ASSUME NEW r \in rows
          PROVE  SumFunctionOnSet([a \in Account |-> M[a][r]], Account) = 0
      <3>1. SumOf(SaleEntry(r)) = 0 /\ SumOf(SettledOn(r)) = 0
        BY <1>1, <1>3, <1>10 DEF AllAccepted, Accepted
      <3>2. Adds(SaleEntry(r), SettledOn(r), [a \in Account |-> M[a][r]], Account)
        BY <2>2 DEF Adds
      <3>3. Whole(SaleEntry(r), Account) /\ Whole(SettledOn(r), Account)
        BY <1>3
      <3> HIDE DEF M
      <3>4. SumFunctionOnSet([a \in Account |-> M[a][r]], Account) = 0 + 0
        BY <2>1, <3>1, <3>2, <3>3, SumAdd DEF SumOf
      <3> QED BY <3>4
    <2>4. \A a \in Account : [r \in rows |-> M[a][r]] = row(a)
      OBVIOUS
    <2>5. [a \in Account |-> SumFunctionOnSet([r \in rows |-> M[a][r]], rows)] = [a \in Account |-> SalesPost(f, a)]
      BY <1>4, <2>4
    <2>6. SumFunctionOnSet([a \in Account |-> SumFunctionOnSet([r \in rows |-> M[a][r]], rows)], Account) = 0
      <3>1. \A a \in Account, r \in rows : M[a][r] \in Int
        BY <2>2
      <3> HIDE DEF M
      <3> QED BY <1>2, <2>1, <2>3, <3>1, SumOfColumns
    <2> QED BY <2>5, <2>6
  <1> QED BY <1>6, <1>8, <1>9, <1>10

LEMMA PurchasesPosts ==
    ASSUME NEW f, Workbook(f)
    PROVE  /\ \A a \in Account : PurchasesPost(f, a) \in Int
           /\ PurchasesPost(f, "payable") = -Due("supplier", f.invoices)
           /\ PurchasesPost(f, "receivable") = 0 /\ PurchasesPost(f, "inventory") = 0
           /\ AllAccepted(f) => SumFunctionOnSet([a \in Account |-> PurchasesPost(f, a)], Account) = 0
  <1>1. PICK rows : rows = On("supplier", f.invoices)
    OBVIOUS
  <1>2. /\ IsFiniteSet(rows) /\ \A r \in rows : r \in f.invoices /\ InvoiceRow(r) /\ r.side = "supplier"
    BY <1>1, OnRows DEF Workbook
  <1>3. \A r \in rows : /\ Whole(PurchaseEntry(r), Account) /\ Whole(SettledOn(r), Account)
                        /\ PurchaseEntry(r)["payable"] = -Kept(r.total)
                        /\ SettledOn(r)["payable"] = Kept(r.paid)
                        /\ PurchaseEntry(r)["receivable"] = 0 /\ SettledOn(r)["receivable"] = 0
                        /\ PurchaseEntry(r)["inventory"] = 0 /\ SettledOn(r)["inventory"] = 0
                        /\ SumOf(SettledOn(r)) = 0 /\ r.paid \in Int /\ r.total \in Int
    BY <1>2, InvoiceEntries, PaymentEntries DEF InvoiceRow, SettledOn
  <1> DEFINE row(a) == [r \in rows |-> PurchaseEntry(r)[a] + SettledOn(r)[a]]
  <1>4. \A a \in Account : PurchasesPost(f, a) = SumFunctionOnSet(row(a), rows)
    BY <1>1 DEF PurchasesPost
  <1>5. \A a \in Account : Whole(row(a), rows)
    BY <1>3 DEF Whole
  <1>6. \A a \in Account : PurchasesPost(f, a) \in Int
    BY <1>2, <1>4, <1>5, SumInt
  <1>7. "payable" \in Account /\ "receivable" \in Account /\ "inventory" \in Account
    BY Accounts
  <1>8. PurchasesPost(f, "payable") = -Due("supplier", f.invoices)
    <2>1. \A r \in rows : Kept(r.total) \in Int /\ Kept(r.paid) \in Int
      BY <1>3, KeptIs
    <2> DEFINE due == [r \in rows |-> Kept(r.total) - Kept(r.paid)]
    <2>k. PICK k \in Int : k = -1
      OBVIOUS
    <2>2. \A r \in rows : PurchaseEntry(r)["payable"] + SettledOn(r)["payable"] = k * (Kept(r.total) - Kept(r.paid))
      BY <1>3, <2>1, <2>k
    <2>3. Times(due, row("payable"), k, rows) /\ Whole(due, rows) /\ Whole(row("payable"), rows)
      BY <1>5, <1>7, <2>1, <2>2 DEF Times, Whole
    <2>4. SumFunctionOnSet(due, rows) = Due("supplier", f.invoices)
      BY <1>1 DEF Due
    <2> HIDE DEF row, due
    <2>5. SumFunctionOnSet(row("payable"), rows) = k * SumFunctionOnSet(due, rows)
      BY <1>2, <2>3, SumTimes
    <2>6. SumFunctionOnSet(due, rows) \in Int
      BY <1>2, <2>3, SumInt
    <2> QED BY <1>4, <1>7, <2>k, <2>4, <2>5, <2>6
  <1>9. PurchasesPost(f, "receivable") = 0 /\ PurchasesPost(f, "inventory") = 0
    <2>1. /\ SameTerms(row("receivable"), [r \in rows |-> 0], rows)
          /\ SameTerms(row("inventory"), [r \in rows |-> 0], rows)
      BY <1>3 DEF SameTerms
    <2> HIDE DEF row
    <2> QED BY <1>2, <1>4, <1>7, <2>1, SumZero
  <1>10. ASSUME AllAccepted(f)
         PROVE  SumFunctionOnSet([a \in Account |-> PurchasesPost(f, a)], Account) = 0
    <2> DEFINE M == [a \in Account |-> row(a)]
    <2>1. IsFiniteSet(Account)
      <3>1. Whole([a \in Account |-> 0], Account)
        BY DEF Whole
      <3> QED BY <3>1, AccountSum
    <2>2. \A a \in Account, r \in rows : M[a][r] = PurchaseEntry(r)[a] + SettledOn(r)[a] /\ M[a][r] \in Int
      BY <1>3 DEF Whole
    <2>3. ASSUME NEW r \in rows
          PROVE  SumFunctionOnSet([a \in Account |-> M[a][r]], Account) = 0
      <3>1. SumOf(PurchaseEntry(r)) = 0 /\ SumOf(SettledOn(r)) = 0
        BY <1>1, <1>3, <1>10 DEF AllAccepted, Accepted
      <3>2. Adds(PurchaseEntry(r), SettledOn(r), [a \in Account |-> M[a][r]], Account)
        BY <2>2 DEF Adds
      <3>3. Whole(PurchaseEntry(r), Account) /\ Whole(SettledOn(r), Account)
        BY <1>3
      <3> HIDE DEF M
      <3>4. SumFunctionOnSet([a \in Account |-> M[a][r]], Account) = 0 + 0
        BY <2>1, <3>1, <3>2, <3>3, SumAdd DEF SumOf
      <3> QED BY <3>4
    <2>4. \A a \in Account : [r \in rows |-> M[a][r]] = row(a)
      OBVIOUS
    <2>5. [a \in Account |-> SumFunctionOnSet([r \in rows |-> M[a][r]], rows)] = [a \in Account |-> PurchasesPost(f, a)]
      BY <1>4, <2>4
    <2>6. SumFunctionOnSet([a \in Account |-> SumFunctionOnSet([r \in rows |-> M[a][r]], rows)], Account) = 0
      <3>1. \A a \in Account, r \in rows : M[a][r] \in Int
        BY <2>2
      <3> HIDE DEF M
      <3> QED BY <1>2, <2>1, <2>3, <3>1, SumOfColumns
    <2> QED BY <2>5, <2>6
  <1> QED BY <1>6, <1>8, <1>9, <1>10

LEMMA ReceiptsPosts ==
    ASSUME NEW f, Workbook(f)
    PROVE  /\ \A a \in Account : ReceiptsPost(f, a) \in Int
           /\ ReceiptsPost(f, "receivable") = -Cleared("customer", f.vouchers)
           /\ ReceiptsPost(f, "payable") = 0 /\ ReceiptsPost(f, "inventory") = 0
           /\ SumFunctionOnSet([a \in Account |-> ReceiptsPost(f, a)], Account) = 0
  <1>1. PICK rows : rows = On("customer", f.vouchers)
    OBVIOUS
  <1>2. /\ IsFiniteSet(rows) /\ \A v \in rows : v \in f.vouchers /\ VoucherRow(v) /\ v.side = "customer"
    BY <1>1, OnRows DEF Workbook
  <1>3. \A v \in rows : /\ Whole(VoucherEntry(v), Account) /\ SumOf(VoucherEntry(v)) = 0
                        /\ VoucherEntry(v)["receivable"] = -Kept(v.sum)
                        /\ VoucherEntry(v)["payable"] = 0 /\ VoucherEntry(v)["inventory"] = 0
                        /\ v.sum \in Int
    BY <1>2, PaymentEntries DEF VoucherRow, VoucherEntry
  <1> DEFINE row(a) == [v \in rows |-> VoucherEntry(v)[a]]
  <1>4. \A a \in Account : ReceiptsPost(f, a) = SumFunctionOnSet(row(a), rows)
    BY <1>1 DEF ReceiptsPost
  <1>5. \A a \in Account : Whole(row(a), rows)
    BY <1>3 DEF Whole
  <1>6. \A a \in Account : ReceiptsPost(f, a) \in Int
    BY <1>2, <1>4, <1>5, SumInt
  <1>7. "receivable" \in Account /\ "payable" \in Account /\ "inventory" \in Account
    BY Accounts
  <1>8. ReceiptsPost(f, "receivable") = -Cleared("customer", f.vouchers)
    <2> DEFINE sums == [v \in rows |-> Kept(v.sum)]
    <2>1. \A v \in rows : Kept(v.sum) \in Int
      BY <1>3, KeptIs
    <2>k. PICK k \in Int : k = -1
      OBVIOUS
    <2>2. \A v \in rows : VoucherEntry(v)["receivable"] = k * Kept(v.sum)
      BY <1>3, <2>1, <2>k
    <2>3. Times(sums, row("receivable"), k, rows) /\ Whole(sums, rows) /\ Whole(row("receivable"), rows)
      BY <1>5, <1>7, <2>1, <2>2 DEF Times, Whole
    <2>4. SumFunctionOnSet(sums, rows) = Cleared("customer", f.vouchers)
      BY <1>1 DEF Cleared
    <2> HIDE DEF row, sums
    <2>5. SumFunctionOnSet(row("receivable"), rows) = k * SumFunctionOnSet(sums, rows)
      BY <1>2, <2>3, SumTimes
    <2>6. SumFunctionOnSet(sums, rows) \in Int
      BY <1>2, <2>3, SumInt
    <2> QED BY <1>4, <1>7, <2>k, <2>4, <2>5, <2>6
  <1>9. ReceiptsPost(f, "payable") = 0 /\ ReceiptsPost(f, "inventory") = 0
    <2>1. /\ SameTerms(row("payable"), [v \in rows |-> 0], rows)
          /\ SameTerms(row("inventory"), [v \in rows |-> 0], rows)
      BY <1>3 DEF SameTerms
    <2> HIDE DEF row
    <2> QED BY <1>2, <1>4, <1>7, <2>1, SumZero
  <1>10. SumFunctionOnSet([a \in Account |-> ReceiptsPost(f, a)], Account) = 0
    <2> DEFINE M == [a \in Account |-> row(a)]
    <2>1. IsFiniteSet(Account)
      <3>1. Whole([a \in Account |-> 0], Account)
        BY DEF Whole
      <3> QED BY <3>1, AccountSum
    <2>2. \A a \in Account, v \in rows : M[a][v] = VoucherEntry(v)[a] /\ M[a][v] \in Int
      BY <1>3 DEF Whole
    <2>3. ASSUME NEW v \in rows
          PROVE  SumFunctionOnSet([a \in Account |-> M[a][v]], Account) = 0
      <3>1. SameTerms([a \in Account |-> M[a][v]], VoucherEntry(v), Account)
        BY <2>2 DEF SameTerms
      <3> HIDE DEF M
      <3>2. SumFunctionOnSet([a \in Account |-> M[a][v]], Account) = SumFunctionOnSet(VoucherEntry(v), Account)
        BY <2>1, <3>1, SumSame
      <3> QED BY <1>3, <3>2 DEF SumOf
    <2>4. \A a \in Account : [v \in rows |-> M[a][v]] = row(a)
      OBVIOUS
    <2>5. [a \in Account |-> SumFunctionOnSet([v \in rows |-> M[a][v]], rows)] = [a \in Account |-> ReceiptsPost(f, a)]
      BY <1>4, <2>4
    <2>6. SumFunctionOnSet([a \in Account |-> SumFunctionOnSet([v \in rows |-> M[a][v]], rows)], Account) = 0
      <3>1. \A a \in Account, v \in rows : M[a][v] \in Int
        BY <2>2
      <3> HIDE DEF M
      <3> QED BY <1>2, <2>1, <2>3, <3>1, SumOfColumns
    <2> QED BY <2>5, <2>6
  <1> QED BY <1>6, <1>8, <1>9, <1>10

LEMMA PaymentsPosts ==
    ASSUME NEW f, Workbook(f)
    PROVE  /\ \A a \in Account : PaymentsPost(f, a) \in Int
           /\ PaymentsPost(f, "payable") = Cleared("supplier", f.vouchers)
           /\ PaymentsPost(f, "receivable") = 0 /\ PaymentsPost(f, "inventory") = 0
           /\ SumFunctionOnSet([a \in Account |-> PaymentsPost(f, a)], Account) = 0
  <1>1. PICK rows : rows = On("supplier", f.vouchers)
    OBVIOUS
  <1>2. /\ IsFiniteSet(rows) /\ \A v \in rows : v \in f.vouchers /\ VoucherRow(v) /\ v.side = "supplier"
    BY <1>1, OnRows DEF Workbook
  <1>3. \A v \in rows : /\ Whole(VoucherEntry(v), Account) /\ SumOf(VoucherEntry(v)) = 0
                        /\ VoucherEntry(v)["payable"] = Kept(v.sum)
                        /\ VoucherEntry(v)["receivable"] = 0 /\ VoucherEntry(v)["inventory"] = 0
                        /\ v.sum \in Int
    BY <1>2, PaymentEntries DEF VoucherRow, VoucherEntry
  <1> DEFINE row(a) == [v \in rows |-> VoucherEntry(v)[a]]
  <1>4. \A a \in Account : PaymentsPost(f, a) = SumFunctionOnSet(row(a), rows)
    BY <1>1 DEF PaymentsPost
  <1>5. \A a \in Account : Whole(row(a), rows)
    BY <1>3 DEF Whole
  <1>6. \A a \in Account : PaymentsPost(f, a) \in Int
    BY <1>2, <1>4, <1>5, SumInt
  <1>7. "receivable" \in Account /\ "payable" \in Account /\ "inventory" \in Account
    BY Accounts
  <1>8. PaymentsPost(f, "payable") = Cleared("supplier", f.vouchers)
    <2>1. row("payable") = [v \in rows |-> Kept(v.sum)]
      BY <1>3
    <2> HIDE DEF row
    <2> QED BY <1>1, <1>4, <1>7, <2>1 DEF Cleared
  <1>9. PaymentsPost(f, "receivable") = 0 /\ PaymentsPost(f, "inventory") = 0
    <2>1. /\ SameTerms(row("receivable"), [v \in rows |-> 0], rows)
          /\ SameTerms(row("inventory"), [v \in rows |-> 0], rows)
      BY <1>3 DEF SameTerms
    <2> HIDE DEF row
    <2> QED BY <1>2, <1>4, <1>7, <2>1, SumZero
  <1>10. SumFunctionOnSet([a \in Account |-> PaymentsPost(f, a)], Account) = 0
    <2> DEFINE M == [a \in Account |-> row(a)]
    <2>1. IsFiniteSet(Account)
      <3>1. Whole([a \in Account |-> 0], Account)
        BY DEF Whole
      <3> QED BY <3>1, AccountSum
    <2>2. \A a \in Account, v \in rows : M[a][v] = VoucherEntry(v)[a] /\ M[a][v] \in Int
      BY <1>3 DEF Whole
    <2>3. ASSUME NEW v \in rows
          PROVE  SumFunctionOnSet([a \in Account |-> M[a][v]], Account) = 0
      <3>1. SameTerms([a \in Account |-> M[a][v]], VoucherEntry(v), Account)
        BY <2>2 DEF SameTerms
      <3> HIDE DEF M
      <3>2. SumFunctionOnSet([a \in Account |-> M[a][v]], Account) = SumFunctionOnSet(VoucherEntry(v), Account)
        BY <2>1, <3>1, SumSame
      <3> QED BY <1>3, <3>2 DEF SumOf
    <2>4. \A a \in Account : [v \in rows |-> M[a][v]] = row(a)
      OBVIOUS
    <2>5. [a \in Account |-> SumFunctionOnSet([v \in rows |-> M[a][v]], rows)] = [a \in Account |-> PaymentsPost(f, a)]
      BY <1>4, <2>4
    <2>6. SumFunctionOnSet([a \in Account |-> SumFunctionOnSet([v \in rows |-> M[a][v]], rows)], Account) = 0
      <3>1. \A a \in Account, v \in rows : M[a][v] \in Int
        BY <2>2
      <3> HIDE DEF M
      <3> QED BY <1>2, <2>1, <2>3, <3>1, SumOfColumns
    <2> QED BY <2>5, <2>6
  <1> QED BY <1>6, <1>8, <1>9, <1>10

LEMMA AllPosts ==
    ASSUME NEW f, Workbook(f)
    PROVE  /\ \A a \in Account : Posts(f, a) \in Int
           /\ Posts(f, "receivable") = Due("customer", f.invoices) - Cleared("customer", f.vouchers)
           /\ Posts(f, "payable") = Cleared("supplier", f.vouchers) - Due("supplier", f.invoices)
           /\ Posts(f, "inventory") = Kept(StockValue(f))
           /\ AllAccepted(f) => SumFunctionOnSet([a \in Account |-> Posts(f, a)], Account) = 0
  <1>1. \A a \in Account : /\ SalesPost(f, a) \in Int /\ ReceiptsPost(f, a) \in Int
                           /\ PurchasesPost(f, a) \in Int /\ PaymentsPost(f, a) \in Int
                           /\ OpeningEntry(f)[a] \in Int
    BY SalesPosts, ReceiptsPosts, PurchasesPosts, PaymentsPosts, OpeningEntries DEF Whole
  <1>2. InvoiceRows(f.invoices) /\ VoucherRows(f.vouchers)
    BY DEF Workbook, InvoiceRows, VoucherRows
  <1>3. /\ Due("customer", f.invoices) \in Int /\ Due("supplier", f.invoices) \in Int
        /\ Cleared("customer", f.vouchers) \in Int /\ Cleared("supplier", f.vouchers) \in Int
        /\ Kept(StockValue(f)) \in Int
    BY <1>2, DueIsInt, ClearedIsInt, OpeningEntries, KeptIs
  <1>4. \A a \in Account : Posts(f, a) \in Int
    BY <1>1 DEF Posts
  <1>n. "receivable" \in Account /\ "payable" \in Account /\ "inventory" \in Account
    BY Accounts
  <1>5. Posts(f, "receivable") = Due("customer", f.invoices) - Cleared("customer", f.vouchers)
    <2>1. /\ SalesPost(f, "receivable") = Due("customer", f.invoices)
          /\ ReceiptsPost(f, "receivable") = -Cleared("customer", f.vouchers)
          /\ PurchasesPost(f, "receivable") = 0 /\ PaymentsPost(f, "receivable") = 0
          /\ OpeningEntry(f)["receivable"] = 0
      BY SalesPosts, ReceiptsPosts, PurchasesPosts, PaymentsPosts, OpeningEntries
    <2>2. Posts(f, "receivable") = Due("customer", f.invoices) + (-Cleared("customer", f.vouchers)) + 0 + 0 + 0
      BY <2>1 DEF Posts
    <2> QED BY <1>3, <2>2
  <1>6. Posts(f, "payable") = Cleared("supplier", f.vouchers) - Due("supplier", f.invoices)
    <2>1. /\ PurchasesPost(f, "payable") = -Due("supplier", f.invoices)
          /\ PaymentsPost(f, "payable") = Cleared("supplier", f.vouchers)
          /\ SalesPost(f, "payable") = 0 /\ ReceiptsPost(f, "payable") = 0
          /\ OpeningEntry(f)["payable"] = 0
      BY SalesPosts, ReceiptsPosts, PurchasesPosts, PaymentsPosts, OpeningEntries
    <2>2. Posts(f, "payable") = 0 + 0 + (-Due("supplier", f.invoices)) + Cleared("supplier", f.vouchers) + 0
      BY <2>1 DEF Posts
    <2> QED BY <1>3, <2>2
  <1>7. Posts(f, "inventory") = Kept(StockValue(f))
    <2>1. /\ PurchasesPost(f, "inventory") = 0 /\ PaymentsPost(f, "inventory") = 0
          /\ SalesPost(f, "inventory") = 0 /\ ReceiptsPost(f, "inventory") = 0
          /\ OpeningEntry(f)["inventory"] = Kept(StockValue(f))
      BY SalesPosts, ReceiptsPosts, PurchasesPosts, PaymentsPosts, OpeningEntries
    <2>2. Posts(f, "inventory") = 0 + 0 + 0 + 0 + Kept(StockValue(f))
      BY <2>1 DEF Posts
    <2> QED BY <1>3, <2>2
  <1>8. ASSUME AllAccepted(f)
        PROVE  SumFunctionOnSet([a \in Account |-> Posts(f, a)], Account) = 0
    <2> DEFINE s == [a \in Account |-> SalesPost(f, a)]
               r == [a \in Account |-> ReceiptsPost(f, a)]
               p == [a \in Account |-> PurchasesPost(f, a)]
               q == [a \in Account |-> PaymentsPost(f, a)]
               sr == [a \in Account |-> s[a] + r[a]]
               srp == [a \in Account |-> sr[a] + p[a]]
               srpq == [a \in Account |-> srp[a] + q[a]]
               all == [a \in Account |-> Posts(f, a)]
    <2>1. /\ Whole(s, Account) /\ Whole(r, Account) /\ Whole(p, Account) /\ Whole(q, Account)
          /\ Whole(OpeningEntry(f), Account)
      BY <1>1 DEF Whole
    <2>2. Whole(sr, Account) /\ Whole(srp, Account) /\ Whole(srpq, Account)
      BY <1>1 DEF Whole
    <2>3. Adds(s, r, sr, Account) /\ Adds(sr, p, srp, Account) /\ Adds(srp, q, srpq, Account)
          /\ Adds(srpq, OpeningEntry(f), all, Account)
      BY DEF Adds, Posts
    <2>4. /\ SumFunctionOnSet(s, Account) = 0 /\ SumFunctionOnSet(r, Account) = 0
          /\ SumFunctionOnSet(p, Account) = 0 /\ SumFunctionOnSet(q, Account) = 0
          /\ SumFunctionOnSet(OpeningEntry(f), Account) = 0
      BY <1>8, SalesPosts, ReceiptsPosts, PurchasesPosts, PaymentsPosts, OpeningEntries DEF SumOf
    <2> HIDE DEF s, r, p, q, sr, srp, srpq, all
    <2>5. IsFiniteSet(Account)
      BY <2>1, AccountSum
    <2>6. SumFunctionOnSet(sr, Account) = 0
      BY <2>1, <2>3, <2>4, <2>5, SumAdd
    <2>7. SumFunctionOnSet(srp, Account) = 0
      BY <2>1, <2>2, <2>3, <2>4, <2>5, <2>6, SumAdd
    <2>8. SumFunctionOnSet(srpq, Account) = 0
      BY <2>1, <2>2, <2>3, <2>4, <2>5, <2>7, SumAdd
    <2>9. SumFunctionOnSet(all, Account) = 0
      BY <2>1, <2>2, <2>3, <2>4, <2>5, <2>8, SumAdd
    <2> QED BY <2>9 DEF all
  <1> QED BY <1>4, <1>5, <1>6, <1>7, <1>8

-----------------------------------------------------------------------------
\* What the check leaves of a workbook, whatever is written after it.
Checked(f) ==
    /\ NothingTwice(f)
    /\ \A r \in f.invoices : r.paid >= 0
    /\ \A r \in f.stock : r.qty >= 0
    /\ \A v \in f.vouchers : v.sum > 0

Papers == [invoices |-> imported.invoices, vouchers |-> imported.vouchers, cards |-> {}, stock |-> {}]

DocumentsSound ==
    /\ InvoiceRows(imported.invoices) /\ \A r \in imported.invoices : r.paid >= 0
    /\ VoucherRows(imported.vouchers) /\ \A v \in imported.vouchers : v.sum > 0
    /\ NothingTwice(Papers)

Good == [qty : Int, cost : Int]

ShelfSound == IsFiniteSet(DOMAIN shelf) /\ shelf \in [DOMAIN shelf -> Good]

\* Each account against the documents, as the ledger has them.
LedgerSound ==
    /\ sold \in Nat
    /\ ledger \in [Account -> Int] /\ SumFunctionOnSet(ledger, Account) = 0
    /\ ledger["receivable"]
         = Due("customer", imported.invoices) - Cleared("customer", imported.vouchers) + Price * sold
    /\ ledger["payable"] = Cleared("supplier", imported.vouchers) - Due("supplier", imported.invoices)
    /\ restated = {} /\ ~CostBelowZero => ledger["inventory"] = ShelfValue

\* An upload in hand was checked, and what it repeats is not imported while that holds.
UploadsInHand ==
    /\ upload \in [Session -> {NoUpload} \cup [file : DOMAIN Upload, fresh : BOOLEAN]]
    /\ \A s \in Session : upload[s] # NoUpload => Checked(Upload[upload[s].file])
    /\ \A s \in Session : upload[s].fresh => UniqueRefs(Upload[upload[s].file])

MigIInv == DocumentsSound /\ ShelfSound /\ LedgerSound /\ UploadsInHand

LEMMA Constants == Price \in Int /\ 0 \notin DOMAIN Upload /\ \A u \in DOMAIN Upload : Workbook(Upload[u])
  BY MigrationAssumption

LEMMA HandsFile ==
    ASSUME UploadsInHand, NEW s \in Session, upload[s] # NoUpload
    PROVE  upload[s].file \in DOMAIN Upload /\ Workbook(Upload[upload[s].file])
  BY Constants DEF UploadsInHand

\* Rows of two sets that share none on a side.
LEMMA DueJoin ==
    ASSUME NEW A, InvoiceRows(A), NEW B, InvoiceRows(B), NEW side, On(side, A) \cap On(side, B) = {}
    PROVE  Due(side, A \cup B) = Due(side, A) + Due(side, B)
  <1> DEFINE g == [r \in On(side, A) \cup On(side, B) |-> Kept(r.total) - Kept(r.paid)]
  <1>1. On(side, A \cup B) = On(side, A) \cup On(side, B)
    BY DEF On
  <1>2. /\ IsFiniteSet(On(side, A)) /\ IsFiniteSet(On(side, B))
        /\ \A r \in On(side, A) \cup On(side, B) : InvoiceRow(r)
    BY OnRows DEF InvoiceRows
  <1>3. Whole(g, On(side, A) \cup On(side, B))
    BY <1>2, KeptIs DEF Whole, InvoiceRow
  <1>4. SumFunctionOnSet(g, On(side, A) \cup On(side, B))
          = SumFunctionOnSet(g, On(side, A)) + SumFunctionOnSet(g, On(side, B))
    <2> HIDE DEF g
    <2> QED BY <1>2, <1>3, SumJoin
  <1>5. SumFunctionOnSet(g, On(side, A)) = Due(side, A)
    <2>1. SameTerms(g, [r \in On(side, A) |-> Kept(r.total) - Kept(r.paid)], On(side, A))
      BY DEF SameTerms
    <2> HIDE DEF g
    <2> QED BY <1>2, <2>1, SumSame DEF Due
  <1>6. SumFunctionOnSet(g, On(side, B)) = Due(side, B)
    <2>1. SameTerms(g, [r \in On(side, B) |-> Kept(r.total) - Kept(r.paid)], On(side, B))
      BY DEF SameTerms
    <2> HIDE DEF g
    <2> QED BY <1>2, <2>1, SumSame DEF Due
  <1>7. Due(side, A \cup B) = SumFunctionOnSet(g, On(side, A) \cup On(side, B))
    BY <1>1 DEF Due
  <1> HIDE DEF g
  <1> QED BY <1>4, <1>5, <1>6, <1>7

LEMMA ClearedJoin ==
    ASSUME NEW A, VoucherRows(A), NEW B, VoucherRows(B), NEW side, On(side, A) \cap On(side, B) = {}
    PROVE  Cleared(side, A \cup B) = Cleared(side, A) + Cleared(side, B)
  <1> DEFINE g == [v \in On(side, A) \cup On(side, B) |-> Kept(v.sum)]
  <1>1. On(side, A \cup B) = On(side, A) \cup On(side, B)
    BY DEF On
  <1>2. /\ IsFiniteSet(On(side, A)) /\ IsFiniteSet(On(side, B))
        /\ \A v \in On(side, A) \cup On(side, B) : VoucherRow(v)
    BY OnRows DEF VoucherRows
  <1>3. Whole(g, On(side, A) \cup On(side, B))
    BY <1>2, KeptIs DEF Whole, VoucherRow
  <1>4. SumFunctionOnSet(g, On(side, A) \cup On(side, B))
          = SumFunctionOnSet(g, On(side, A)) + SumFunctionOnSet(g, On(side, B))
    <2> HIDE DEF g
    <2> QED BY <1>2, <1>3, SumJoin
  <1>5. SumFunctionOnSet(g, On(side, A)) = Cleared(side, A)
    <2>1. SameTerms(g, [v \in On(side, A) |-> Kept(v.sum)], On(side, A))
      BY DEF SameTerms
    <2> HIDE DEF g
    <2> QED BY <1>2, <2>1, SumSame DEF Cleared
  <1>6. SumFunctionOnSet(g, On(side, B)) = Cleared(side, B)
    <2>1. SameTerms(g, [v \in On(side, B) |-> Kept(v.sum)], On(side, B))
      BY DEF SameTerms
    <2> HIDE DEF g
    <2> QED BY <1>2, <2>1, SumSame DEF Cleared
  <1>7. Cleared(side, A \cup B) = SumFunctionOnSet(g, On(side, A) \cup On(side, B))
    BY <1>1 DEF Cleared
  <1> HIDE DEF g
  <1> QED BY <1>4, <1>5, <1>6, <1>7

-----------------------------------------------------------------------------
\* The stock sheet, row by row, is the shelf, batch by batch.
LEMMA BatchesOf ==
    ASSUME NEW f, Workbook(f), NothingTwice(f)
    PROVE  LET B == {r.batch : r \in f.stock} IN
           /\ IsFiniteSet(B)
           /\ \A r \in f.stock : r.batch \in DOMAIN Asserted(f)
                                 /\ Asserted(f)[r.batch] = [qty |-> r.qty, cost |-> r.cost]
           /\ \A b \in DOMAIN shelf \ B : Asserted(f)[b] = shelf[b]
           /\ DOMAIN Asserted(f) = DOMAIN shelf \cup B
  <1> DEFINE B == {r.batch : r \in f.stock}
  <1>1. IsFiniteSet(B)
    <2>1. [r \in f.stock |-> r.batch] \in Surjection(f.stock, B)
      BY DEF Surjection
    <2>2. IsFiniteSet(f.stock)
      BY DEF Workbook
    <2> HIDE DEF B
    <2> QED BY <2>1, <2>2, FS_Surjection
  <1>2. DOMAIN Asserted(f) = DOMAIN shelf \cup B
    BY DEF Asserted
  <1>3. ASSUME NEW r \in f.stock
        PROVE  Asserted(f)[r.batch] = [qty |-> r.qty, cost |-> r.cost]
    <2>1. {q \in f.stock : q.batch = r.batch} = {r}
      BY DEF NothingTwice
    <2>2. (CHOOSE q \in {q \in f.stock : q.batch = r.batch} : TRUE) = r
      BY <2>1
    <2>3. r.batch \in DOMAIN shelf \cup B
      OBVIOUS
    <2> QED BY <2>1, <2>2, <2>3 DEF Asserted
  <1>4. ASSUME NEW b \in DOMAIN shelf \ B
        PROVE  Asserted(f)[b] = shelf[b]
    <2>1. {q \in f.stock : q.batch = b} = {}
      BY <1>4
    <2> QED BY <2>1 DEF Asserted
  <1> QED BY <1>1, <1>2, <1>3, <1>4

LEMMA SumOfOne ==
    ASSUME NEW e, NEW x, e[x] \in Int
    PROVE  SumFunctionOnSet(e, {x}) = e[x]
  <1>1. IsFiniteSet({x}) /\ Whole(e, {x})
    BY FS_Singleton DEF Whole
  <1>2. SumFunctionOnSet(e, {x}) = e[x] + SumFunctionOnSet(e, {x} \ {x})
    BY <1>1, SumSplit
  <1>3. {x} \ {x} = {} /\ SumFunctionOnSet(e, {}) = 0
    BY SumStep, FS_EmptySet
  <1> QED BY <1>2, <1>3

\* A sheet of batches the shelf did not have adds its value to the shelf's.
LEMMA AssertedValue ==
    ASSUME NEW f, Workbook(f), NothingTwice(f), ShelfSound,
           \A r \in f.stock : r.batch \notin DOMAIN shelf,
           NEW new, new = Asserted(f)
    PROVE  SumFunctionOnSet([b \in DOMAIN new |-> new[b].qty * new[b].cost], DOMAIN new)
             = ShelfValue + StockValue(f)
  <1> DEFINE B == {r.batch : r \in f.stock}
             D == DOMAIN shelf
             val == [b \in DOMAIN new |-> new[b].qty * new[b].cost]
             rowval == [r \in f.stock |-> r.qty * r.cost]
             key == [r \in f.stock |-> r.batch]
  <1>1. /\ IsFiniteSet(B) /\ IsFiniteSet(D) /\ DOMAIN new = D \cup B /\ D \cap B = {}
    BY BatchesOf DEF ShelfSound
  <1>2. \A r \in f.stock : val[r.batch] = rowval[r] /\ rowval[r] \in Int
    <2> SUFFICES ASSUME NEW r \in f.stock
                 PROVE  val[r.batch] = rowval[r] /\ rowval[r] \in Int
      OBVIOUS
    <2>1. r.batch \in DOMAIN new /\ new[r.batch] = [qty |-> r.qty, cost |-> r.cost]
      BY BatchesOf
    <2>2. r.qty \in Int /\ r.cost \in Int
      BY DEF Workbook, StockRow
    <2>3. val[r.batch] = new[r.batch].qty * new[r.batch].cost
      BY <2>1
    <2>4. val[r.batch] = r.qty * r.cost
      BY <2>1, <2>3
    <2> QED BY <2>2, <2>4
  <1>3. \A b \in D : val[b] = shelf[b].qty * shelf[b].cost /\ val[b] \in Int
    <2>1. \A b \in D : shelf[b] \in Good /\ b \notin B /\ b \in DOMAIN new
      BY <1>1 DEF ShelfSound
    <2>2. \A b \in D : new[b] = shelf[b]
      BY <2>1, BatchesOf
    <2>3. \A b \in D : shelf[b].qty \in Int /\ shelf[b].cost \in Int
      BY <2>1 DEF Good
    <2> QED BY <2>1, <2>2, <2>3
  <1>4. Whole(val, D \cup B)
    <2> SUFFICES ASSUME NEW b \in D \cup B
                 PROVE  val[b] \in Int
      BY DEF Whole
    <2>1. CASE b \in D
      BY <1>3, <2>1
    <2>2. CASE b \in B
      <3>1. PICK r \in f.stock : r.batch = b
        BY <2>2
      <3>2. val[r.batch] = rowval[r] /\ rowval[r] \in Int
        BY <1>2
      <3> QED BY <3>1, <3>2
    <2> QED BY <2>1, <2>2
  <1>5. SumFunctionOnSet(val, D \cup B) = SumFunctionOnSet(val, D) + SumFunctionOnSet(val, B)
    <2> HIDE DEF val, B, D
    <2> QED BY <1>1, <1>4, SumJoin
  <1>6. SumFunctionOnSet(val, D) = ShelfValue
    <2>1. SameTerms(val, [b \in D |-> shelf[b].qty * shelf[b].cost], D)
      BY <1>3 DEF SameTerms
    <2> HIDE DEF val
    <2> QED BY <1>1, <2>1, SumSame DEF ShelfValue
  <1>7. SumFunctionOnSet(val, B) = StockValue(f)
    <2> DEFINE byBatch == [n \in B |-> SumFunctionOnSet(rowval, {x \in f.stock : key[x] = n})]
    <2>1. IsFiniteSet(f.stock) /\ Whole(rowval, f.stock) /\ \A x \in f.stock : key[x] \in B
      BY <1>2 DEF Workbook, Whole
    <2>2. SumFunctionOnSet(byBatch, B) = SumFunctionOnSet(rowval, f.stock)
      <3> HIDE DEF rowval, key, B
      <3> QED BY <1>1, <2>1, SumByKey
    <2>3. ASSUME NEW n \in B
          PROVE  byBatch[n] = val[n]
      <3>1. PICK r \in f.stock : r.batch = n
        OBVIOUS
      <3>2. {x \in f.stock : key[x] = n} = {r}
        BY <3>1 DEF NothingTwice
      <3>3. rowval[r] \in Int /\ val[n] = rowval[r]
        BY <1>2, <3>1
      <3> HIDE DEF rowval, val
      <3>4. SumFunctionOnSet(rowval, {r}) = rowval[r]
        BY <3>3, SumOfOne
      <3> QED BY <3>2, <3>3, <3>4
    <2>4. SameTerms(byBatch, val, B)
      BY <2>3 DEF SameTerms
    <2> HIDE DEF byBatch, val, B, key
    <2>5. SumFunctionOnSet(byBatch, B) = SumFunctionOnSet(val, B)
      BY <1>1, <2>4, SumSame
    <2> QED BY <2>2, <2>5 DEF StockValue
  <1>8. SumFunctionOnSet(val, DOMAIN new) = SumFunctionOnSet(val, D \cup B)
    BY <1>1
  <1> HIDE DEF B, D
  <1> QED BY <1>5, <1>6, <1>7, <1>8

-----------------------------------------------------------------------------
LEMMA MigrationInvInit == MigrationInit => MigIInv
  <1> SUFFICES ASSUME MigrationInit
               PROVE  MigIInv
    OBVIOUS
  <1>1. /\ imported.invoices = {} /\ imported.vouchers = {} /\ DOMAIN shelf = {}
        /\ ledger = [a \in Account |-> 0] /\ sold = 0 /\ upload = [s \in Session |-> NoUpload]
    BY DEF MigrationInit
  <1>2. IsFiniteSet({})
    BY FS_EmptySet
  <1>3. DocumentsSound
    BY <1>1, <1>2 DEF DocumentsSound, InvoiceRows, VoucherRows, NothingTwice, Papers
  <1>4. ShelfSound
    BY <1>2 DEF MigrationInit, ShelfSound
  <1>5. LedgerSound
    <2>1. \A g : SumFunctionOnSet(g, {}) = 0
      BY <1>2, SumStep
    <2>2. \A side : On(side, {}) = {}
      BY DEF On
    <2>3. /\ Due("customer", imported.invoices) = 0 /\ Due("supplier", imported.invoices) = 0
          /\ Cleared("customer", imported.vouchers) = 0 /\ Cleared("supplier", imported.vouchers) = 0
      BY <1>1, <2>1, <2>2 DEF Due, Cleared
    <2>4. ShelfValue = 0
      BY <1>1, <2>1 DEF ShelfValue
    <2>5. SumFunctionOnSet(ledger, Account) = 0
      <3>1. IsFiniteSet(Account)
        <4>1. Whole(ledger, Account)
          BY <1>1 DEF Whole
        <4> QED BY <4>1, AccountSum
      <3>2. SameTerms(ledger, [a \in Account |-> 0], Account)
        BY <1>1 DEF SameTerms
      <3> QED BY <3>1, <3>2, SumZero
    <2>6. /\ ledger["receivable"] = 0 /\ ledger["payable"] = 0 /\ ledger["inventory"] = 0
          /\ ledger \in [Account -> Int]
      BY <1>1, Accounts
    <2> QED BY <1>1, <2>3, <2>4, <2>5, <2>6, Constants DEF LedgerSound
  <1>6. UploadsInHand
    BY <1>1 DEF UploadsInHand, NoUpload
  <1> QED BY <1>3, <1>4, <1>5, <1>6 DEF MigIInv

-----------------------------------------------------------------------------
(* A piece is sold *)

\* What a sale makes of the ledger, for a price and a cost, and of the shelf.
Billed(books, p, c) ==
    [books EXCEPT !["receivable"] = @ + p, !["revenue"] = @ - p,
                  !["cogs"] = @ + c, !["inventory"] = @ - c]

Without(goods, b) == [goods EXCEPT ![b].qty = @ - 1]

LEMMA SaleOnBooks ==
    ASSUME NEW old \in [Account -> Int], NEW p \in Int, NEW c \in Int, NEW new,
           new = Billed(old, p, c)
    PROVE  /\ new \in [Account -> Int]
           /\ SumFunctionOnSet(new, Account) = SumFunctionOnSet(old, Account)
           /\ new["receivable"] = old["receivable"] + p /\ new["payable"] = old["payable"]
           /\ new["inventory"] = old["inventory"] - c
  <1>1. \A a \in Account : old[a] \in Int
    OBVIOUS
  <1>2. \A a \in Account : new[a] = CASE a = "receivable" -> old[a] + p [] a = "revenue" -> old[a] - p
                                       [] a = "cogs" -> old[a] + c [] a = "inventory" -> old[a] - c
                                       [] OTHER -> old[a]
    BY DEF Billed
  <1>3. new \in [Account -> Int]
    <2>1. DOMAIN new = Account /\ new = [a \in Account |-> new[a]]
      BY DEF Billed
    <2>2. \A a \in Account : new[a] \in Int
      BY <1>1, <1>2
    <2> QED BY <2>1, <2>2
  <1>4. /\ new["cash"] = old["cash"] /\ new["bank"] = old["bank"]
        /\ new["receivable"] = old["receivable"] + p /\ new["inventory"] = old["inventory"] - c
        /\ new["payable"] = old["payable"] /\ new["vat"] = old["vat"]
        /\ new["capital"] = old["capital"] /\ new["revenue"] = old["revenue"] - p
        /\ new["discount"] = old["discount"] /\ new["cogs"] = old["cogs"] + c
    BY <1>2, Accounts
  <1>5. Whole(old, Account) /\ Whole(new, Account)
    BY <1>1, <1>3 DEF Whole
  <1>6. SumFunctionOnSet(new, Account)
          = new["cash"] + new["bank"] + new["receivable"] + new["inventory"] + new["payable"]
            + new["vat"] + new["capital"] + new["revenue"] + new["discount"] + new["cogs"]
    BY <1>5, AccountSum
  <1>7. SumFunctionOnSet(old, Account)
          = old["cash"] + old["bank"] + old["receivable"] + old["inventory"] + old["payable"]
            + old["vat"] + old["capital"] + old["revenue"] + old["discount"] + old["cogs"]
    BY <1>5, AccountSum
  <1>8. /\ old["cash"] \in Int /\ old["bank"] \in Int /\ old["receivable"] \in Int
        /\ old["inventory"] \in Int /\ old["payable"] \in Int /\ old["vat"] \in Int
        /\ old["capital"] \in Int /\ old["revenue"] \in Int /\ old["discount"] \in Int
        /\ old["cogs"] \in Int
    BY <1>1, Accounts
  <1>9. SumFunctionOnSet(new, Account) = SumFunctionOnSet(old, Account)
    BY <1>4, <1>6, <1>7, <1>8
  <1> QED BY <1>3, <1>4, <1>9

LEMMA SaleOnShelf ==
    ASSUME ShelfSound, NEW b \in DOMAIN shelf, NEW new, new = Without(shelf, b)
    PROVE  /\ DOMAIN new = DOMAIN shelf /\ new \in [DOMAIN shelf -> Good]
           /\ \A d \in DOMAIN shelf : new[d].cost = shelf[d].cost
           /\ shelf[b].cost \in Int
           /\ SumFunctionOnSet([d \in DOMAIN new |-> new[d].qty * new[d].cost], DOMAIN new)
                = ShelfValue - shelf[b].cost
  <1> DEFINE D == DOMAIN shelf
             old == [d \in D |-> shelf[d].qty * shelf[d].cost]
             val == [d \in D |-> new[d].qty * new[d].cost]
  <1>1. \A d \in D : shelf[d] \in Good /\ shelf[d].qty \in Int /\ shelf[d].cost \in Int
    BY DEF ShelfSound, Good
  <1>2. DOMAIN new = D
    BY DEF Without
  <1>3. \A d \in D : d # b => new[d] = shelf[d]
    BY DEF Without
  <1>4. new[b] = [shelf[b] EXCEPT !.qty = @ - 1]
    BY DEF Without
  <1>5. new[b] \in Good /\ new[b].qty = shelf[b].qty - 1 /\ new[b].cost = shelf[b].cost
    BY <1>1, <1>4 DEF Good
  <1>6. new \in [D -> Good]
    <2>1. new = [d \in D |-> new[d]]
      BY <1>2 DEF Without
    <2>2. \A d \in D : new[d] \in Good
      BY <1>1, <1>3, <1>5
    <2> QED BY <2>1, <2>2
  <1>7. \A d \in D : new[d].qty \in Int /\ new[d].cost \in Int
    <2>1. \A d \in D : new[d] \in Good
      BY <1>1, <1>3, <1>5
    <2> QED BY <2>1 DEF Good
  <1>8. Whole(old, D) /\ Whole(val, D)
    BY <1>1, <1>7 DEF Whole
  <1>9. SameTerms(old, val, D \ {b})
    BY <1>3 DEF SameTerms
  <1>10. val[b] - old[b] = -shelf[b].cost
    <2>1. val[b] = (shelf[b].qty - 1) * shelf[b].cost /\ old[b] = shelf[b].qty * shelf[b].cost
      BY <1>5
    <2>2. \A q, c \in Int : (q - 1) * c - q * c = -c
      OBVIOUS
    <2> QED BY <1>1, <2>1, <2>2
  <1>11. IsFiniteSet(D)
    BY DEF ShelfSound
  <1>12. SumFunctionOnSet(val, D) = SumFunctionOnSet(old, D) + (val[b] - old[b])
    <2> HIDE DEF val, old
    <2> QED BY <1>8, <1>9, <1>11, SumChange
  <1>13. SumFunctionOnSet(old, D) = ShelfValue /\ ShelfValue \in Int
    <2>1. SumFunctionOnSet(old, D) = ShelfValue
      BY DEF ShelfValue
    <2> HIDE DEF old
    <2> QED BY <1>8, <1>11, <2>1, SumInt
  <1>14. SumFunctionOnSet([d \in DOMAIN new |-> new[d].qty * new[d].cost], DOMAIN new)
           = SumFunctionOnSet(val, D)
    BY <1>2
  <1>15. SumFunctionOnSet(val, D) = ShelfValue - shelf[b].cost
    <2> HIDE DEF val, old
    <2> QED BY <1>1, <1>10, <1>12, <1>13
  <1> QED BY <1>1, <1>2, <1>3, <1>5, <1>6, <1>14, <1>15

LEMMA MigrationInvSell ==
    ASSUME MigIInv, NEW b \in Batch, SellPiece(b)
    PROVE  MigIInv'
  <1> DEFINE c == shelf[b].cost
  <1>1. /\ b \in DOMAIN shelf /\ sold' = sold + 1
        /\ shelf' = Without(shelf, b) /\ ledger' = Billed(ledger, Price, Kept(c))
        /\ UNCHANGED <<imported, card, store, runs, upload, restated>>
    BY DEF SellPiece, Billed, Without
  <1>2. DocumentsSound /\ ShelfSound /\ LedgerSound /\ UploadsInHand
    BY DEF MigIInv
  <1>3. DocumentsSound'
    BY <1>1, <1>2 DEF DocumentsSound, InvoiceRows, VoucherRows, NothingTwice, Papers
  <1>4. /\ DOMAIN shelf' = DOMAIN shelf /\ shelf' \in [DOMAIN shelf -> Good]
        /\ \A d \in DOMAIN shelf : shelf'[d].cost = shelf[d].cost
        /\ c \in Int
        /\ SumFunctionOnSet([d \in DOMAIN shelf' |-> shelf'[d].qty * shelf'[d].cost], DOMAIN shelf')
             = ShelfValue - c
    BY <1>1, <1>2, SaleOnShelf
  <1>5. ShelfSound'
    BY <1>2, <1>4 DEF ShelfSound
  <1>6. UploadsInHand'
    BY <1>1, <1>2 DEF UploadsInHand, Checked, UniqueRefs, FreshSales, FreshPurchases, NoneImported
  <1>7. LedgerSound'
    <2>1. Kept(c) \in Int /\ (c >= 0 => Kept(c) = c)
      BY <1>4, KeptIs
    <2>2. /\ ledger' \in [Account -> Int]
          /\ SumFunctionOnSet(ledger', Account) = SumFunctionOnSet(ledger, Account)
          /\ ledger'["receivable"] = ledger["receivable"] + Price
          /\ ledger'["payable"] = ledger["payable"]
          /\ ledger'["inventory"] = ledger["inventory"] - Kept(c)
      <3>1. ledger \in [Account -> Int] /\ Price \in Int
        BY <1>2, Constants DEF LedgerSound
      <3>2. PICK cost \in Int : cost = Kept(c)
        BY <2>1
      <3>3. ledger' = Billed(ledger, Price, cost)
        BY <1>1, <3>2
      <3>4. /\ ledger' \in [Account -> Int]
            /\ SumFunctionOnSet(ledger', Account) = SumFunctionOnSet(ledger, Account)
            /\ ledger'["receivable"] = ledger["receivable"] + Price
            /\ ledger'["payable"] = ledger["payable"]
            /\ ledger'["inventory"] = ledger["inventory"] - cost
        BY <3>1, <3>3, SaleOnBooks
      <3> QED BY <3>2, <3>4
    <2>3. sold \in Nat /\ sold' \in Nat
      BY <1>1, <1>2 DEF LedgerSound
    <2>4. Price * sold' = Price * sold + Price /\ Price * sold \in Int
      <3>1. \A p, n \in Int : p * (n + 1) = p * n + p /\ p * n \in Int
        OBVIOUS
      <3> QED BY <1>1, <2>3, <3>1, Constants
    <2>5. /\ imported' = imported
          /\ Due("customer", imported.invoices) \in Int /\ Cleared("customer", imported.vouchers) \in Int
      BY <1>1, <1>2, DueIsInt, ClearedIsInt DEF DocumentsSound
    <2>6. (ledger["receivable"]
             = Due("customer", imported.invoices) - Cleared("customer", imported.vouchers) + Price * sold)'
      <3>1. ledger'["receivable"]
              = Due("customer", imported.invoices) - Cleared("customer", imported.vouchers)
                + Price * sold + Price
        BY <1>2, <2>2 DEF LedgerSound
      <3>2. ledger'["receivable"]
              = Due("customer", imported.invoices) - Cleared("customer", imported.vouchers)
                + Price * sold'
        <4> DEFINE x == Due("customer", imported.invoices)
                   y == Cleared("customer", imported.vouchers)
        <4>1. x \in Int /\ y \in Int /\ Price \in Int
          BY <2>5, Constants
        <4> HIDE DEF x, y
        <4>2. x - y + Price * sold + Price = x - y + Price * sold'
          BY <2>4, <4>1
        <4> QED BY <3>1, <4>2 DEF x, y
      <3> QED BY <2>5, <3>2
    <2>7. (restated = {} /\ ~CostBelowZero => ledger["inventory"] = ShelfValue)'
      <3> SUFFICES ASSUME restated' = {}, ~CostBelowZero'
                   PROVE  ledger'["inventory"] = ShelfValue'
        OBVIOUS
      <3>1. ~CostBelowZero /\ c >= 0
        BY <1>1, <1>4 DEF CostBelowZero
      <3>2. restated = {}
        BY <1>1
      <3>3. ledger["inventory"] = ShelfValue
        BY <1>2, <3>1, <3>2 DEF LedgerSound
      <3>4. ShelfValue' = ShelfValue - c
        BY <1>4 DEF ShelfValue
      <3> QED BY <2>1, <2>2, <3>1, <3>3, <3>4
    <2>8. (ledger["payable"]
             = Cleared("supplier", imported.vouchers) - Due("supplier", imported.invoices))'
      BY <1>2, <2>2, <2>5 DEF LedgerSound
    <2>9. (sold \in Nat /\ ledger \in [Account -> Int] /\ SumFunctionOnSet(ledger, Account) = 0)'
      BY <1>2, <2>2, <2>3 DEF LedgerSound
    <2> QED BY <2>6, <2>7, <2>8, <2>9 DEF LedgerSound
  <1> QED BY <1>3, <1>5, <1>6, <1>7 DEF MigIInv

-----------------------------------------------------------------------------
(* An upload is checked, applied or given up *)

LEMMA ValidatedIsChecked ==
    ASSUME NEW f, Workbook(f), Validated(f)
    PROVE  Checked(f) /\ UniqueRefs(f)
  <1>1. NothingTwice(f) /\ (\A r \in f.stock : r.qty >= 0) /\ (\A v \in f.vouchers : v.sum > 0)
    BY DEF Validated
  <1>2. UniqueRefs(f)
    BY DEF Validated, UniqueRefs
  <1>3. ASSUME NEW r \in f.invoices
        PROVE  r.paid >= 0
    <2>1. r.side \in {"customer", "supplier"}
      BY DEF Workbook, InvoiceRow
    <2>2. r \in On("customer", f.invoices) \/ r \in On("supplier", f.invoices)
      BY <2>1 DEF On
    <2>3. OfItsLines(r)
      BY <2>2 DEF Validated, SaleAgrees, PurchaseAgrees
    <2> QED BY <2>3 DEF OfItsLines
  <1> QED BY <1>1, <1>2, <1>3 DEF Checked

LEMMA MigrationInvCheck ==
    ASSUME MigIInv, NEW s \in Session, NEW u \in DOMAIN Upload, Check(s, u)
    PROVE  MigIInv'
  <1>1. /\ upload' = [upload EXCEPT ![s] = [file |-> u, fresh |-> TRUE]] /\ Validated(Upload[u])
        /\ UNCHANGED <<imported, card, store, shelf, ledger, sold, runs, restated>>
    BY DEF Check
  <1>2. DocumentsSound /\ ShelfSound /\ LedgerSound /\ UploadsInHand
    BY DEF MigIInv
  <1>3. Checked(Upload[u]) /\ UniqueRefs(Upload[u])
    BY <1>1, Constants, ValidatedIsChecked
  <1>4. UploadsInHand'
    <2>1. /\ upload \in [Session -> {NoUpload} \cup [file : DOMAIN Upload, fresh : BOOLEAN]]
          /\ upload'[s] = [file |-> u, fresh |-> TRUE]
          /\ \A r \in Session : r # s => upload'[r] = upload[r]
      BY <1>1, <1>2 DEF UploadsInHand
    <2>2. upload' \in [Session -> {NoUpload} \cup [file : DOMAIN Upload, fresh : BOOLEAN]]
      BY <1>1, <2>1
    <2>3. ASSUME NEW r \in Session, upload'[r] # NoUpload
          PROVE  Checked(Upload[upload'[r].file])
      <3>1. CASE r = s
        BY <1>3, <2>1, <3>1
      <3>2. CASE r # s
        BY <1>2, <2>1, <2>3, <3>2 DEF UploadsInHand
      <3> QED BY <3>1, <3>2
    <2>4. ASSUME NEW r \in Session, upload'[r].fresh
          PROVE  UniqueRefs(Upload[upload'[r].file])
      <3>1. CASE r = s
        BY <1>3, <2>1, <3>1
      <3>2. CASE r # s
        BY <1>2, <2>1, <2>4, <3>2 DEF UploadsInHand
      <3> QED BY <3>1, <3>2
    <2>5. (\A r \in Session : upload[r].fresh => UniqueRefs(Upload[upload[r].file]))'
      BY <1>1, <2>4 DEF UniqueRefs, FreshSales, FreshPurchases, NoneImported
    <2>6. (\A r \in Session : upload[r] # NoUpload => Checked(Upload[upload[r].file]))'
      BY <2>3 DEF Checked, NothingTwice
    <2> QED BY <2>2, <2>5, <2>6 DEF UploadsInHand
  <1>5. DocumentsSound' /\ ShelfSound' /\ LedgerSound'
    BY <1>1, <1>2 DEF DocumentsSound, InvoiceRows, VoucherRows, NothingTwice, Papers, ShelfSound,
                      LedgerSound, CostBelowZero, ShelfValue
  <1> QED BY <1>4, <1>5 DEF MigIInv

LEMMA MigrationInvAbort ==
    ASSUME MigIInv, NEW s \in Session, AbortUpload(s)
    PROVE  MigIInv'
  <1>1. /\ upload' = [upload EXCEPT ![s] = NoUpload]
        /\ UNCHANGED <<imported, card, store, shelf, ledger, sold, runs, restated>>
    BY DEF AbortUpload
  <1>2. DocumentsSound /\ ShelfSound /\ LedgerSound /\ UploadsInHand
    BY DEF MigIInv
  <1>3. UploadsInHand'
    <2>1. /\ upload \in [Session -> {NoUpload} \cup [file : DOMAIN Upload, fresh : BOOLEAN]]
          /\ upload'[s] = NoUpload
          /\ \A r \in Session : r # s => upload'[r] = upload[r]
      BY <1>1, <1>2 DEF UploadsInHand
    <2>2. upload' \in [Session -> {NoUpload} \cup [file : DOMAIN Upload, fresh : BOOLEAN]]
      BY <1>1, <2>1
    <2>3. ~NoUpload.fresh
      BY DEF NoUpload
    <2>4. \A r \in Session : upload'[r] # NoUpload => Checked(Upload[upload'[r].file])
      BY <1>2, <2>1 DEF UploadsInHand
    <2>5. \A r \in Session : upload'[r].fresh => UniqueRefs(Upload[upload'[r].file])
      BY <1>2, <2>1, <2>3 DEF UploadsInHand
    <2>6. (\A r \in Session : upload[r].fresh => UniqueRefs(Upload[upload[r].file]))'
      BY <1>1, <2>5 DEF UniqueRefs, FreshSales, FreshPurchases, NoneImported
    <2>7. (\A r \in Session : upload[r] # NoUpload => Checked(Upload[upload[r].file]))'
      BY <2>4 DEF Checked, NothingTwice
    <2> QED BY <2>2, <2>6, <2>7 DEF UploadsInHand
  <1>4. DocumentsSound' /\ ShelfSound' /\ LedgerSound'
    BY <1>1, <1>2 DEF DocumentsSound, InvoiceRows, VoucherRows, NothingTwice, Papers, ShelfSound,
                      LedgerSound, CostBelowZero, ShelfValue
  <1> QED BY <1>3, <1>4 DEF MigIInv

\* What bears a reference on a side is not imported there.
LEMMA NewOnTheirSide ==
    ASSUME NEW f, NEW side, NoneImported(side, f)
    PROVE  /\ On(side, imported.invoices) \cap On(side, f.invoices) = {}
           /\ On(side, imported.vouchers) \cap On(side, f.vouchers) = {}
           /\ \A r \in imported.invoices, q \in f.invoices :
                 r.side = side /\ q.side = side => r.ref # q.ref
           /\ \A r \in imported.vouchers, q \in f.vouchers :
                 r.side = side /\ q.side = side => r.ref # q.ref
  <1>1. \A x \in On(side, imported.invoices), y \in On(side, f.invoices) : x.ref # y.ref
    BY DEF NoneImported, RefsOn
  <1>2. \A x \in On(side, imported.vouchers), y \in On(side, f.vouchers) : x.ref # y.ref
    BY DEF NoneImported, RefsOn
  <1>3. /\ On(side, imported.invoices) \cap On(side, f.invoices) = {}
        /\ On(side, imported.vouchers) \cap On(side, f.vouchers) = {}
    BY <1>1, <1>2
  <1> QED BY <1>1, <1>2, <1>3 DEF On

LEMMA StockNotNegative ==
    ASSUME NEW f, Workbook(f), Checked(f), \A r \in f.stock : r.cost >= 0
    PROVE  StockValue(f) >= 0
  <1> DEFINE worth == [r \in f.stock |-> r.qty * r.cost]
             none == [r \in f.stock |-> 0]
  <1>1. IsFiniteSet(f.stock)
    BY DEF Workbook
  <1>2. ASSUME NEW r \in f.stock
        PROVE  worth[r] \in Int /\ 0 <= worth[r]
    <2>1. r.qty \in Nat /\ r.cost \in Nat
      BY <1>2 DEF Workbook, StockRow, Checked
    <2>2. \A m, n \in Nat : m * n \in Nat
      OBVIOUS
    <2> QED BY <2>1, <2>2
  <1>3. Whole(none, f.stock) /\ Whole(worth, f.stock) /\ Below(none, worth, f.stock)
    <2>1. \A r \in f.stock : none[r] = 0
      OBVIOUS
    <2> HIDE DEF none, worth
    <2> QED BY <1>2, <2>1 DEF Whole, Below
  <1>4. SumFunctionOnSet(none, f.stock) = 0
    BY <1>1, SumZero DEF SameTerms
  <1>5. SumFunctionOnSet(none, f.stock) <= SumFunctionOnSet(worth, f.stock)
    <2> HIDE DEF none, worth
    <2> QED BY <1>1, <1>3, SumGrows
  <1>6. SumFunctionOnSet(worth, f.stock) \in Int
    <2> HIDE DEF worth
    <2> QED BY <1>1, <1>3, SumInt
  <1> QED BY <1>4, <1>5, <1>6 DEF StockValue

LEMMA MigrationInvApply ==
    ASSUME MigIInv, NEW s \in Session, Apply(s)
    PROVE  MigIInv'
  <1> DEFINE f == Upload[upload[s].file]
  <1>1. DocumentsSound /\ ShelfSound /\ LedgerSound /\ UploadsInHand
    BY DEF MigIInv
  <1>2. /\ upload[s] # NoUpload /\ Applies(f)
        /\ imported' = [invoices |-> imported.invoices \cup f.invoices,
                        vouchers |-> imported.vouchers \cup f.vouchers]
        /\ shelf' = Asserted(f) /\ ledger' = [a \in Account |-> ledger[a] + Posts(f, a)]
        /\ restated' = restated \cup {r.batch : r \in {q \in f.stock : q.batch \in DOMAIN shelf}}
        /\ upload' = Outdated(s) /\ sold' = sold
    BY DEF Apply
  <1>3. Workbook(f) /\ Checked(f)
    BY <1>1, <1>2, HandsFile DEF UploadsInHand
  <1>4. AllAccepted(f) /\ NoneImported("customer", f) /\ NoneImported("supplier", f)
    BY <1>2 DEF Applies, UniqueRefs, FreshSales, FreshPurchases
  <1>5. /\ imported'.invoices = imported.invoices \cup f.invoices
        /\ imported'.vouchers = imported.vouchers \cup f.vouchers
    BY <1>2
  <1>6. /\ InvoiceRows(imported.invoices) /\ VoucherRows(imported.vouchers)
        /\ InvoiceRows(f.invoices) /\ VoucherRows(f.vouchers)
    BY <1>1, <1>3 DEF DocumentsSound, InvoiceRows, VoucherRows, Workbook
  <1> HIDE DEF f
  <1>7. DocumentsSound'
    <2>1. InvoiceRows(imported.invoices \cup f.invoices) /\ VoucherRows(imported.vouchers \cup f.vouchers)
      BY <1>6, FS_Union DEF InvoiceRows, VoucherRows
    <2>2. \A r \in imported.invoices \cup f.invoices : r.paid >= 0
      BY <1>1, <1>3 DEF DocumentsSound, Checked
    <2>3. \A v \in imported.vouchers \cup f.vouchers : v.sum > 0
      BY <1>1, <1>3 DEF DocumentsSound, Checked
    <2>4. ASSUME NEW r \in imported.invoices \cup f.invoices, NEW q \in imported.invoices \cup f.invoices,
                 r.side = q.side, r.ref = q.ref
          PROVE  r = q
      <3>1. r.side \in {"customer", "supplier"}
        BY <2>1 DEF InvoiceRows, InvoiceRow
      <3>2. /\ r \in imported.invoices /\ q \in imported.invoices => r = q
            /\ r \in f.invoices /\ q \in f.invoices => r = q
        BY <1>1, <1>3, <2>4 DEF DocumentsSound, Papers, Checked, NothingTwice
      <3>3. /\ r \in imported.invoices => q \notin f.invoices
            /\ q \in imported.invoices => r \notin f.invoices
        BY <1>4, <2>4, <3>1, NewOnTheirSide
      <3> QED BY <3>2, <3>3
    <2>5. ASSUME NEW r \in imported.vouchers \cup f.vouchers, NEW q \in imported.vouchers \cup f.vouchers,
                 r.side = q.side, r.ref = q.ref
          PROVE  r = q
      <3>1. r.side \in {"customer", "supplier"}
        BY <2>1 DEF VoucherRows, VoucherRow
      <3>2. /\ r \in imported.vouchers /\ q \in imported.vouchers => r = q
            /\ r \in f.vouchers /\ q \in f.vouchers => r = q
        BY <1>1, <1>3, <2>5 DEF DocumentsSound, Papers, Checked, NothingTwice
      <3>3. /\ r \in imported.vouchers => q \notin f.vouchers
            /\ q \in imported.vouchers => r \notin f.vouchers
        BY <1>4, <2>5, <3>1, NewOnTheirSide
      <3> QED BY <3>2, <3>3
    <2>6. NothingTwice(Papers)'
      BY <1>5, <2>4, <2>5 DEF NothingTwice, Papers
    <2> QED BY <1>5, <2>1, <2>2, <2>3, <2>6 DEF DocumentsSound, InvoiceRows, VoucherRows
  <1>8. /\ IsFiniteSet({r.batch : r \in f.stock})
        /\ DOMAIN Asserted(f) = DOMAIN shelf \cup {r.batch : r \in f.stock}
        /\ \A r \in f.stock : r.batch \in DOMAIN Asserted(f)
                              /\ Asserted(f)[r.batch] = [qty |-> r.qty, cost |-> r.cost]
        /\ \A b \in DOMAIN shelf \ {r.batch : r \in f.stock} : Asserted(f)[b] = shelf[b]
    BY <1>3, BatchesOf DEF Checked
  <1>9. ShelfSound'
    <2>1. IsFiniteSet(DOMAIN Asserted(f))
      <3> DEFINE B == {r.batch : r \in f.stock}
      <3>1. IsFiniteSet(B) /\ DOMAIN Asserted(f) = DOMAIN shelf \cup B
        BY <1>8
      <3>2. IsFiniteSet(DOMAIN shelf)
        BY <1>1 DEF ShelfSound
      <3> HIDE DEF B
      <3> QED BY <3>1, <3>2, FS_Union
    <2>2. ASSUME NEW b \in DOMAIN Asserted(f)
          PROVE  Asserted(f)[b] \in Good
      <3>1. CASE b \in {r.batch : r \in f.stock}
        <4>1. PICK r \in f.stock : r.batch = b
          BY <3>1
        <4>2. r.qty \in Int /\ r.cost \in Int
          BY <1>3 DEF Workbook, StockRow
        <4>3. Asserted(f)[b] = [qty |-> r.qty, cost |-> r.cost]
          BY <1>8, <4>1
        <4> QED BY <4>2, <4>3 DEF Good
      <3>2. CASE b \notin {r.batch : r \in f.stock}
        BY <1>1, <1>8, <2>2, <3>2 DEF ShelfSound
      <3> QED BY <3>1, <3>2
    <2>3. Asserted(f) = [b \in DOMAIN Asserted(f) |-> Asserted(f)[b]]
      BY <1>8 DEF Asserted
    <2>4. Asserted(f) \in [DOMAIN Asserted(f) -> Good]
      BY <2>2, <2>3
    <2> QED BY <1>2, <2>1, <2>4 DEF ShelfSound
  <1>10. /\ \A a \in Account : Posts(f, a) \in Int
         /\ Posts(f, "receivable") = Due("customer", f.invoices) - Cleared("customer", f.vouchers)
         /\ Posts(f, "payable") = Cleared("supplier", f.vouchers) - Due("supplier", f.invoices)
         /\ Posts(f, "inventory") = Kept(StockValue(f))
         /\ SumFunctionOnSet([a \in Account |-> Posts(f, a)], Account) = 0
    BY <1>3, <1>4, AllPosts
  <1>11. \A a \in Account : ledger[a] \in Int /\ ledger'[a] = ledger[a] + Posts(f, a)
    BY <1>1, <1>2 DEF LedgerSound
  <1>12. (ledger \in [Account -> Int] /\ SumFunctionOnSet(ledger, Account) = 0)'
    <2> DEFINE posts == [a \in Account |-> Posts(f, a)]
    <2>1. Whole(ledger, Account) /\ Whole(posts, Account) /\ Adds(ledger, posts, ledger', Account)
      BY <1>10, <1>11 DEF Whole, Adds
    <2>2. IsFiniteSet(Account)
      BY <2>1, AccountSum
    <2>3. ledger' \in [Account -> Int]
      BY <1>2, <1>10, <1>11
    <2>4. SumFunctionOnSet(ledger, Account) = 0 /\ SumFunctionOnSet(posts, Account) = 0
      BY <1>1, <1>10 DEF LedgerSound
    <2> HIDE DEF posts
    <2>5. SumFunctionOnSet(ledger', Account) = SumFunctionOnSet(ledger, Account) + SumFunctionOnSet(posts, Account)
      BY <2>1, <2>2, SumAdd
    <2> QED BY <2>3, <2>4, <2>5
  <1>13. (ledger["receivable"]
            = Due("customer", imported.invoices) - Cleared("customer", imported.vouchers) + Price * sold)'
    <2>1. /\ Due("customer", imported.invoices) \in Int /\ Due("customer", f.invoices) \in Int
          /\ Cleared("customer", imported.vouchers) \in Int /\ Cleared("customer", f.vouchers) \in Int
      BY <1>6, DueIsInt, ClearedIsInt
    <2>2. Due("customer", imported.invoices \cup f.invoices)
            = Due("customer", imported.invoices) + Due("customer", f.invoices)
      BY <1>4, <1>6, NewOnTheirSide, DueJoin
    <2>3. Cleared("customer", imported.vouchers \cup f.vouchers)
            = Cleared("customer", imported.vouchers) + Cleared("customer", f.vouchers)
      BY <1>4, <1>6, NewOnTheirSide, ClearedJoin
    <2>4. PICK money \in Int : money = Price * sold
      <3>1. \A p, n \in Int : p * n \in Int
        OBVIOUS
      <3> QED BY <1>1, <3>1, Constants DEF LedgerSound
    <2>5. ledger["receivable"]
            = Due("customer", imported.invoices) - Cleared("customer", imported.vouchers) + money
      BY <1>1, <2>4 DEF LedgerSound
    <2>6. ledger'["receivable"] = ledger["receivable"] + Posts(f, "receivable")
      BY <1>11, Accounts
    <2>7. ledger'["receivable"] = Due("customer", imported.invoices \cup f.invoices)
                                  - Cleared("customer", imported.vouchers \cup f.vouchers) + money
      BY <1>10, <2>1, <2>2, <2>3, <2>5, <2>6
    <2> QED BY <1>2, <1>5, <2>4, <2>7
  <1>14. (ledger["payable"]
            = Cleared("supplier", imported.vouchers) - Due("supplier", imported.invoices))'
    <2>1. /\ Due("supplier", imported.invoices) \in Int /\ Due("supplier", f.invoices) \in Int
          /\ Cleared("supplier", imported.vouchers) \in Int /\ Cleared("supplier", f.vouchers) \in Int
      BY <1>6, DueIsInt, ClearedIsInt
    <2>2. Due("supplier", imported.invoices \cup f.invoices)
            = Due("supplier", imported.invoices) + Due("supplier", f.invoices)
      BY <1>4, <1>6, NewOnTheirSide, DueJoin
    <2>3. Cleared("supplier", imported.vouchers \cup f.vouchers)
            = Cleared("supplier", imported.vouchers) + Cleared("supplier", f.vouchers)
      BY <1>4, <1>6, NewOnTheirSide, ClearedJoin
    <2>4. ledger["payable"] = Cleared("supplier", imported.vouchers) - Due("supplier", imported.invoices)
      BY <1>1 DEF LedgerSound
    <2>5. ledger'["payable"] = ledger["payable"] + Posts(f, "payable")
      BY <1>11, Accounts
    <2>6. ledger'["payable"] = Cleared("supplier", imported.vouchers \cup f.vouchers)
                               - Due("supplier", imported.invoices \cup f.invoices)
      BY <1>10, <2>1, <2>2, <2>3, <2>4, <2>5
    <2> QED BY <1>5, <2>6
  <1>15. (restated = {} /\ ~CostBelowZero => ledger["inventory"] = ShelfValue)'
    <2> SUFFICES ASSUME restated' = {}, ~CostBelowZero'
                 PROVE  ledger'["inventory"] = ShelfValue'
      OBVIOUS
    <2>1. restated = {} /\ \A r \in f.stock : r.batch \notin DOMAIN shelf
      BY <1>2
    <2>2. \A b \in DOMAIN Asserted(f) : ~(Asserted(f)[b].cost < 0)
      BY <1>2 DEF CostBelowZero
    <2>3. \A r \in f.stock : r.cost >= 0
      <3> SUFFICES ASSUME NEW r \in f.stock
                   PROVE  r.cost >= 0
        OBVIOUS
      <3>1. r.batch \in DOMAIN Asserted(f) /\ Asserted(f)[r.batch] = [qty |-> r.qty, cost |-> r.cost]
        BY <1>8
      <3>2. ~(r.cost < 0)
        BY <2>2, <3>1
      <3>3. r.cost \in Int
        BY <1>3 DEF Workbook, StockRow
      <3> QED BY <3>2, <3>3
    <2>4. ~CostBelowZero
      BY <1>8, <2>1, <2>2 DEF CostBelowZero
    <2>5. ledger["inventory"] = ShelfValue
      BY <1>1, <2>1, <2>4 DEF LedgerSound
    <2>6. Kept(StockValue(f)) = StockValue(f)
      <3>1. StockValue(f) \in Int /\ StockValue(f) >= 0
        BY <1>3, <2>3, OpeningEntries, StockNotNegative
      <3> QED BY <3>1, KeptIs
    <2>7. SumFunctionOnSet([b \in DOMAIN shelf' |-> shelf'[b].qty * shelf'[b].cost], DOMAIN shelf')
            = ShelfValue + StockValue(f)
      BY <1>1, <1>2, <1>3, <2>1, AssertedValue DEF Checked
    <2>8. ShelfValue' = ShelfValue + StockValue(f)
      BY <2>7 DEF ShelfValue
    <2>9. ledger'["inventory"] = ledger["inventory"] + Posts(f, "inventory")
      BY <1>11, Accounts
    <2> QED BY <1>10, <2>5, <2>6, <2>8, <2>9
  <1>16. LedgerSound'
    <2>1. sold' \in Nat
      BY <1>1, <1>2 DEF LedgerSound
    <2> QED BY <1>12, <1>13, <1>14, <1>15, <2>1 DEF LedgerSound
  <1>17. UploadsInHand'
    <2>1. ASSUME NEW r \in Session
          PROVE  /\ upload'[r] \in {NoUpload} \cup [file : DOMAIN Upload, fresh : BOOLEAN]
                 /\ upload'[r].fresh = FALSE
                 /\ upload'[r] # NoUpload => /\ upload[r] # NoUpload
                                             /\ upload'[r].file = upload[r].file
      <3>1. upload[r] \in {NoUpload} \cup [file : DOMAIN Upload, fresh : BOOLEAN]
        BY <1>1 DEF UploadsInHand
      <3>2. upload'[r] = IF r = s THEN NoUpload ELSE [upload[r] EXCEPT !.fresh = FALSE]
        BY <1>2 DEF Outdated
      <3>3. CASE r = s \/ upload[r] = NoUpload
        <4>1. upload'[r] = NoUpload
          <5>1. NoUpload \in [file : Int, fresh : BOOLEAN] /\ NoUpload.fresh = FALSE
            BY DEF NoUpload
          <5>2. [NoUpload EXCEPT !.fresh = FALSE] = NoUpload
            BY <5>1
          <5> QED BY <3>2, <3>3, <5>2
        <4> QED BY <4>1 DEF NoUpload
      <3>4. CASE r # s /\ upload[r] \in [file : DOMAIN Upload, fresh : BOOLEAN]
        <4>1. upload[r] # NoUpload
          BY <3>4, Constants DEF NoUpload
        <4> QED BY <3>2, <3>4, <4>1
      <3> QED BY <3>1, <3>3, <3>4
    <2>2. upload' = [r \in Session |-> upload'[r]]
      BY <1>2 DEF Outdated
    <2>3. \A r \in Session : upload'[r] # NoUpload => Checked(Upload[upload'[r].file])
      BY <1>1, <2>1 DEF UploadsInHand
    <2> QED BY <2>1, <2>2, <2>3 DEF UploadsInHand, Checked, NothingTwice
  <1> QED BY <1>7, <1>9, <1>16, <1>17 DEF MigIInv

-----------------------------------------------------------------------------
LEMMA MigrationInvStep == MigIInv /\ [MigrationNext]_migrationVars => MigIInv'
  <1> SUFFICES ASSUME MigIInv, [MigrationNext]_migrationVars
               PROVE  MigIInv'
    OBVIOUS
  <1>1. ASSUME NEW s \in Session, Apply(s)
        PROVE  MigIInv'
    BY <1>1, MigrationInvApply
  <1>2. ASSUME NEW s \in Session, AbortUpload(s)
        PROVE  MigIInv'
    BY <1>2, MigrationInvAbort
  <1>3. ASSUME NEW s \in Session, NEW u \in DOMAIN Upload, Check(s, u)
        PROVE  MigIInv'
    BY <1>3, MigrationInvCheck
  <1>4. ASSUME NEW b \in Batch, SellPiece(b)
        PROVE  MigIInv'
    BY <1>4, MigrationInvSell
  <1>5. CASE UNCHANGED migrationVars
    <2>1. UNCHANGED <<imported, shelf, ledger, sold, upload, restated>>
      BY <1>5 DEF migrationVars
    <2>2. DocumentsSound' /\ ShelfSound' /\ LedgerSound'
      BY <2>1 DEF MigIInv, DocumentsSound, InvoiceRows, VoucherRows, NothingTwice, Papers, ShelfSound,
                  LedgerSound, CostBelowZero, ShelfValue
    <2>3. UploadsInHand'
      BY <2>1 DEF MigIInv, UploadsInHand, Checked, NothingTwice,
                  UniqueRefs, FreshSales, FreshPurchases, NoneImported
    <2> QED BY <2>2, <2>3 DEF MigIInv
  <1> QED BY <1>1, <1>2, <1>3, <1>4, <1>5 DEF MigrationNext

-----------------------------------------------------------------------------
(* What the invariant says of the books *)

\* What is summed for each party in turn is summed for all of them.
LEMMA ByParty ==
    ASSUME NEW rows, IsFiniteSet(rows), \A x \in rows : x.party \in Name, NEW g, Whole(g, rows)
    PROVE  SumFunctionOnSet([n \in Name |-> SumFunctionOnSet(g, {x \in rows : x.party = n})], Name)
             = SumFunctionOnSet(g, rows)
  <1> DEFINE key == [x \in rows |-> x.party]
  <1>1. IsFiniteSet(Name)
    BY MigrationAssumption
  <1>2. \A x \in rows : key[x] \in Name
    OBVIOUS
  <1>3. \A n \in Name : {x \in rows : key[x] = n} = {x \in rows : x.party = n}
    OBVIOUS
  <1>4. SumFunctionOnSet([n \in Name |-> SumFunctionOnSet(g, {x \in rows : key[x] = n})], Name)
          = SumFunctionOnSet(g, rows)
    <2> HIDE DEF key
    <2> QED BY <1>1, <1>2, SumByKey
  <1>5. [n \in Name |-> SumFunctionOnSet(g, {x \in rows : key[x] = n})]
          = [n \in Name |-> SumFunctionOnSet(g, {x \in rows : x.party = n})]
    <2> HIDE DEF key
    <2> QED BY <1>3
  <1> QED BY <1>4, <1>5

\* The balances of a side, added up, are its documents: what is open on the
\* invoices less the vouchers.
LEMMA OwedIs ==
    ASSUME DocumentsSound, NEW side
    PROVE  LET I == On(side, imported.invoices)
               V == On(side, imported.vouchers) IN
           OwedTo(side) = SumFunctionOnSet([r \in I |-> r.total - r.paid], I)
                          - SumFunctionOnSet([v \in V |-> v.sum], V)
  <1> DEFINE I == On(side, imported.invoices)
             V == On(side, imported.vouchers)
             open == [r \in I |-> r.total - r.paid]
             in == [v \in V |-> v.sum]
             invoiced == [n \in Name |-> InvoicedTo(side, n)]
             paid == [n \in Name |-> PaidBy(side, n)]
             owed == [n \in Name |-> InvoicedTo(side, n) - PaidBy(side, n)]
  <1>1. IsFiniteSet(Name)
    BY MigrationAssumption
  <1>2. IsFiniteSet(I) /\ IsFiniteSet(V)
    BY OnRows DEF DocumentsSound, InvoiceRows, VoucherRows
  <1>3. \A r \in I : InvoiceRow(r)
    BY OnRows DEF DocumentsSound, InvoiceRows
  <1>4. \A v \in V : VoucherRow(v)
    BY OnRows DEF DocumentsSound, VoucherRows
  <1>5. Whole(open, I) /\ Whole(in, V)
    BY <1>3, <1>4 DEF Whole, InvoiceRow, VoucherRow
  <1>6. /\ \A r \in I : r.party \in Name
        /\ \A v \in V : v.party \in Name
    BY <1>3, <1>4 DEF InvoiceRow, VoucherRow
  <1>7. ASSUME NEW n \in Name
        PROVE  /\ invoiced[n] = SumFunctionOnSet(open, {r \in I : r.party = n})
               /\ paid[n] = SumFunctionOnSet(in, {v \in V : v.party = n})
               /\ invoiced[n] \in Int /\ paid[n] \in Int
    <2> DEFINE J == {r \in I : r.party = n}
               U == {v \in V : v.party = n}
    <2>1. J \in SUBSET I /\ U \in SUBSET V /\ IsFiniteSet(J) /\ IsFiniteSet(U)
      BY <1>2, FS_Subset
    <2>2. SameTerms([r \in J |-> r.total - r.paid], open, J) /\ SameTerms([v \in U |-> v.sum], in, U)
      BY DEF SameTerms
    <2>3. /\ InvoicedTo(side, n) = SumFunctionOnSet([r \in J |-> r.total - r.paid], J)
          /\ PaidBy(side, n) = SumFunctionOnSet([v \in U |-> v.sum], U)
      BY DEF InvoicedTo, PaidBy
    <2>4. invoiced[n] = InvoicedTo(side, n) /\ paid[n] = PaidBy(side, n)
      OBVIOUS
    <2>5. Whole(open, J) /\ Whole(in, U)
      BY <1>5, <2>1 DEF Whole
    <2> HIDE DEF J, U, open, in, I, V
    <2>6. /\ SumFunctionOnSet(open, J) = InvoicedTo(side, n) /\ SumFunctionOnSet(open, J) \in Int
          /\ SumFunctionOnSet(in, U) = PaidBy(side, n) /\ SumFunctionOnSet(in, U) \in Int
      BY <2>1, <2>2, <2>3, <2>5, SumSame, SumInt
    <2> QED BY <2>4, <2>6 DEF J, U
  <1>8. /\ Whole(invoiced, Name) /\ Whole(paid, Name) /\ Whole(owed, Name)
        /\ Adds(owed, paid, invoiced, Name)
    <2>1. \A n \in Name : owed[n] = invoiced[n] - paid[n]
      OBVIOUS
    <2> HIDE DEF owed, invoiced, paid
    <2>2. \A n \in Name : invoiced[n] \in Int /\ paid[n] \in Int
      BY <1>7
    <2>3. \A n \in Name : owed[n] \in Int /\ invoiced[n] = owed[n] + paid[n]
      BY <2>1, <2>2
    <2> QED BY <2>2, <2>3 DEF Whole, Adds
  <1>9. SumFunctionOnSet(invoiced, Name) = SumFunctionOnSet(open, I)
    <2>1. SameTerms(invoiced, [n \in Name |-> SumFunctionOnSet(open, {r \in I : r.party = n})], Name)
      <3> HIDE DEF invoiced, open, I
      <3> QED BY <1>7 DEF SameTerms
    <2> HIDE DEF invoiced, open, I
    <2>2. SumFunctionOnSet([n \in Name |-> SumFunctionOnSet(open, {r \in I : r.party = n})], Name)
            = SumFunctionOnSet(open, I)
      BY <1>2, <1>5, <1>6, ByParty
    <2> QED BY <1>1, <2>1, <2>2, SumSame
  <1>10. SumFunctionOnSet(paid, Name) = SumFunctionOnSet(in, V)
    <2>1. SameTerms(paid, [n \in Name |-> SumFunctionOnSet(in, {v \in V : v.party = n})], Name)
      <3> HIDE DEF paid, in, V
      <3> QED BY <1>7 DEF SameTerms
    <2> HIDE DEF paid, in, V
    <2>2. SumFunctionOnSet([n \in Name |-> SumFunctionOnSet(in, {v \in V : v.party = n})], Name)
            = SumFunctionOnSet(in, V)
      BY <1>2, <1>5, <1>6, ByParty
    <2> QED BY <1>1, <2>1, <2>2, SumSame
  <1>11. OwedTo(side) = SumFunctionOnSet(owed, Name)
    BY DEF OwedTo
  <1> HIDE DEF owed, invoiced, paid, open, in, I, V
  <1>12. /\ SumFunctionOnSet(invoiced, Name) = SumFunctionOnSet(owed, Name) + SumFunctionOnSet(paid, Name)
         /\ SumFunctionOnSet(owed, Name) \in Int /\ SumFunctionOnSet(paid, Name) \in Int
    BY <1>1, <1>8, SumAdd, SumInt
  <1>13. OwedTo(side) = SumFunctionOnSet(open, I) - SumFunctionOnSet(in, V)
    BY <1>9, <1>10, <1>11, <1>12
  <1> QED BY <1>13 DEF open, in, I, V

\* No total below zero: the ledger keeps every amount of the side.
LEMMA KeptWhole ==
    ASSUME DocumentsSound, NEW side, ~BelowZero(side)
    PROVE  OwedTo(side) = Due(side, imported.invoices) - Cleared(side, imported.vouchers)
  <1> DEFINE I == On(side, imported.invoices)
             V == On(side, imported.vouchers)
  <1>1. \A r \in I : InvoiceRow(r) /\ r.paid >= 0 /\ ~(r.total < 0)
    BY OnRows DEF DocumentsSound, InvoiceRows, BelowZero
  <1>2. \A v \in V : VoucherRow(v) /\ v.sum > 0
    BY OnRows DEF DocumentsSound, VoucherRows
  <1>3. \A r \in I : Kept(r.total) - Kept(r.paid) = r.total - r.paid
    BY <1>1, KeptIs DEF InvoiceRow
  <1>4. \A v \in V : Kept(v.sum) = v.sum
    BY <1>2, KeptIs DEF VoucherRow
  <1>5. /\ [r \in I |-> Kept(r.total) - Kept(r.paid)] = [r \in I |-> r.total - r.paid]
        /\ [v \in V |-> Kept(v.sum)] = [v \in V |-> v.sum]
    <2> HIDE DEF I, V
    <2> QED BY <1>3, <1>4
  <1>6. /\ Due(side, imported.invoices) = SumFunctionOnSet([r \in I |-> r.total - r.paid], I)
        /\ Cleared(side, imported.vouchers) = SumFunctionOnSet([v \in V |-> v.sum], V)
    BY <1>5 DEF Due, Cleared
  <1> QED BY <1>6, OwedIs

\* Fresh, exact and with its warehouses: nothing is left to refuse it.
LEMMA FreshApplies ==
    ASSUME MigIInv
    PROVE  PassedApplies
  <1> SUFFICES ASSUME NEW s \in Session, upload[s].fresh,
                      StoresFound(Upload[upload[s].file]), ActiveIsKnown(Upload[upload[s].file]),
                      \A r \in Upload[upload[s].file].invoices : Exact(r)
               PROVE  Applies(Upload[upload[s].file])
    BY DEF PassedApplies
  <1> DEFINE f == Upload[upload[s].file]
  <1>1. upload[s] # NoUpload
    <2>1. ~NoUpload.fresh
      BY DEF NoUpload
    <2> QED BY <2>1
  <1>2. Workbook(f) /\ Checked(f) /\ UniqueRefs(f)
    BY <1>1, HandsFile DEF MigIInv, UploadsInHand
  <1>3. StoresFound(f) /\ ActiveIsKnown(f) /\ \A r \in f.invoices : Exact(r)
    OBVIOUS
  <1> HIDE DEF f
  <1>4. \A r \in f.invoices : InvoiceRow(r)
    BY <1>2 DEF Workbook
  <1>5. /\ \A r \in On("customer", f.invoices) : Accepted(SaleEntry(r))
        /\ \A r \in On("supplier", f.invoices) : Accepted(PurchaseEntry(r))
    BY <1>3, <1>4, ExactAccepted DEF On
  <1>6. ASSUME NEW r \in f.invoices, r.paid > 0
        PROVE  Accepted(SettledOn(r))
    <2>1. r.side \in {"customer", "supplier"} /\ r.paid \in Int
      BY <1>4 DEF InvoiceRow
    <2> QED BY <1>6, <2>1, PaymentEntries DEF SettledOn
  <1>7. ASSUME NEW v \in f.vouchers
        PROVE  Accepted(VoucherEntry(v))
    <2>1. v.side \in {"customer", "supplier"} /\ v.sum \in Int /\ v.sum > 0
      BY <1>2 DEF Workbook, VoucherRow, Checked
    <2> QED BY <2>1, PaymentEntries DEF VoucherEntry
  <1>8. StockValue(f) > 0 => Accepted(OpeningEntry(f))
    BY <1>2, OpeningEntries
  <1>9. AllAccepted(f)
    BY <1>5, <1>6, <1>7, <1>8 DEF AllAccepted
  <1> QED BY <1>2, <1>3, <1>9 DEF Applies, f

LEMMA BooksAreSound ==
    ASSUME MigIInv
    PROVE  BooksFollowDocuments
  <1>1. DocumentsSound /\ LedgerSound
    BY DEF MigIInv
  <1>2. IsBalanced
    BY <1>1, ZeroBalances DEF LedgerSound
  <1>3. ~BelowZero("customer") => ledger["receivable"] = OwedTo("customer") + Price * sold
    BY <1>1, KeptWhole DEF LedgerSound
  <1>4. ~BelowZero("supplier") => ledger["payable"] = -OwedTo("supplier")
    <2>1. /\ Due("supplier", imported.invoices) \in Int
          /\ Cleared("supplier", imported.vouchers) \in Int
      BY <1>1, DueIsInt, ClearedIsInt DEF DocumentsSound
    <2>2. ledger["payable"] = Cleared("supplier", imported.vouchers) - Due("supplier", imported.invoices)
      BY <1>1 DEF LedgerSound
    <2> QED BY <1>1, <2>1, <2>2, KeptWhole
  <1>5. restated = {} /\ ~CostBelowZero => ledger["inventory"] = ShelfValue
    BY <1>1 DEF LedgerSound
  <1>6. NothingTwice(Papers)
    BY <1>1 DEF DocumentsSound
  <1> QED BY <1>2, <1>3, <1>4, <1>5, <1>6, FreshApplies DEF BooksFollowDocuments, Papers

\* Whatever workbooks are at hand, however many sessions upload them and whatever is
\* sold meanwhile, the books are the documents.
THEOREM BooksAlwaysFollow == MigrationSpec => []BooksFollowDocuments
  <1>1. MigIInv => BooksFollowDocuments
    BY BooksAreSound
  <1> QED BY <1>1, MigrationInvInit, MigrationInvStep, PTL DEF MigrationSpec

=============================================================================
