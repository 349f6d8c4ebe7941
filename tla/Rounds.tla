------------------------------- MODULE Rounds -------------------------------
(***************************************************************************)
(* A salesman's day: who drives which van, what was sold off it, what the  *)
(* till took in, what of it was taken back or corrected, what was counted  *)
(* when the van came back, and the round that closes it.  One day;         *)
(* yesterday's rounds are other instances.                                 *)
(*                                                                         *)
(* A settlement loads the round, reads the whole position, and signs: the  *)
(* rows behind the position are read without a lock.  The round posts      *)
(* neither money nor stock.                                                *)
(***************************************************************************)
EXTENDS Requests, FiniteSetsExt

CONSTANTS
    Van,        \* ids of the warehouses that are vehicles
    Salesman,   \* ids of the users with the role sales
    Drives,     \* assigned_to_id at first, 0 when nobody
    Sale,       \* ids of sales_invoices: bound on the sales of the day
    Method,     \* of payment: some of cash, card, credit
    Total,      \* what a sale comes to
    Sheet,      \* ids of stocktakes: bound on the counts of the day
    Outcome,    \* what a count may find: a sequence of differences, one per batch
    CostPer,    \* unit cost of each batch
    Limit,      \* round_variance_approval_limit
    Round,      \* ids of round_settlements: bound on the rounds ever opened
    MaxChanges, \* bound: changes of a van's driver and of posted invoices
    Errands     \* what a session may do: functions from sessions to operations

ASSUME RoundsAssumption ==
    /\ Van \subseteq Nat \ {0} /\ Salesman \subseteq Nat \ {0}
    /\ Drives \in [Van -> Salesman \cup {0}]
    /\ \A v, w \in Van : v # w /\ Drives[v] = Drives[w] => Drives[v] = 0   \* the index on vans
    /\ IsFiniteSet(Sale) /\ IsFiniteSet(Sheet)
    /\ Sale \subseteq Nat \ {0} /\ Sheet \subseteq Nat \ {0} /\ Round \subseteq Nat \ {0}
    /\ Total \in Nat \ {0} /\ {Limit, MaxChanges} \subseteq Nat

VARIABLES
    driver,     \* assigned_to_id and is_active of a van
    changes,    \* counts the changes
    sale,       \* the day's invoices with lines off a van, net of nothing
    sheet,      \* counts of a van, posted
    round,      \* round_settlements
    errand,     \* what each session does in this behaviour
    office,     \* the request each session carries out
    late,       \* history: rounds signed on a position no longer true
    raced,      \* history: rounds two requests had loaded at once
    handedOver  \* history: vans whose driver is not the salesman of every sale off them

roundRows  == <<driver, changes, sale, sheet, round>>
roundsVars == <<roundRows, errand, office, late, raced, handedOver>>

RoundSettlementStatus == {"none", "open", "settled", "cancelled"}

DRAWER_METHODS == {"cash", "card"}

\* What stands beside the signature: nothing, a reason, a reason and
\* sales.round_settle_variance.
Words == {"none", "noted", "approved"}

\* Where the goods of a sale come from that is not a van.
Elsewhere == -1

\* `paid` and `done` are paid_amount and payment_confirmed_at, `in` what the cash movements of the invoice add up to.
NoSale  == [van |-> 0, by |-> 0, method |-> "none", total |-> 0, back |-> 0,
            paid |-> 0, done |-> FALSE, in |-> 0]
GoneSale == [NoSale EXCEPT !.van = Elsewhere]
NoSheet == [van |-> 0, diff |-> <<>>]
NoRound == [van |-> 0, by |-> 0, status |-> "none", sheet |-> 0, word |-> "none"]
Errandless == [op |-> "none", at |-> "idle", van |-> 0, round |-> 0, by |-> 0,
               sheet |-> 0, word |-> "none"]

RoundsInit ==
    /\ driver = [v \in Van |-> [who |-> Drives[v], active |-> TRUE]]
    /\ changes = 0
    /\ sale = [i \in Sale |-> NoSale]
    /\ sheet = [k \in Sheet |-> NoSheet]
    /\ round = [r \in Round |-> NoRound]
    /\ errand \in Errands
    /\ office = [s \in Session |-> Errandless]
    /\ late = {} /\ raced = {} /\ handedOver = {}

-----------------------------------------------------------------------------
(* The position of a round *)

OpenRounds(v) == {r \in Round : round[r].van = v /\ round[r].status = "open"}

RoundInvoices(v, m) == {i \in Sale : sale[i].van = v /\ sale[i].by = m}

\* Fault: what the customer brought back is still asked for.
GrossDue(i) == sale[i].total
NetDue(i)   == sale[i].total - sale[i].back

DrawerSales(v, m) == {i \in RoundInvoices(v, m) : sale[i].method \in DRAWER_METHODS}

\* drawer_due - drawer_in
Outstanding(v, m) ==
    SumFunctionOnSet([i \in Sale |-> NetDue(i) - sale[i].in], DrawerSales(v, m))

\* Fault: the round is whoever drives the van now.
DriverNow(v, who) == who
WhoseRound(v, who) ==
    IF OpenRounds(v) = {} THEN who ELSE round[CHOOSE r \in OpenRounds(v) : TRUE].by

CountsOf(v) == {k \in Sheet : sheet[k].van = v}

AdoptedCount(v) == IF CountsOf(v) = {} THEN 0 ELSE Max(CountsOf(v))

UnitsOff(k) == IF k = 0 THEN 0 ELSE SumFunction(sheet[k].diff)

ValueOff(k) ==
    IF k = 0 THEN 0
    ELSE SumFunction([g \in DOMAIN sheet[k].diff |-> sheet[k].diff[g] * CostPer[g]])

OverLimit(k) == ValueOff(k) > Limit \/ -ValueOff(k) > Limit

\* settle: a van nobody drives is refused (_get_van), then the hard gate on money, then the
\* soft one on goods.
MayClose(v, who, k, word) ==
    /\ who # 0
    /\ Outstanding(v, WhoseRound(v, who)) <= 0
    /\ UnitsOff(k) # 0 => word # "none" /\ (OverLimit(k) => word = "approved")

IsOpen(r)      == round[r].status = "open"

\* uq_round_settlements_open_per_van, a partial unique index.
OneIndex(v) == OpenRounds(v) = {}

\* The partial unique index on active vans; the look in front of it refuses the same.
DrivesNoOther(v, m) == \A w \in Van \ {v} : ~(driver[w].active /\ driver[w].who = m)

\* unsettled_rounds: vans that sold today and have no settled round.
Unsettled(v) ==
    /\ driver[v].active /\ driver[v].who # 0
    /\ RoundInvoices(v, driver[v].who) # {}
    /\ \A r \in Round : ~(round[r].van = v /\ round[r].status = "settled")

-----------------------------------------------------------------------------
(* The day *)

OffDuty(s) == office[s] = Errandless

Goes(s, k) == office' = [office EXCEPT ![s] = k]

Keep(s) == UNCHANGED <<errand, late, raced, handedOver>>

\* What was read for a signature is no longer so.
Overtaken(v) == {office[s].round : s \in {q \in Session : office[q].at = "sign"
                                                          /\ office[q].van = v}}

\* update_warehouse: another driver or none, retired or back in use.
UpdateWarehouse(v, m, active) ==
    /\ \E s \in Session : "assign" \in errand[s]
    /\ changes < MaxChanges /\ changes' = changes + 1
    /\ [who |-> m, active |-> active] # driver[v]
    /\ m # 0 /\ active => DrivesNoOther(v, m)
    /\ driver' = [driver EXCEPT ![v] = [who |-> m, active |-> active]]
    /\ handedOver' = IF \E i \in Sale : sale[i].van = v /\ sale[i].by # m
                     THEN handedOver \cup {v}
                     ELSE handedOver
    /\ UNCHANGED <<sale, sheet, round, office, errand, late, raced>>

\* A sale off the van its salesman drives (get_van, create_invoice).
SellOffVan(v, method) ==
    /\ \E s \in Session : "sell" \in errand[s]
    /\ driver[v].active /\ driver[v].who # 0
    /\ LET i == NextId([x \in Sale |-> sale[x].van], Sale, 0) IN
       /\ i # 0
       /\ sale' = [sale EXCEPT ![i] = [van |-> v, by |-> driver[v].who, method |-> method,
                                       total |-> Total, back |-> 0, paid |-> 0,
                                       done |-> method \notin DRAWER_METHODS, in |-> 0]]
    /\ late' = late \cup IF method \in DRAWER_METHODS THEN Overtaken(v) ELSE {}
    /\ UNCHANGED <<driver, changes, sheet, round, office, errand, raced, handedOver>>

\* collect_payment of a part or of all that is due.
CollectSale(i, n) ==
    /\ sale[i].method \in DRAWER_METHODS /\ ~sale[i].done
    /\ n <= NetDue(i) - sale[i].paid
    /\ sale' = [sale EXCEPT ![i].paid = @ + n, ![i].in = @ + n,
                            ![i].done = sale[i].paid + n >= NetDue(i)]
    /\ UNCHANGED <<driver, changes, sheet, round, office, errand, late, raced, handedOver>>

\* create_return of goods worth 1; money taken in too much stays in the drawer.
TakeBack(i) ==
    /\ \E s \in Session : "takeback" \in errand[s]
    /\ sale[i].back < sale[i].total
    /\ sale' = [sale EXCEPT ![i].back = @ + 1]
    /\ UNCHANGED <<driver, changes, sheet, round, office, errand, late, raced, handedOver>>

\* cancel_return of such a credit note; what is due grows, the confirmation stays.
UndoReturn(i) ==
    /\ \E s \in Session : "takeback" \in errand[s]
    /\ sale[i].back > 0
    /\ sale' = [sale EXCEPT ![i].back = @ - 1]
    /\ late' = late \cup Overtaken(sale[i].van)
    /\ UNCHANGED <<driver, changes, sheet, round, office, errand, raced, handedOver>>

Correctable(i) ==
    /\ \E s \in Session : "correct" \in errand[s]
    /\ sale[i].van # 0 /\ sale[i] # GoneSale
    /\ sale[i].back = 0
    /\ changes < MaxChanges /\ changes' = changes + 1

\* update_invoice: the lines are drawn again, from the home warehouse of the products
\* (v), the salesman is the customer's (m, 0 when he has none), nothing counts as paid and
\* the cash movements stay.
EditSale(i, v, m, method, n) ==
    /\ Correctable(i)
    /\ sale' = [sale EXCEPT ![i] = [van |-> v, by |-> m, method |-> method,
                                    total |-> n, back |-> 0, paid |-> 0,
                                    done |-> method \notin DRAWER_METHODS, in |-> @.in]]
    /\ late' = late \cup Overtaken(sale[i].van) \cup Overtaken(v)
    /\ handedOver' = handedOver \cup {w \in {v} \cap Van : m = 0 \/ m # driver[w].who}
    /\ UNCHANGED <<driver, sheet, round, office, errand, raced>>

\* delete_invoice: the invoice goes, its cash movements are nobody's.
DeleteSale(i) ==
    /\ Correctable(i)
    /\ sale' = [sale EXCEPT ![i] = GoneSale]
    /\ late' = late \cup Overtaken(sale[i].van)
    /\ UNCHANGED <<driver, sheet, round, office, errand, raced, handedOver>>

\* A count of the van is posted, whatever stocktake found.
PostVanCount(v, diff) ==
    /\ \E s \in Session : "count" \in errand[s]
    /\ LET k == NextId([x \in Sheet |-> sheet[x].van], Sheet, 0) IN
       /\ k # 0
       /\ sheet' = [sheet EXCEPT ![k] = [van |-> v, diff |-> diff]]
    /\ late' = late \cup Overtaken(v)
    /\ UNCHANGED <<driver, changes, sale, round, office, errand, raced, handedOver>>

-----------------------------------------------------------------------------
(* Rounds *)

\* open_round, also as the first half of settle_van: the van, its driver, no open round.
LookForRound(s, v, op) ==
    /\ OffDuty(s) /\ op \in errand[s]
    /\ driver[v].who # 0 /\ OpenRounds(v) = {}
    /\ Goes(s, [op |-> op, at |-> "file", van |-> v, round |-> 0, by |-> driver[v].who,
                sheet |-> 0, word |-> "none"])
    /\ UNCHANGED roundRows /\ Keep(s)

\* The insert, under the partial unique index; settle_van goes on with what it opened.
FileRound(s) ==
    /\ office[s].at = "file"
    /\ LET r == NextId([x \in Round |-> round[x].status], Round, "none")
           k == office[s] IN
       /\ r # 0 /\ OneIndex(k.van)
       /\ round' = [round EXCEPT ![r] = [van |-> k.van, by |-> k.by, status |-> "open",
                                         sheet |-> 0, word |-> "none"]]
       /\ Goes(s, IF k.op = "close"
                  THEN [op |-> "close", at |-> "load", van |-> k.van, round |-> r, by |-> k.by,
                        sheet |-> 0, word |-> "none"]
                  ELSE Errandless)
    /\ UNCHANGED <<driver, changes, sale, sheet>> /\ Keep(s)

\* The driver of the van as the session has it already: settle_van looked the van up before
\* it looked for the round, settle by id has not.
DriverKnown(s, r) ==
    IF office[s].at = "load" THEN {office[s].by} ELSE {0, driver[round[r].van].who}

\* get_settlement and the look at its status, to sign it or to give it up.
LoadRound(s, r, op) ==
    /\ \/ OffDuty(s) /\ op \in errand[s]
       \/ office[s].at = "load" /\ office[s].round = r /\ op = "close"
    /\ IsOpen(r)
    /\ \E who \in IF op = "close" THEN DriverKnown(s, r) ELSE {0} :
          Goes(s, [op |-> op, at |-> IF op = "close" THEN "position" ELSE "drop",
                   van |-> round[r].van, round |-> r, by |-> who, sheet |-> 0, word |-> "none"])
    /\ raced' = IF \E q \in Session \ {s} : office[q].round = r /\ office[q].at # "load"
                THEN raced \cup {r} ELSE raced
    /\ UNCHANGED <<roundRows, errand, late, handedOver>>

\* position, with the count the storekeeper names or the van's own, and the gates.
ReadPosition(s, linked, word) ==
    /\ office[s].at = "position"
    /\ LET v == office[s].van
           who == IF office[s].by # 0 THEN office[s].by ELSE driver[v].who
           k == IF linked = 0 THEN AdoptedCount(v) ELSE linked IN
       /\ linked # 0 => sheet[linked].van # 0
       /\ MayClose(v, who, k, word)
       /\ k = 0 => word = "none"
       /\ Goes(s, [op |-> "close", at |-> "sign", van |-> v, round |-> office[s].round,
                   by |-> 0, sheet |-> k, word |-> word])
    /\ UNCHANGED roundRows /\ Keep(s)

\* The figures and the signature are written and committed.
Sign(s) ==
    /\ office[s].at = "sign"
    /\ LET k == office[s] IN
       round' = [round EXCEPT ![k.round] = [van |-> @.van, by |-> @.by, status |-> "settled",
                                            sheet |-> k.sheet, word |-> k.word]]
    /\ Goes(s, Errandless)
    /\ UNCHANGED <<driver, changes, sale, sheet>> /\ Keep(s)

CancelRound(s) ==
    /\ office[s].at = "drop"
    /\ round' = [round EXCEPT ![office[s].round].status = "cancelled"]
    /\ Goes(s, Errandless)
    /\ UNCHANGED <<driver, changes, sale, sheet>> /\ Keep(s)

AbortErrand(s) ==
    /\ ~OffDuty(s) /\ Goes(s, Errandless)
    /\ UNCHANGED roundRows /\ Keep(s)

-----------------------------------------------------------------------------
RoundsStep ==
    \/ \E v \in Van :
          \/ \E m \in Salesman \cup {0}, active \in BOOLEAN : UpdateWarehouse(v, m, active)
          \/ \E method \in Method : SellOffVan(v, method)
          \/ \E diff \in Outcome : PostVanCount(v, diff)
    \/ \E i \in Sale :
          \/ TakeBack(i) \/ UndoReturn(i) \/ DeleteSale(i)
          \/ \E n \in 1..Total :
                \/ CollectSale(i, n)
                \/ \E v \in Van \cup {Elsewhere}, m \in Salesman \cup {0}, method \in Method :
                      EditSale(i, v, m, method, n)
    \/ \E s \in Session :
          \/ FileRound(s) \/ Sign(s) \/ CancelRound(s) \/ AbortErrand(s)
          \/ \E v \in Van, op \in {"open", "close"} : LookForRound(s, v, op)
          \/ \E r \in Round, op \in {"close", "drop"} : LoadRound(s, r, op)
          \/ \E linked \in Sheet \cup {0}, word \in Words :
                ReadPosition(s, linked, word)

RoundsNext == RoundsStep

RoundsSpec == RoundsInit /\ [][RoundsNext]_roundsVars

-----------------------------------------------------------------------------
(* Properties *)

Signed(r) == round[r].status # "settled" /\ round'[r].status = "settled"

\* Rows keep their shape, a round is somebody's, and no salesman drives two vans in use
\* (_validate_driver: "which van is mine?" has one answer).
RoundTypeOK ==
    /\ \A v \in Van : driver[v].who \in Salesman \cup {0}
    /\ \A v, w \in Van : v # w /\ driver[v] = driver[w] /\ driver[v].active => driver[v].who = 0
    /\ \A i \in Sale : /\ {sale[i].paid, sale[i].back} \subseteq 0..sale[i].total
                        /\ sale[i].in \in Nat /\ sale[i].paid <= sale[i].in
    /\ \A r \in Round : /\ round[r].status \in RoundSettlementStatus
                        /\ round[r].status # "none" => round[r].by \in Salesman
    /\ \A s \in Session : office[s].round \in Round \cup {0}

\* The salesman whose round is signed has handed over what that round's sales still
\* cost their buyers ("Cash outstanding blocks the close, with no override"), unless while
\* it was being signed they sold on, a credit note of theirs was cancelled or an invoice
\* corrected or deleted.  Between invoices the sum alone counts, and a corrected invoice
\* counts for the van its lines are drawn from now.
SignedOwesNothing ==
    [][\A r \in Round \ (late \cup raced) :
          Signed(r) => Outstanding(round[r].van, round[r].by) <= 0]_roundsVars

\* A round whose every buyer has paid for what he kept can be closed (position: "Net of
\* credit notes, or the round can never close"), whoever drives the van by now; while
\* nobody does, _get_van refuses even that.
PaidUpCanClose ==
    \A r \in Round :
        /\ IsOpen(r) /\ driver[round[r].van].who # 0
        /\ \A i \in DrawerSales(round[r].van, round[r].by) :
              sale[i].total - sale[i].back <= sale[i].in
        => MayClose(round[r].van, driver[round[r].van].who, 0, "none")

\* A van has one open round (open_round: "One at a time, enforced here and in the
\* index"), although two requests may look before either files.
OneOpenRound == \A v \in Van : Cardinality(OpenRounds(v)) <= 1

\* "A settled one is a signed record and stays", and so does a round given up, unless
\* two requests had loaded it.
SignedStays ==
    [][\A r \in Round \ raced :
          round[r].status \in {"settled", "cancelled"} => round'[r] = round[r]]_roundsVars

\* A van that comes back short or over by its own last count is signed for in writing,
\* unless another count was named for the round or this one came too late.
ShortVanIsExplained ==
    [][\A r \in Round \ (late \cup raced) :
          /\ Signed(r)
          /\ round'[r].sheet \in CountsOf(round[r].van) \cup {0}
          /\ round'[r].sheet # 0 => round'[r].sheet = Max(CountsOf(round[r].van))
          /\ CountsOf(round[r].van) # {}
          /\ UnitsOff(Max(CountsOf(round[r].van))) # 0
          => round'[r].word # "none"]_roundsVars

\* Money of the day that is not in the drawer shows among the unsettled vans, unless a
\* round of the van was settled today, or the van has another driver now or none, or a
\* correction took the sale off the van or to another salesman.
TakingsAreNoticed ==
    \A i \in {j \in Sale : sale[j].van \in Van} :
        /\ sale[i].method \in DRAWER_METHODS /\ NetDue(i) > sale[i].in
        /\ driver[sale[i].van].active /\ sale[i].van \notin handedOver
        /\ \A r \in Round : round[r].van = sale[i].van => round[r].status # "settled"
        => Unsettled(sale[i].van)

\* A round is open once, can be closed when the money is in, and shows when it is not.
RoundsAreKept == RoundTypeOK /\ PaidUpCanClose /\ OneOpenRound /\ TakingsAreNoticed

\* What a signature stands for: the money, the count, and that it stays.
SignedStands == SignedOwesNothing /\ SignedStays /\ ShortVanIsExplained
=============================================================================
