------------------------------ MODULE Delivery ------------------------------
(***************************************************************************)
(* Delivery trips, their stops, and what else happens to the invoices that *)
(* ride on them: returns, pickups, edits, deletions.                       *)
(*                                                                         *)
(* The stops of a trip are rows: a request that loaded a trip has its      *)
(* status and its stops in memory (`task`), and what it writes is decided  *)
(* by them.  An UPDATE of a row somebody deleted fails the request; a      *)
(* DELETE of one does nothing.  Ids are not reused.                        *)
(***************************************************************************)
EXTENDS Requests, SequencesExt

CONSTANTS
    Trip,       \* ids of delivery_trips
    Invoice,    \* ids of sales_invoices
    StopId,     \* ids of delivery_stops: bound on the stops ever added
    Batch,      \* ids of product_batches
    Sold,       \* Sold[i]: the lines of an invoice, [batch, n] records
    OnCredit,   \* the invoices sold on credit
    Rosters,    \* who may do what: a set of functions from sessions to operations
    MaxBack,    \* bound: units returned at once
    WarehouseOf \* the warehouse of an invoice or 0 for several; of a trip under -t

ASSUME DeliveryAssumption ==
    /\ Trip \subseteq Nat \ {0} /\ Invoice \subseteq Nat \ {0} /\ StopId \subseteq Nat \ {0}
    /\ Sold \in [Invoice -> Seq([batch : Batch, n : Nat \ {0}])]
    /\ OnCredit \subseteq Invoice /\ MaxBack \in Nat
    /\ IsFiniteSet(StopId) /\ IsFiniteSet(Batch)

VARIABLES
    trip,       \* status of a trip, "none" before it is created
    stop,       \* delivery_stops
    order,      \* what delivery reads of an invoice
    returned,   \* units of posted returns, by invoice and batch
    roster,     \* what each session does in this behaviour
    task,       \* the request each session carries out
    carried,    \* history: units loaded for a stop when its trip left
    raced,      \* history: trips that left while another request on them was in flight
    doubled,    \* history: invoices two requests at once put on a trip
    dropped,    \* history: trips a return took a stop off
    edited      \* history: invoices edited with a stop, or beside another request

rows         == <<trip, stop, order, returned>>
histories    == <<carried, raced, doubled, dropped, edited>>
deliveryVars == <<rows, roster, task, histories>>

TripStatus == {"none", "planned", "in_transit", "completed"}

StopStatus == {"pending", "delivered", "failed"}

DeliveryStop == [trip : Trip, invoice : Invoice, seq : Nat \ {0}, status : StopStatus]

NoStop == [trip |-> 0, invoice |-> 0, seq |-> 0, status |-> "pending"]

\* A deleted row: its id is not given again.
GoneStop == [NoStop EXCEPT !.status = "failed"]

NoTask == [op |-> "none", trip |-> 0, invoice |-> 0, status |-> "none",
           stops |-> [p \in StopId |-> NoStop], counted |-> FALSE]

DeliveryInit ==
    /\ trip = [t \in Trip |-> "none"]
    /\ stop = [p \in StopId |-> NoStop]
    /\ order = [i \in Invoice |->
                  [posted |-> TRUE, pickup |-> FALSE, picked |-> FALSE,
                   confirmed |-> i \in OnCredit]]
    /\ returned = [i \in Invoice |-> [b \in Batch |-> 0]]
    /\ roster \in Rosters
    /\ task = [s \in Session |-> NoTask]
    /\ carried = [p \in StopId |-> 0]
    /\ raced = {} /\ doubled = {} /\ dropped = {} /\ edited = {}

-----------------------------------------------------------------------------
(* Figures *)

StopsOf(table, t) == {p \in StopId : table[p].trip = t}

RidesOn(i, t) == \E p \in StopsOf(stop, t) : stop[p].invoice = i

UnitsOf(lines) == SumFunctionOnSet([k \in DOMAIN lines |-> lines[k].n], DOMAIN lines)

\* What came back of a batch is taken off a line of it, as far as it goes.
NetLine(acc, line) ==
    LET take == AtMost(line.n, acc.back[line.batch])
    IN  [lines |-> Append(acc.lines, [line EXCEPT !.n = @ - take]),
         back  |-> [acc.back EXCEPT ![line.batch] = @ - take]]

\* _net_lines_to_pick: off its lines in turn.
NetLinesToPick(lines, back) == FoldLeft(NetLine, [lines |-> <<>>, back |-> back], lines).lines

ToLoad(i) == UnitsOf(NetLinesToPick(Sold[i], returned[i]))

Back(i) == SumFunctionOnSet(returned[i], Batch)

Owed(i) == UnitsOf(Sold[i]) - Back(i)

Payable(i) == i \in OnCredit \/ order[i].confirmed

Open(t) == trip[t] # "completed"

\* The stops that keep an invoice off another trip; those a driver has in hand;
\* those a full return takes off.
Riding(i)   == {p \in StopId : stop[p].invoice = i /\ Open(stop[p].trip)}
Pending(i, status) == {p \in StopId : /\ stop[p].invoice = i /\ stop[p].status = "pending"
                                      /\ trip[stop[p].trip] = status}

\* Fault: only a trip on the road is active.
Unplanned(i) == \A p \in Riding(i) : trip[stop[p].trip] = "planned"
OnNoTrip(i)  == Riding(i) = {}

\* Fault: a trip can be loaded whatever its status.
AnyStatus(t, statuses)    == trip[t] # "none"
StatusAllows(t, statuses) == trip[t] \in statuses

HasStops(k) == StopsOf(k.stops, k.trip) # {}

AllDecided(k) == \A p \in StopsOf(k.stops, k.trip) : k.stops[p].status # "pending"

\* Fault: a return does not ask where the goods are.
Anywhere(i)     == TRUE
NotOnTheRoad(i) == Pending(i, "in_transit") = {}

\* Fault: goods to be delivered may be fetched.
FetchAny(i)  == ~order[i].picked /\ Payable(i)
CanFetch(i)  == order[i].pickup /\ ~order[i].picked /\ Payable(i)

HasNote(i, b, n) == n <= returned[i][b]

\* trip.stops after one is taken off, renumbered from 1 in visiting order
Renumbered(table, kept) ==
    [p \in StopId |->
        IF p \in kept
        THEN [table[p] EXCEPT !.seq =
                Cardinality({q \in kept : \/ table[q].seq < table[p].seq
                                          \/ table[q].seq = table[p].seq /\ q <= p})]
        ELSE table[p]]

-----------------------------------------------------------------------------
(* Sessions *)

Free(s) == task[s] = NoTask

On(s, op) == task[s].op = op

\* create_return holds the invoice row FOR UPDATE; an UPDATE, a DELETE and the
\* foreign key of a new stop wait for it.
HeldByReturn(i) == \E r \in Session : On(r, "return") /\ task[r].invoice = i

Done(s) == task' = [task EXCEPT ![s] = NoTask]

\* Another request has loaded trip t, or is returning what rides on it.
OthersOn(s, t) ==
    \E r \in Session \ {s} :
        \/ task[r].trip = t /\ task[r].op \in {"add", "remove", "dispatch"}
        \/ task[r].op = "return" /\ RidesOn(task[r].invoice, t)

Race(s, trips) == raced' = raced \cup {t \in trips : OthersOn(s, t)}

\* A refusal, a dropped connection, a crash: the transaction rolls back.
AbortTask(s) ==
    /\ ~Free(s)
    /\ Done(s)
    /\ UNCHANGED <<rows, histories>>

-----------------------------------------------------------------------------
(* Trips *)

CreateTrip(t) ==
    /\ t = NextId(trip, Trip, "none")
    /\ trip' = [trip EXCEPT ![t] = "planned"]
    /\ UNCHANGED <<stop, order, returned, task, histories>>

\* get_trip, and the check of the status every handler starts with.
GetTrip(s, t, op, i, statuses) ==
    /\ Free(s) /\ op \in roster[s]
    /\ StatusAllows(t, statuses)
    /\ task' = [task EXCEPT ![s] =
                  [NoTask EXCEPT !.op = op, !.trip = t, !.invoice = i, !.status = trip[t],
                                 !.stops = [p \in StopId |->
                                     IF stop[p].trip = t THEN stop[p] ELSE NoStop]]]
    /\ UNCHANGED <<rows, histories>>

\* add_invoice: the invoice is looked at, and the trips it rides on are counted.
CountActive(s) ==
    /\ On(s, "add") /\ ~task[s].counted
    /\ LET i == task[s].invoice IN
       /\ order[i].posted /\ ~order[i].pickup /\ Payable(i)
       /\ WarehouseOf[i] # 0 /\ WarehouseOf[i] = WarehouseOf[-task[s].trip]
       /\ OnNoTrip(i)
    /\ task' = [task EXCEPT ![s].counted = TRUE]
    /\ UNCHANGED <<rows, histories>>

\* add_invoice: the stop is inserted; uq_invoice_once_per_trip and the foreign key hold.
AddInvoice(s) ==
    /\ On(s, "add") /\ task[s].counted
    /\ LET k == task[s]
           p == NextId(stop, StopId, NoStop) IN
       /\ p # 0
       /\ ~HeldByReturn(k.invoice)
       /\ order[k.invoice].posted /\ ~RidesOn(k.invoice, k.trip)
       /\ stop' = [stop EXCEPT ![p] =
                     [trip |-> k.trip, invoice |-> k.invoice, status |-> "pending",
                      seq |-> Cardinality(StopsOf(k.stops, k.trip)) + 1]]
       /\ doubled' = IF \E r \in Session \ {s} : 
                           On(r, "add") /\ task[r].invoice = k.invoice /\ task[r].counted
                     THEN doubled \cup {k.invoice} ELSE doubled
       /\ Race(s, {k.trip})
    /\ Done(s)
    /\ UNCHANGED <<trip, order, returned, carried, dropped, edited>>

\* remove_stop: delete one, renumber the rest that were loaded.
RemoveStop(s, p) ==
    /\ On(s, "remove") /\ task[s].stops[p].trip # 0
    /\ LET k == task[s]
           kept == StopsOf(k.stops, k.trip) \ {p}
           new == Renumbered(k.stops, kept)
           moved == {q \in kept : new[q].seq # k.stops[q].seq} IN
       /\ \A q \in moved : stop[q].trip # 0
       /\ stop' = [q \in StopId |->
                     IF q = p THEN GoneStop
                     ELSE IF q \in moved THEN [stop[q] EXCEPT !.seq = new[q].seq]
                     ELSE stop[q]]
       /\ Race(s, {k.trip})
    /\ Done(s)
    /\ UNCHANGED <<trip, order, returned, carried, doubled, dropped, edited>>

\* dispatch_trip; the picking list the driver leaves with is the one of this moment.
DispatchTrip(s) ==
    /\ On(s, "dispatch") /\ HasStops(task[s])
    /\ LET t == task[s].trip IN
       /\ trip' = [trip EXCEPT ![t] = "in_transit"]
       /\ carried' = [p \in StopId |-> IF stop[p].trip = t THEN ToLoad(stop[p].invoice)
                                       ELSE carried[p]]
       /\ Race(s, {t})
    /\ Done(s)
    /\ UNCHANGED <<stop, order, returned, doubled, dropped, edited>>

\* update_stop_status: a decided stop may be decided again while the trip is out.
UpdateStopStatus(s, p, status) ==
    /\ On(s, "decide") /\ task[s].stops[p].trip # 0 /\ stop[p].trip # 0
    /\ stop' = [stop EXCEPT ![p].status = status]
    /\ Done(s)
    /\ UNCHANGED <<trip, order, returned, histories>>

CompleteTrip(s) ==
    /\ On(s, "complete") /\ AllDecided(task[s])
    /\ trip' = [trip EXCEPT ![task[s].trip] = "completed"]
    /\ Done(s)
    /\ UNCHANGED <<stop, order, returned, histories>>

-----------------------------------------------------------------------------
(* Invoices *)

BeginOn(s, i, op) ==
    /\ Free(s) /\ op \in roster[s]
    /\ task' = [task EXCEPT ![s] = [NoTask EXCEPT !.op = op, !.invoice = i]]
    /\ UNCHANGED <<rows, histories>>

\* collect_payment or a confirmed card payment: the cashier's gate opens.
ConfirmPayment(i) ==
    /\ order[i].posted /\ ~order[i].confirmed
    /\ order' = [order EXCEPT ![i].confirmed = TRUE]
    /\ UNCHANGED <<trip, stop, returned, task, histories>>

\* create_return: the row is locked, then refused if a driver has the goods.
BeginSalesReturn(s, i) ==
    /\ order[i].posted /\ ~HeldByReturn(i) /\ NotOnTheRoad(i)
    /\ BeginOn(s, i, "return")

\* create_return: the note is posted; with nothing left to deliver, the stops of
\* trips being planned go, and nobody renumbers the others.
PostSalesReturn(s, b, n) ==
    /\ On(s, "return")
    /\ LET i == task[s].invoice
           empty == Owed(i) = n
           gone == IF empty THEN Pending(i, "planned") ELSE {}
           trips == {stop[p].trip : p \in gone} IN
       /\ \E k \in DOMAIN Sold[i] : /\ Sold[i][k].batch = b
                                    /\ returned[i][b] + n <= Sold[i][k].n
       /\ returned' = [returned EXCEPT ![i][b] = @ + n]
       /\ stop' = [p \in StopId |-> IF p \in gone THEN GoneStop ELSE stop[p]]
       /\ dropped' = dropped \cup trips
       /\ Race(s, trips)
    /\ Done(s)
    /\ UNCHANGED <<trip, order, carried, doubled, edited>>

\* cancel_return, whatever part of what came back the note stands for; it does
\* not look at trips.
CancelSalesReturn(i, b, n) ==
    /\ HasNote(i, b, n)
    /\ returned' = [returned EXCEPT ![i][b] = @ - n]
    /\ UNCHANGED <<trip, stop, order, task, histories>>

\* mark_picked_up: what it checks is what it loaded.
BeginPickUp(s, i) ==
    /\ order[i].posted /\ CanFetch(i)
    /\ BeginOn(s, i, "pickup")

MarkPickedUp(s) ==
    /\ On(s, "pickup")
    /\ LET i == task[s].invoice IN
       /\ order[i].posted /\ ~HeldByReturn(i)
       /\ order' = [order EXCEPT ![i].picked = TRUE]
    /\ Done(s)
    /\ UNCHANGED <<trip, stop, returned, histories>>

\* update_invoice: refused once goods came back; trips are not asked.
BeginRebuild(s, i) ==
    /\ order[i].posted /\ Back(i) = 0
    /\ BeginOn(s, i, "edit")

\* update_invoice: the gate of the cashier starts over.
RebuildInvoice(s, pickup) ==
    /\ On(s, "edit")
    /\ LET i == task[s].invoice IN
       /\ order[i].posted /\ ~HeldByReturn(i)
       /\ order' = [order EXCEPT ![i].pickup = pickup,
                                ![i].picked = @ /\ pickup,
                                ![i].confirmed = i \in OnCredit]
       /\ edited' = IF \/ \E p \in StopId : stop[p].invoice = i
                       \/ \E r \in Session \ {s} : task[r].invoice = i
                    THEN edited \cup {i} ELSE edited
    /\ Done(s)
    /\ UNCHANGED <<trip, stop, returned, carried, raced, doubled, dropped>>

BeginDelete(s, i) ==
    /\ order[i].posted /\ Back(i) = 0
    /\ \A p \in StopId : stop[p].invoice # i
    /\ BeginOn(s, i, "delete")

\* delete_invoice; the foreign keys refuse it when a stop or a note was added since.
DeleteRow(s) ==
    /\ On(s, "delete")
    /\ LET i == task[s].invoice IN
       /\ order[i].posted /\ ~HeldByReturn(i) /\ Back(i) = 0
       /\ \A p \in StopId : stop[p].invoice # i
       /\ order' = [order EXCEPT ![i].posted = FALSE]
    /\ Done(s)
    /\ UNCHANGED <<trip, stop, returned, histories>>

-----------------------------------------------------------------------------
DeliveryStep ==
    \/ \E t \in Trip : CreateTrip(t)
    \/ \E s \in Session, t \in Trip :
          \/ \E i \in Invoice : GetTrip(s, t, "add", i, {"planned"})
          \/ GetTrip(s, t, "remove", 0, {"planned"})
          \/ GetTrip(s, t, "dispatch", 0, {"planned"})
          \/ GetTrip(s, t, "decide", 0, {"in_transit"})
          \/ GetTrip(s, t, "complete", 0, {"in_transit"})
    \/ \E s \in Session :
          \/ CountActive(s) \/ AddInvoice(s)
          \/ DispatchTrip(s) \/ CompleteTrip(s)
          \/ \E p \in StopId :
                \/ RemoveStop(s, p)
                \/ \E status \in StopStatus \ {"pending"} : UpdateStopStatus(s, p, status)
    \/ \E i \in Invoice : ConfirmPayment(i)
    \/ \E s \in Session, i \in Invoice :
          \/ BeginSalesReturn(s, i)
          \/ BeginPickUp(s, i) \/ BeginRebuild(s, i) \/ BeginDelete(s, i)
    \/ \E b \in Batch, n \in 1..MaxBack :
          \/ \E s \in Session : PostSalesReturn(s, b, n)
          \/ \E i \in Invoice : CancelSalesReturn(i, b, n)
    \/ \E s \in Session :
          \/ MarkPickedUp(s) \/ DeleteRow(s) \/ AbortTask(s)
          \/ \E pickup \in BOOLEAN : RebuildInvoice(s, pickup)

DeliveryNext == DeliveryStep /\ UNCHANGED roster

DeliverySpec == DeliveryInit /\ [][DeliveryNext]_deliveryVars

-----------------------------------------------------------------------------
(* Properties *)

\* Every table and every request in flight keeps its shape.
DeliveryTypeOK ==
    /\ trip \in [Trip -> TripStatus]
    /\ stop \in [StopId -> DeliveryStop \cup {NoStop, GoneStop}]
    /\ order \in [Invoice -> [posted : BOOLEAN, pickup : BOOLEAN, picked : BOOLEAN,
                              confirmed : BOOLEAN]]
    /\ returned \in [Invoice -> [Batch -> Nat]]
    /\ \A s \in Session : /\ task[s].stops \in [StopId -> DeliveryStop \cup {NoStop}]
                          /\ task[s].status \in TripStatus
    /\ DOMAIN carried = StopId
    /\ raced \subseteq Trip /\ dropped \subseteq Trip
    /\ doubled \subseteq Invoice /\ edited \subseteq Invoice

OnTheRoad(t) == trip[t] \in {"in_transit", "completed"}

\* A trip that left keeps its stops (dispatch_trip: "freezing its stop list"),
\* unless a request that had loaded the trip before was still in flight.
FrozenOnceLeft ==
    [][\A t \in Trip : OnTheRoad(t) /\ t \notin raced =>
          StopsOf(stop', t) = StopsOf(stop, t)]_deliveryVars

\* No trip is on the road with nothing to deliver, but for the same window.
NoEmptyTrip ==
    \A t \in Trip : OnTheRoad(t) /\ t \notin raced => StopsOf(stop, t) # {}

\* A driver never carries goods that have been credited to the customer
\* (create_return: "the give-away this whole change exists to stop").
NothingCreditedOnTheRoad ==
    \A p \in StopId :
        /\ stop[p].trip # 0 /\ stop[p].status = "pending"
        /\ trip[stop[p].trip] = "in_transit" /\ stop[p].trip \notin raced
        => carried[p] \in 0..Owed(stop[p].invoice)

\* An invoice rides on one trip that is not completed, unless two requests
\* counted its trips before either had added it, or a second dispatch that was in
\* flight reopened the trip.
OneOpenTrip ==
    \A i \in Invoice \ doubled :
        Cardinality({p \in Riding(i) : stop[p].trip \notin raced}) <= 1

\* A completed trip is never on the road again, nor one that left being planned,
\* but for that second dispatch.
StatusGoesForward ==
    [][\A t \in Trip \ raced :
          /\ trip[t] = "completed" => trip'[t] = "completed"
          /\ trip[t] = "in_transit" => trip'[t] # "planned"]_deliveryVars

\* Goods fetched at the warehouse are on nobody's trip, unless the invoice was
\* edited while it rode or while a request had it loaded.
FetchedOrDelivered ==
    \A i \in Invoice \ edited : order[i].picked => \A p \in StopId : stop[p].invoice # i

\* The driver's sheet is numbered without gaps while the trip is planned, as long
\* as no return took a stop off.
VisitingOrder ==
    \A t \in Trip : trip[t] = "planned" /\ t \notin raced \cup dropped =>
        {stop[p].seq : p \in StopsOf(stop, t)} = 1..Cardinality(StopsOf(stop, t))

\* No stop of a completed trip is undecided.
CompletedIsDecided ==
    \A p \in StopId :
        stop[p].trip # 0 /\ trip[stop[p].trip] = "completed" /\ stop[p].trip \notin raced
        => stop[p].status # "pending"

\* What a trip is, whatever requests race.
TripIsWhole ==
    DeliveryTypeOK /\ NoEmptyTrip /\ OneOpenTrip /\ VisitingOrder /\ CompletedIsDecided

\* What a trip that left is from then on: its stops and its place in the lifecycle.
TripRunsItsCourse == FrozenOnceLeft /\ StatusGoesForward

=============================================================================
