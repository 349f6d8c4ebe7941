--------------------------- MODULE DeliveryProofs ---------------------------
(***************************************************************************)
(* Theorems about delivery trips, for any number of trips, stops, invoices *)
(* and requests.                                                           *)
(***************************************************************************)
EXTENDS Delivery, SumLemmas, SequenceTheorems, FiniteSetTheorems, WellFoundedInduction, TLAPS

Planning == {"add", "remove", "dispatch"}

Driving == {"decide", "complete"}

AtDesk == {"return", "pickup", "edit", "delete"}

StopRow == DeliveryStop \cup {NoStop, GoneStop}

Order == [posted : BOOLEAN, pickup : BOOLEAN, picked : BOOLEAN, confirmed : BOOLEAN]

Tasks ==
    [op : {"none"} \cup Planning \cup Driving \cup AtDesk, trip : Trip \cup {0},
     invoice : Invoice \cup {0}, status : TripStatus,
     stops : [StopId -> DeliveryStop \cup {NoStop}], counted : BOOLEAN]

Tables ==
    /\ trip \in [Trip -> TripStatus]
    /\ stop \in [StopId -> StopRow]
    /\ order \in [Invoice -> Order]
    /\ returned \in [Invoice -> [Batch -> Nat]]
    /\ task \in [Session -> Tasks]
    /\ DOMAIN carried = StopId
    /\ raced \subseteq Trip /\ dropped \subseteq Trip
    /\ doubled \subseteq Invoice /\ edited \subseteq Invoice

\* What a request loaded is of one trip, and its rows are there or deleted since.
RowsOf(k) ==
    /\ k.op \in Planning \cup Driving => k.trip \in Trip
    /\ k.op \in AtDesk \/ k.op = "add" => k.invoice \in Invoice
    /\ \A p \in StopId : k.stops[p].trip # 0 =>
          /\ k.op \in Planning \cup Driving /\ k.stops[p].trip = k.trip
          /\ stop[p] # NoStop /\ stop[p].trip \in {k.trip, 0}

\* The trip is what the request loaded it as, or it left beside it.
InTime(k) ==
    /\ k.op \in Planning \cup Driving => trip[k.trip] # "none"
    /\ k.op \in Planning => trip[k.trip] = "planned" \/ k.trip \in raced
    /\ k.op \in Driving => OnTheRoad(k.trip)

\* A trip no request left beside has the stops one that plans it loaded.
AsLoaded(k) ==
    k.op \in Planning /\ k.trip \notin raced =>
        \A p \in StopId :
            /\ stop[p].trip = k.trip <=> k.stops[p].trip = k.trip
            /\ stop[p].trip = k.trip => stop[p].seq = k.stops[p].seq

\* What a request that closes a trip has not seen decided was not.
SeenPending(k) ==
    k.op = "complete" /\ k.trip \notin raced =>
        \A p \in StopId : stop[p].trip = k.trip /\ stop[p].status = "pending" =>
            k.stops[p].trip = k.trip /\ k.stops[p].status = "pending"

\* A stop of a trip that is not completed, but for a second dispatch.
Rides(p, i) == stop[p].invoice = i /\ Open(stop[p].trip) /\ stop[p].trip \notin raced

\* A request that counted the trips of an invoice alone found none, and none came.
AloneWith(k) ==
    k.op = "add" /\ k.counted /\ k.invoice \notin doubled =>
        \A p \in StopId : ~Rides(p, k.invoice)

\* Goods are to be delivered or to be fetched, as the request read it.
OneWay(k) ==
    /\ k.op = "add" /\ k.counted => k.invoice \in edited \/ ~order[k.invoice].pickup
    /\ k.op = "pickup" => k.invoice \in edited \/ order[k.invoice].pickup

InFlight(k) ==
    RowsOf(k) /\ InTime(k) /\ AsLoaded(k) /\ SeenPending(k) /\ AloneWith(k) /\ OneWay(k)

RidesOnce ==
    \A i \in Invoice \ doubled : \A p, q \in StopId : Rides(p, i) /\ Rides(q, i) => p = q

SentOrFetched ==
    \A i \in Invoice \ edited :
        /\ order[i].picked => order[i].pickup
        /\ order[i].pickup => \A p \in StopId : stop[p].invoice # i

Created == \A p \in StopId : stop[p].trip # 0 => trip[stop[p].trip] # "none"

Settled == Created /\ RidesOnce /\ SentOrFetched /\ NoEmptyTrip /\ CompletedIsDecided /\ VisitingOrder

IInv == Tables /\ (\A s \in Session : InFlight(task[s])) /\ Settled

-----------------------------------------------------------------------------
(* Rows and requests *)

LEMMA StopFields ==
    /\ NoStop.trip = 0 /\ NoStop.invoice = 0 /\ NoStop.status = "pending"
    /\ GoneStop.trip = 0 /\ GoneStop.invoice = 0 /\ GoneStop # NoStop
    /\ 0 \notin Trip /\ 0 \notin Invoice
    /\ \A v \in DeliveryStop :
          /\ v.trip \in Trip /\ v.invoice \in Invoice /\ v.seq \in Nat \ {0}
          /\ v.status \in StopStatus /\ v.trip # 0 /\ v.invoice # 0
          /\ v # NoStop /\ v # GoneStop
    /\ \A v \in StopRow : /\ v.trip # 0 <=> v \in DeliveryStop
                          /\ v.invoice # 0 <=> v \in DeliveryStop
                          /\ v.trip \in Trip \cup {0} /\ v.invoice \in Invoice \cup {0}
  <1>1. /\ NoStop.trip = 0 /\ NoStop.invoice = 0 /\ NoStop.status = "pending"
        /\ GoneStop.trip = 0 /\ GoneStop.invoice = 0 /\ GoneStop.status = "failed"
        /\ 0 \notin Trip /\ 0 \notin Invoice
    BY DeliveryAssumption DEF NoStop, GoneStop
  <1>2. \A v \in DeliveryStop :
          /\ v.trip \in Trip /\ v.invoice \in Invoice /\ v.seq \in Nat \ {0}
          /\ v.status \in StopStatus
    BY DEF DeliveryStop
  <1> QED BY <1>1, <1>2 DEF StopRow

LEMMA TaskFields ==
    ASSUME NEW k \in Tasks
    PROVE  /\ k.op \in {"none"} \cup Planning \cup Driving \cup AtDesk
           /\ k.trip \in Trip \cup {0} /\ k.invoice \in Invoice \cup {0}
           /\ k.stops \in [StopId -> DeliveryStop \cup {NoStop}] /\ k.counted \in BOOLEAN
  BY DEF Tasks

LEMMA TaskForm ==
    ASSUME NEW op \in {"none"} \cup Planning \cup Driving \cup AtDesk, NEW t \in Trip \cup {0},
           NEW i \in Invoice \cup {0}, NEW status \in TripStatus,
           NEW stops \in [StopId -> DeliveryStop \cup {NoStop}], NEW counted \in BOOLEAN
    PROVE  [op |-> op, trip |-> t, invoice |-> i, status |-> status, stops |-> stops,
            counted |-> counted] \in Tasks
  BY Zenon DEF Tasks

\* A request that has only an invoice in hand, and one that has nothing, agree with any table.
DeskTask(op, i) ==
    [op |-> op, trip |-> 0, invoice |-> i, status |-> "none",
     stops |-> [p \in StopId |-> NoStop], counted |-> FALSE]

LEMMA DeskTasks ==
    /\ NoTask = DeskTask("none", 0)
    /\ \A op, i : [NoTask EXCEPT !.op = op, !.invoice = i] = DeskTask(op, i)
  <1>1. NoTask = DeskTask("none", 0)
    BY Zenon DEF NoTask, DeskTask
  <1>2. ASSUME NEW op, NEW i
        PROVE  [NoTask EXCEPT !.op = op, !.invoice = i] = DeskTask(op, i)
    <2>1. PICK k : k = [NoTask EXCEPT !.op = op, !.invoice = i]
      OBVIOUS
    <2>2. k = [op |-> op, trip |-> 0, invoice |-> i, status |-> "none",
               stops |-> [p \in StopId |-> NoStop], counted |-> FALSE]
      BY <2>1 DEF NoTask
    <2> QED BY <2>1, <2>2, Zenon DEF DeskTask
  <1> QED BY <1>1, <1>2, Zenon

LEMMA DeskInFlight ==
    ASSUME NEW op \in {"none"} \cup AtDesk, NEW i \in Invoice \cup {0}, op = "none" \/ i \in Invoice
    PROVE  /\ DeskTask(op, i) \in Tasks
           /\ DeskTask(op, i).op = op /\ DeskTask(op, i).invoice = i
           /\ op # "pickup" => InFlight(DeskTask(op, i))
           /\ op = "pickup" /\ (i \in edited \/ order[i].pickup) => InFlight(DeskTask(op, i))
  <1>0. PICK k : k = DeskTask(op, i)
    OBVIOUS
  <1>1. /\ k = [op |-> op, trip |-> 0, invoice |-> i, status |-> "none",
                stops |-> [p \in StopId |-> NoStop], counted |-> FALSE]
        /\ k.op = op /\ k.invoice = i /\ ~k.counted
        /\ \A p \in StopId : k.stops[p] = NoStop
    BY <1>0 DEF DeskTask
  <1>2. k \in Tasks
    <2>1. PICK blank \in [StopId -> DeliveryStop \cup {NoStop}] : blank = [p \in StopId |-> NoStop]
      OBVIOUS
    <2>2. op \in {"none"} \cup Planning \cup Driving \cup AtDesk /\ "none" \in TripStatus
      BY DEF TripStatus
    <2>3. k = [op |-> op, trip |-> 0, invoice |-> i, status |-> "none", stops |-> blank,
               counted |-> FALSE]
      BY <1>1, <2>1
    <2>4. [op |-> op, trip |-> 0, invoice |-> i, status |-> "none", stops |-> blank,
           counted |-> FALSE] \in Tasks
      BY <2>2, TaskForm, Zenon
    <2> QED BY <2>3, <2>4, Zenon
  <1>3. op \notin Planning \cup Driving
    BY DEF Planning, Driving, AtDesk
  <1>4. op \in AtDesk => i \in Invoice
    BY DEF AtDesk
  <1>5. RowsOf(k) /\ InTime(k) /\ AsLoaded(k) /\ SeenPending(k) /\ AloneWith(k)
    BY <1>1, <1>3, <1>4, StopFields
       DEF RowsOf, InTime, AsLoaded, SeenPending, AloneWith, Planning, Driving
  <1>6. OneWay(k) <=> (op = "pickup" => i \in edited \/ order[i].pickup)
    BY <1>1 DEF OneWay
  <1> QED BY <1>0, <1>1, <1>2, <1>5, <1>6 DEF InFlight

LEMMA NoTaskInFlight == NoTask \in Tasks /\ NoTask.op = "none" /\ InFlight(NoTask)
  BY DeskTasks, DeskInFlight

LEMMA StopsFinite ==
    ASSUME NEW table, NEW t
    PROVE  IsFiniteSet(StopsOf(table, t)) /\ Cardinality(StopsOf(table, t)) \in Nat
  BY FS_Subset, FS_CardinalityType, DeliveryAssumption DEF StopsOf

\* The next id of a table is one of a row that is not taken.
LEMMA NextFree ==
    ASSUME NEW table, NEW ids \in SUBSET Nat, NEW free, NextId(table, ids, free) # 0
    PROVE  NextId(table, ids, free) \in ids /\ table[NextId(table, ids, free)] = free
  <1> DEFINE Untaken == {i \in ids : table[i] = free}
             Lower == {pair \in Nat \X Nat : pair[1] < pair[2]}
  <1>1. Untaken # {} /\ Untaken \subseteq Nat
    BY DEF NextId
  <1>2. IsWellFoundedOn(Lower, Nat)
    BY NatLessThanWellFounded DEF OpToRel
  <1>3. \E i \in Untaken : \A j \in Untaken : <<j, i>> \notin Lower
    <2> HIDE DEF Untaken, Lower
    <2> QED BY <1>1, <1>2, WFMin
  <1>4. \E i \in ids : table[i] = free /\ \A j \in ids : j < i => table[j] # free
    BY <1>1, <1>3
  <1> QED BY <1>4 DEF NextId

LEMMA InvInit == DeliveryInit => IInv
  <1> SUFFICES ASSUME DeliveryInit
               PROVE  IInv
    OBVIOUS
  <1>1. Tables
    BY NoTaskInFlight DEF DeliveryInit, Tables, TripStatus, StopRow, Order
  <1>2. \A s \in Session : InFlight(task[s])
    BY NoTaskInFlight DEF DeliveryInit
  <1>3. \A t \in Trip : StopsOf(stop, t) = {}
    BY StopFields DEF DeliveryInit, StopsOf
  <1>4. Settled
    BY <1>3, StopFields
       DEF DeliveryInit, Settled, Created, RidesOnce, Rides, SentOrFetched, NoEmptyTrip,
           CompletedIsDecided, VisitingOrder, OnTheRoad
  <1> QED BY <1>1, <1>2, <1>4 DEF IInv

\* A step that ends request s and leaves the others and the tables in order.
LEMMA Ends ==
    ASSUME IInv, NEW s \in Session, NEW n \in Tasks, task' = [task EXCEPT ![s] = n],
           Tables', Settled', InFlight(n)',
           \A r \in Session \ {s} : \A k \in Tasks :
               k = task[r] /\ InFlight(k) => InFlight(k)'
    PROVE  IInv'
  <1>1. /\ task'[s] = n /\ \A r \in Session \ {s} : task'[r] = task[r] /\ task[r] \in Tasks
    BY DEF IInv, Tables
  <1>2. ASSUME NEW r \in Session
        PROVE  InFlight(task[r])'
    <2>1. CASE r = s
      BY <1>1, <2>1 DEF InFlight, RowsOf, InTime, AsLoaded, SeenPending, AloneWith, OneWay
    <2>2. CASE r # s
      <3>1. PICK k \in Tasks : k = task[r]
        BY <1>1, <2>2
      <3>2. InFlight(k)'
        BY <2>2, <3>1 DEF IInv
      <3> QED BY <1>1, <2>2, <3>1, <3>2
                 DEF InFlight, RowsOf, InTime, AsLoaded, SeenPending, AloneWith, OneWay
    <2> QED BY <2>1, <2>2
  <1> QED BY <1>2 DEF IInv

\* Invoices, units and requests apart, a step that moves nothing keeps everything.
LEMMA Quiet ==
    ASSUME IInv, NEW s \in Session, NEW n \in Tasks, task' = [task EXCEPT ![s] = n], InFlight(n),
           UNCHANGED <<trip, stop, order, histories>>, returned' \in [Invoice -> [Batch -> Nat]]
    PROVE  IInv'
  <1>1. UNCHANGED <<carried, raced, doubled, dropped, edited>>
    BY DEF histories
  <1>2. Tables'
    BY <1>1 DEF IInv, Tables
  <1>3. Settled'
    <2>1. Created' /\ RidesOnce' /\ SentOrFetched'
      BY <1>1 DEF IInv, Settled, Created, RidesOnce, Rides, Open, SentOrFetched
    <2>2. \A t \in Trip : StopsOf(stop, t)' = StopsOf(stop, t)
      BY DEF StopsOf
    <2>3. NoEmptyTrip' /\ CompletedIsDecided'
      BY <1>1, <2>2 DEF IInv, Settled, NoEmptyTrip, CompletedIsDecided, OnTheRoad
    <2>4. VisitingOrder'
      BY <1>1, <2>2 DEF IInv, Settled, VisitingOrder
    <2> QED BY <2>1, <2>3, <2>4 DEF Settled
  <1>4. \A k \in Tasks : InFlight(k) => InFlight(k)'
    BY <1>1 DEF InFlight, RowsOf, InTime, AsLoaded, SeenPending, AloneWith, OneWay, Rides,
                Open, OnTheRoad
  <1> QED BY <1>2, <1>3, <1>4, Ends

-----------------------------------------------------------------------------
(* Requests begin, look and give up *)

LEMMA LoadStep ==
    ASSUME IInv, NEW s \in Session, NEW t \in Trip, NEW op \in Planning \cup Driving,
           NEW i \in Invoice \cup {0}, op = "add" => i \in Invoice,
           NEW statuses, op \in Planning => statuses = {"planned"},
           op \in Driving => statuses = {"in_transit"}, GetTrip(s, t, op, i, statuses)
    PROVE  IInv'
  <1> DEFINE loaded == [p \in StopId |-> IF stop[p].trip = t THEN stop[p] ELSE NoStop]
  <1>1. /\ trip[t] \in statuses /\ UNCHANGED <<rows, histories>>
        /\ task' = [task EXCEPT ![s] =
                      [NoTask EXCEPT !.op = op, !.trip = t, !.invoice = i, !.status = trip[t],
                                     !.stops = loaded]]
    BY DEF GetTrip, StatusAllows
  <1>2. PICK n : n = [NoTask EXCEPT !.op = op, !.trip = t, !.invoice = i, !.status = trip[t],
                                    !.stops = loaded]
    OBVIOUS
  <1>3. /\ n = [op |-> op, trip |-> t, invoice |-> i, status |-> trip[t], stops |-> loaded,
                counted |-> FALSE]
        /\ n.op = op /\ n.trip = t /\ n.invoice = i /\ ~n.counted /\ n.stops = loaded
    BY <1>2 DEF NoTask
  <1>4. /\ \A p \in StopId : /\ loaded[p] \in DeliveryStop \cup {NoStop}
                             /\ loaded[p].trip # 0 <=> stop[p].trip = t
                             /\ stop[p].trip = t => loaded[p] = stop[p]
        /\ \A p \in StopId : stop[p] \in StopRow
    <2> SUFFICES ASSUME NEW p \in StopId
                 PROVE  /\ stop[p] \in StopRow /\ loaded[p] \in DeliveryStop \cup {NoStop}
                        /\ loaded[p].trip # 0 <=> stop[p].trip = t
                        /\ stop[p].trip = t => loaded[p] = stop[p]
      OBVIOUS
    <2>1. stop[p] \in StopRow
      BY DEF IInv, Tables
    <2> QED BY <2>1, StopFields
  <1>5. n \in Tasks
    <2>1. loaded \in [StopId -> DeliveryStop \cup {NoStop}]
      BY <1>4
    <2>2. op \in {"none"} \cup Planning \cup Driving \cup AtDesk /\ t \in Trip \cup {0}
      OBVIOUS
    <2>3. trip[t] \in TripStatus
      BY DEF IInv, Tables
    <2> HIDE DEF loaded
    <2> QED BY <1>3, <2>1, <2>2, <2>3, TaskForm, Zenon
  <1>6. \A p \in StopId : /\ n.stops[p].trip # 0 <=> stop[p].trip = t
                          /\ stop[p].trip = t => n.stops[p] = stop[p]
    BY <1>3, <1>4
  <1> HIDE DEF loaded
  <1>7. RowsOf(n)
    BY <1>3, <1>4, <1>6, StopFields DEF RowsOf, Planning, Driving, AtDesk
  <1>8. InTime(n)
    BY <1>1, <1>3 DEF InTime, Planning, Driving, OnTheRoad
  <1>9. AsLoaded(n)
    BY <1>3, <1>6, StopFields DEF AsLoaded
  <1>10. SeenPending(n) /\ AloneWith(n) /\ OneWay(n)
    BY <1>3, <1>6 DEF SeenPending, AloneWith, OneWay, Planning, Driving
  <1>11. UNCHANGED <<trip, stop, order, histories>> /\ returned' \in [Invoice -> [Batch -> Nat]]
    BY <1>1 DEF rows, IInv, Tables
  <1> QED BY <1>1, <1>2, <1>5, <1>7, <1>8, <1>9, <1>10, <1>11, Quiet DEF InFlight

LEMMA DeskStep ==
    ASSUME IInv, NEW s \in Session,
           \/ AbortTask(s)
           \/ \E i \in Invoice : \/ BeginSalesReturn(s, i) \/ BeginPickUp(s, i)
                                 \/ BeginRebuild(s, i) \/ BeginDelete(s, i)
    PROVE  IInv'
  <1>1. returned \in [Invoice -> [Batch -> Nat]]
    BY DEF IInv, Tables
  <1>2. CASE AbortTask(s)
    BY <1>1, <1>2, NoTaskInFlight, Quiet DEF AbortTask, Done, rows
  <1>3. ASSUME NEW i \in Invoice, NEW op \in AtDesk, BeginOn(s, i, op),
               op = "pickup" => order[i].pickup
        PROVE  IInv'
    <2>1. /\ task' = [task EXCEPT ![s] = DeskTask(op, i)]
          /\ UNCHANGED <<rows, histories>>
      BY <1>3, DeskTasks DEF BeginOn
    <2>2. DeskTask(op, i) \in Tasks /\ InFlight(DeskTask(op, i))
      BY <1>3, DeskInFlight
    <2> QED BY <1>1, <2>1, <2>2, Quiet DEF rows
  <1> QED
    BY <1>2, <1>3 DEF BeginSalesReturn, BeginPickUp, BeginRebuild, BeginDelete, CanFetch, AtDesk

LEMMA CountStep ==
    ASSUME IInv, NEW s \in Session, CountActive(s)
    PROVE  IInv'
  <1>1. PICK k : k = task[s]
    OBVIOUS
  <1>2. /\ k.op = "add" /\ ~order[k.invoice].pickup /\ Riding(k.invoice) = {}
        /\ task' = [task EXCEPT ![s].counted = TRUE]
        /\ UNCHANGED <<rows, histories>>
    BY <1>1 DEF CountActive, On, OnNoTrip
  <1>3. k \in Tasks /\ InFlight(k)
    BY <1>1 DEF IInv, Tables
  <1>4. PICK n : n = [k EXCEPT !.counted = TRUE]
    OBVIOUS
  <1>5. /\ n = [op |-> k.op, trip |-> k.trip, invoice |-> k.invoice, status |-> k.status,
                stops |-> k.stops, counted |-> TRUE]
        /\ n.op = k.op /\ n.trip = k.trip /\ n.invoice = k.invoice /\ n.stops = k.stops
    BY <1>3, <1>4 DEF Tasks
  <1>6. n \in Tasks
    <2>1. k.status \in TripStatus
      BY <1>3 DEF Tasks
    <2> QED BY <1>3, <1>5, <2>1, TaskFields, TaskForm, Zenon
  <1>7. InFlight(n)
    <2>1. RowsOf(n) /\ InTime(n) /\ AsLoaded(n) /\ SeenPending(n)
      BY <1>3, <1>5 DEF InFlight, RowsOf, InTime, AsLoaded, SeenPending
    <2>2. \A p \in StopId : ~Rides(p, n.invoice)
      BY <1>2, <1>5 DEF Rides, Riding
    <2>3. AloneWith(n) /\ OneWay(n)
      BY <1>2, <1>5, <2>2 DEF AloneWith, OneWay
    <2> QED BY <2>1, <2>3 DEF InFlight
  <1> QED BY <1>1, <1>2, <1>4, <1>6, <1>7, Quiet DEF rows, IInv, Tables

-----------------------------------------------------------------------------
(* What happens to an invoice away from the trips *)

LEMMA Stays ==
    ASSUME IInv, UNCHANGED task, Tables', Settled',
           \A r \in Session : \A k \in Tasks : k = task[r] /\ InFlight(k) => InFlight(k)'
    PROVE  IInv'
  <1>1. ASSUME NEW r \in Session
        PROVE  InFlight(task[r])'
    <2>1. PICK k \in Tasks : k = task[r]
      BY DEF IInv, Tables
    <2>2. InFlight(k)'
      BY <2>1 DEF IInv
    <2> QED BY <2>1, <2>2
               DEF InFlight, RowsOf, InTime, AsLoaded, SeenPending, AloneWith, OneWay
  <1> QED BY <1>1 DEF IInv

LEMMA Orders ==
    ASSUME IInv, UNCHANGED <<trip, stop, carried, raced, doubled, dropped>>, SentOrFetched'
    PROVE  Settled' /\ \A k \in Tasks : InFlight(k) /\ OneWay(k)' => InFlight(k)'
  <1>1. Created' /\ RidesOnce'
    BY DEF IInv, Settled, Created, RidesOnce, Rides, Open
  <1>2. \A t \in Trip : StopsOf(stop, t)' = StopsOf(stop, t)
    BY DEF StopsOf
  <1>3. NoEmptyTrip' /\ CompletedIsDecided'
    BY <1>2 DEF IInv, Settled, NoEmptyTrip, CompletedIsDecided, OnTheRoad
  <1>4. VisitingOrder'
    BY <1>2 DEF IInv, Settled, VisitingOrder
  <1>5. \A k \in Tasks : InFlight(k) /\ OneWay(k)' => InFlight(k)'
    BY DEF InFlight, RowsOf, InTime, AsLoaded, SeenPending, AloneWith, Rides, Open, OnTheRoad
  <1> QED BY <1>1, <1>3, <1>4, <1>5 DEF Settled

LEMMA OrderFields ==
    ASSUME Tables, NEW i \in Invoice
    PROVE  /\ order[i] \in Order /\ order[i].pickup \in BOOLEAN /\ order[i].picked \in BOOLEAN
           /\ DOMAIN order = Invoice
  BY DEF Tables, Order

LEMMA CounterStep ==
    ASSUME IInv,
           \/ \E i \in Invoice : ConfirmPayment(i)
           \/ \E i \in Invoice, b \in Batch, n \in 1..MaxBack : CancelSalesReturn(i, b, n)
    PROVE  IInv'
  <1>1. ASSUME NEW i \in Invoice, ConfirmPayment(i)
        PROVE  IInv'
    <2>1. /\ order' = [order EXCEPT ![i].confirmed = TRUE]
          /\ UNCHANGED <<trip, stop, returned, task, carried, raced, doubled, dropped, edited>>
      BY <1>1 DEF ConfirmPayment, histories
    <2>2. /\ order' \in [Invoice -> Order]
          /\ \A j \in Invoice : order'[j].pickup = order[j].pickup /\ order'[j].picked = order[j].picked
      BY <2>1 DEF IInv, Tables, Order
    <2>3. Tables' /\ SentOrFetched'
      BY <2>1, <2>2 DEF IInv, Tables, Settled, SentOrFetched
    <2>4. \A k \in Tasks : InFlight(k) => OneWay(k)'
      BY <2>1, <2>2, TaskFields DEF InFlight, OneWay, RowsOf, AtDesk
    <2> QED BY <2>1, <2>3, <2>4, Orders, Stays
  <1>2. ASSUME NEW i \in Invoice, NEW b \in Batch, NEW n \in 1..MaxBack, CancelSalesReturn(i, b, n)
        PROVE  IInv'
    <2>1. /\ n <= returned[i][b] /\ returned' = [returned EXCEPT ![i][b] = @ - n]
          /\ UNCHANGED <<trip, stop, order, task, carried, raced, doubled, dropped, edited>>
      BY <1>2 DEF CancelSalesReturn, HasNote, histories
    <2>2. returned' \in [Invoice -> [Batch -> Nat]]
      <3>1. returned[i] \in [Batch -> Nat] /\ returned[i][b] \in Nat /\ n \in Nat
        BY DeliveryAssumption DEF IInv, Tables
      <3>2. [returned[i] EXCEPT ![b] = @ - n] \in [Batch -> Nat]
        BY <2>1, <3>1
      <3> QED BY <2>1, <3>2 DEF IInv, Tables
    <2>3. Tables' /\ SentOrFetched'
      BY <2>1, <2>2 DEF IInv, Tables, Settled, SentOrFetched
    <2>4. \A k \in Tasks : InFlight(k) => OneWay(k)'
      BY <2>1 DEF InFlight, OneWay
    <2> QED BY <2>1, <2>3, <2>4, Orders, Stays
  <1> QED BY <1>1, <1>2

LEMMA InvoiceStep ==
    ASSUME IInv, NEW s \in Session,
           \/ MarkPickedUp(s) \/ DeleteRow(s)
           \/ \E pickup \in BOOLEAN : RebuildInvoice(s, pickup)
    PROVE  IInv'
  <1>0. PICK k, i : k = task[s] /\ i = k.invoice
    OBVIOUS
  <1>1. k \in Tasks /\ InFlight(k) /\ k.op \in AtDesk /\ i \in Invoice
    <2>1. k \in Tasks /\ InFlight(k)
      BY <1>0, SMTT(30) DEF IInv, Tables
    <2>2. k.op \in AtDesk
      BY <1>0, ZenonT(40) DEF MarkPickedUp, DeleteRow, RebuildInvoice, On, AtDesk
    <2> QED BY <1>0, <2>1, <2>2 DEF InFlight, RowsOf
  <1>2. /\ task' = [task EXCEPT ![s] = NoTask] /\ UNCHANGED <<trip, stop, returned>>
        /\ UNCHANGED <<carried, raced, doubled, dropped>>
    BY DEF MarkPickedUp, DeleteRow, RebuildInvoice, Done, histories
  <1>3. /\ order[i] \in Order /\ order[i].pickup \in BOOLEAN /\ order[i].picked \in BOOLEAN
        /\ order \in [Invoice -> Order]
    BY <1>1, OrderFields DEF IInv, Tables
  <1>4. \A n \in Tasks : InFlight(n) => \/ n.op # "add" /\ n.op # "pickup"
                                        \/ n.invoice \in Invoice
    BY DEF InFlight, RowsOf, AtDesk
  <1>5. CASE MarkPickedUp(s)
    <2>1. /\ k.op = "pickup" /\ order' = [order EXCEPT ![i].picked = TRUE]
          /\ UNCHANGED edited
      BY <1>0, <1>5 DEF MarkPickedUp, On, histories
    <2>2. /\ order' \in [Invoice -> Order] /\ order'[i].pickup = order[i].pickup
          /\ \A j \in Invoice \ {i} : order'[j] = order[j]
      BY <1>3, <2>1 DEF Order
    <2>3. i \in edited \/ order[i].pickup
      BY <1>0, <1>1, <2>1 DEF InFlight, OneWay
    <2>4. Tables' /\ SentOrFetched'
      BY <1>2, <2>1, <2>2, <2>3, NoTaskInFlight DEF IInv, Tables, Settled, SentOrFetched
    <2>5. \A n \in Tasks : InFlight(n) => OneWay(n)'
      BY <1>4, <2>1, <2>2 DEF InFlight, OneWay
    <2> QED BY <1>2, <2>4, <2>5, NoTaskInFlight, Orders, Ends
  <1>6. CASE DeleteRow(s)
    <2>1. order' = [order EXCEPT ![i].posted = FALSE] /\ UNCHANGED edited
      BY <1>0, <1>6 DEF DeleteRow, histories
    <2>2. /\ order' \in [Invoice -> Order] /\ order'[i].pickup = order[i].pickup
          /\ order'[i].picked = order[i].picked
          /\ \A j \in Invoice \ {i} : order'[j] = order[j]
      BY <1>3, <2>1 DEF Order
    <2>3. Tables' /\ SentOrFetched'
      BY <1>2, <2>1, <2>2, NoTaskInFlight DEF IInv, Tables, Settled, SentOrFetched
    <2>4. \A n \in Tasks : InFlight(n) => OneWay(n)'
      BY <1>4, <2>1, <2>2 DEF InFlight, OneWay
    <2> QED BY <1>2, <2>3, <2>4, NoTaskInFlight, Orders, Ends
  <1>7. ASSUME NEW pickup \in BOOLEAN, RebuildInvoice(s, pickup)
        PROVE  IInv'
    <2>0. PICK fetched, gate \in BOOLEAN :
             /\ fetched = (order[i].picked /\ pickup)
             /\ order' = [order EXCEPT ![i].pickup = pickup, ![i].picked = fetched,
                                      ![i].confirmed = gate]
      <3>1. PICK fetched \in BOOLEAN : fetched = (order[i].picked /\ pickup)
        BY ZenonT(40)
      <3>2. order' = [order EXCEPT ![i].pickup = pickup,
                                   ![i].picked = order[i].picked /\ pickup,
                                   ![i].confirmed = i \in OnCredit]
        BY <1>0, <1>7 DEF RebuildInvoice
      <3>3. order' = [order EXCEPT ![i].pickup = pickup, ![i].picked = fetched,
                                   ![i].confirmed = i \in OnCredit]
        BY <3>1, <3>2
      <3>4. PICK gate \in BOOLEAN : gate = (i \in OnCredit)
        <4>1. PICK pass : pass = [confirmed |-> i \in OnCredit, posted |-> TRUE]
          OBVIOUS
        <4>2. pass \in [confirmed : BOOLEAN, posted : BOOLEAN]
          BY <4>1
        <4>3. pass.confirmed = (i \in OnCredit)
          BY <4>1
        <4> QED BY <4>2, <4>3
      <3> QED BY <3>1, <3>3, <3>4
    <2>1. /\ edited \subseteq edited' /\ edited' \subseteq edited \cup {i}
          /\ i \in edited' \/ /\ \A p \in StopId : stop[p].invoice # i
                              /\ \A r \in Session \ {s} : task[r].invoice # i
      <3>1. edited' = IF \/ \E p \in StopId : stop[p].invoice = task[s].invoice
                         \/ \E r \in Session \ {s} : task[r].invoice = task[s].invoice
                      THEN edited \cup {task[s].invoice} ELSE edited
        BY <1>7 DEF RebuildInvoice
      <3> QED BY <1>0, <3>1
    <2>2. order' = [order EXCEPT ![i] = [posted |-> order[i].posted, pickup |-> pickup,
                                         picked |-> fetched, confirmed |-> gate]]
      <3>1. PICK one, two, three :
               /\ one = [order EXCEPT ![i].pickup = pickup]
               /\ two = [one EXCEPT ![i].picked = fetched]
               /\ three = [two EXCEPT ![i].confirmed = gate]
        OBVIOUS
      <3>2. order' = three
        BY <2>0, <3>1
      <3>3. one[i] = [posted |-> order[i].posted, pickup |-> pickup, picked |-> order[i].picked,
                      confirmed |-> order[i].confirmed]
            /\ one \in [Invoice -> Order] /\ \A j \in Invoice \ {i} : one[j] = order[j]
        BY <1>1, <1>3, <3>1 DEF Order
      <3>4. two[i] = [posted |-> order[i].posted, pickup |-> pickup,
                      picked |-> fetched, confirmed |-> order[i].confirmed]
            /\ two \in [Invoice -> Order] /\ \A j \in Invoice \ {i} : two[j] = order[j]
        BY <1>1, <1>3, <3>1, <3>3 DEF Order
      <3>5. three[i] = [posted |-> order[i].posted, pickup |-> pickup,
                        picked |-> fetched, confirmed |-> gate]
            /\ three \in [Invoice -> Order] /\ \A j \in Invoice \ {i} : three[j] = order[j]
        BY <1>1, <1>3, <3>1, <3>4 DEF Order
      <3> QED BY <1>1, <1>3, <3>2, <3>5
    <2>3. /\ order' \in [Invoice -> Order] /\ order'[i].pickup = pickup
          /\ order'[i].picked => pickup
          /\ \A j \in Invoice \ {i} : order'[j] = order[j]
      <3>1. PICK posted \in BOOLEAN : posted = order[i].posted
        BY <1>3 DEF Order
      <3>2. PICK row : row = [posted |-> posted, pickup |-> pickup, picked |-> fetched,
                              confirmed |-> gate]
        OBVIOUS
      <3>3. row \in Order
        BY <3>2, Zenon DEF Order
      <3>4. row.pickup = pickup /\ row.picked = fetched
        BY <3>2
      <3>5. order' = [order EXCEPT ![i] = row]
        BY <2>2, <3>1, <3>2
      <3>6. fetched => pickup
        BY <2>0, Zenon
      <3> QED BY <1>1, <1>3, <3>3, <3>4, <3>5, <3>6
    <2>4. edited \subseteq edited' /\ edited' \subseteq Invoice
      BY <1>1, <2>1 DEF IInv, Tables
    <2>5. Tables' /\ SentOrFetched'
      BY <1>2, <2>1, <2>3, <2>4, NoTaskInFlight DEF IInv, Tables, Settled, SentOrFetched
    <2>6. \A r \in Session \ {s} : \A n \in Tasks : n = task[r] /\ InFlight(n) => OneWay(n)'
      BY <1>4, <2>1, <2>3, <2>4 DEF InFlight, OneWay
    <2>7. InFlight(NoTask)'
      BY <1>2, <2>5, NoTaskInFlight, Orders DEF OneWay
    <2> QED BY <1>2, <2>5, <2>6, <2>7, NoTaskInFlight, Orders, Ends
  <1> QED BY <1>5, <1>6, <1>7

-----------------------------------------------------------------------------
(* Trips are created, dispatched, completed *)

\* What rides on an invoice has a trip.
LEMMA RowFields ==
    ASSUME Tables, NEW p \in StopId
    PROVE  /\ stop[p] \in StopRow /\ stop[p].trip \in Trip \cup {0}
           /\ stop[p].trip # 0 <=> stop[p] \in DeliveryStop
           /\ \A i \in Invoice : stop[p].invoice = i => stop[p].trip \in Trip
  <1>1. stop[p] \in StopRow
    BY DEF Tables
  <1> QED BY <1>1, StopFields

LEMMA CreateStep ==
    ASSUME IInv, NEW t \in Trip, CreateTrip(t)
    PROVE  IInv'
  <1>1. /\ trip' = [trip EXCEPT ![t] = "planned"] /\ UNCHANGED <<stop, order, returned, task>>
        /\ UNCHANGED <<carried, raced, doubled, dropped, edited>>
    BY DEF CreateTrip, histories
  <1>2. trip[t] = "none"
    BY NextFree, StopFields, DeliveryAssumption DEF CreateTrip
  <1>3. /\ trip'[t] = "planned" /\ \A u \in Trip \ {t} : trip'[u] = trip[u]
        /\ trip' \in [Trip -> TripStatus]
    BY <1>1 DEF IInv, Tables, TripStatus
  <1>4. \A p \in StopId : stop[p].trip # t /\ stop[p].trip \in Trip \cup {0}
    BY <1>2, StopFields, RowFields DEF IInv, Settled, Created
  <1>5. Tables'
    BY <1>1, <1>3 DEF IInv, Tables
  <1>6. \A p \in StopId, i \in Invoice : Rides(p, i)' <=> Rides(p, i)
    BY <1>1, <1>3, <1>4, RowFields DEF IInv, Rides, Open
  <1>7. Settled'
    <2>1. Created' /\ RidesOnce' /\ SentOrFetched'
      BY <1>1, <1>3, <1>4, <1>6 DEF IInv, Settled, Created, RidesOnce, SentOrFetched
    <2>2. /\ \A u \in Trip : StopsOf(stop, u)' = StopsOf(stop, u)
          /\ StopsOf(stop, t) = {}
      BY <1>1, <1>4 DEF StopsOf
    <2>3. NoEmptyTrip' /\ CompletedIsDecided'
      BY <1>1, <1>3, <1>4, <2>2 DEF IInv, Settled, NoEmptyTrip, CompletedIsDecided, OnTheRoad
    <2>4. {stop[p].seq : p \in {}} = 1..Cardinality({})
      BY FS_EmptySet
    <2>5. VisitingOrder'
      BY <1>1, <1>3, <2>2, <2>4 DEF IInv, Settled, VisitingOrder
    <2> QED BY <2>1, <2>3, <2>5 DEF Settled
  <1>8. \A k \in Tasks : InFlight(k) => InFlight(k)'
    <2> SUFFICES ASSUME NEW k \in Tasks, InFlight(k)
                 PROVE  InFlight(k)'
      OBVIOUS
    <2>1. k.op \in Planning \cup Driving => k.trip \in Trip \ {t}
      BY <1>2 DEF InFlight, RowsOf, InTime
    <2>2. RowsOf(k)' /\ InTime(k)'
      BY <1>1, <1>3, <2>1 DEF InFlight, RowsOf, InTime, OnTheRoad
    <2>3. AsLoaded(k)' /\ SeenPending(k)' /\ OneWay(k)'
      BY <1>1 DEF InFlight, AsLoaded, SeenPending, OneWay
    <2>4. AloneWith(k)'
      BY <1>1, <1>6 DEF InFlight, AloneWith, RowsOf
    <2> QED BY <2>2, <2>3, <2>4 DEF InFlight
  <1> QED BY <1>1, <1>5, <1>7, <1>8, Stays

\* A trip on a new leg of its way: what rode rides, or rode on a trip that closed.
LEMMA LegStep ==
    ASSUME IInv, NEW s \in Session, NEW t \in Trip, NEW status \in {"in_transit", "completed"},
           trip' = [trip EXCEPT ![t] = status], task' = [task EXCEPT ![s] = NoTask],
           UNCHANGED <<stop, order, returned, doubled, dropped, edited>>,
           DOMAIN carried' = StopId, raced \subseteq raced', raced' \subseteq Trip,
           OnTheRoad(t) \/ StopsOf(stop, t) # {} \/ t \in raced',
           trip[t] = "completed" => status = "completed" \/ t \in raced',
           status = "completed" /\ t \notin raced' =>
               \A p \in StopId : stop[p].trip = t => stop[p].status # "pending",
           \A r \in Session \ {s} : \A k \in Tasks :
               k = task[r] /\ k.op \in Planning /\ k.trip = t => t \in raced'
    PROVE  IInv'
  <1>1. /\ trip'[t] = status /\ \A u \in Trip \ {t} : trip'[u] = trip[u]
        /\ trip' \in [Trip -> TripStatus] /\ \A u \in Trip : OnTheRoad(u) => OnTheRoad(u)'
        /\ OnTheRoad(t)'
    BY DEF IInv, Tables, TripStatus, OnTheRoad
  <1>2. Tables'
    BY <1>1, NoTaskInFlight DEF IInv, Tables
  <1>3. \A p \in StopId, i \in Invoice : Rides(p, i)' => Rides(p, i)
    BY <1>1, RowFields DEF IInv, Rides, Open
  <1>4. Settled'
    <2>1. Created' /\ RidesOnce' /\ SentOrFetched'
      BY <1>1, <1>3, RowFields DEF IInv, Settled, Created, RidesOnce, SentOrFetched
    <2>2. \A u \in Trip : StopsOf(stop, u)' = StopsOf(stop, u)
      BY DEF StopsOf
    <2>3. NoEmptyTrip'
      BY <1>1, <2>2 DEF IInv, Settled, NoEmptyTrip, OnTheRoad
    <2>4. CompletedIsDecided'
      BY <1>1, RowFields DEF IInv, Settled, CompletedIsDecided
    <2>5. VisitingOrder'
      BY <1>1, <2>2 DEF IInv, Settled, VisitingOrder
    <2> QED BY <2>1, <2>3, <2>4, <2>5 DEF Settled
  <1>5. ASSUME NEW k \in Tasks, InFlight(k), k.op \in Planning /\ k.trip = t => t \in raced'
        PROVE  InFlight(k)'
    <2>1. RowsOf(k)'
      BY <1>5 DEF InFlight, RowsOf
    <2>2. InTime(k)'
      BY <1>1, <1>5 DEF InFlight, InTime, RowsOf
    <2>3. AsLoaded(k)' /\ SeenPending(k)' /\ OneWay(k)'
      BY <1>5 DEF InFlight, AsLoaded, SeenPending, OneWay
    <2>4. AloneWith(k)'
      BY <1>3, <1>5 DEF InFlight, AloneWith, RowsOf
    <2> QED BY <2>1, <2>2, <2>3, <2>4 DEF InFlight
  <1>6. InFlight(NoTask)'
    BY <1>5, NoTaskInFlight DEF Planning
  <1>7. \A r \in Session \ {s} : \A k \in Tasks : k = task[r] /\ InFlight(k) => InFlight(k)'
    BY <1>5
  <1> QED BY <1>2, <1>4, <1>6, <1>7, NoTaskInFlight, Ends

\* Who else planned the trip made it race.
LEMMA Races ==
    ASSUME NEW s \in Session, NEW trips \in SUBSET Trip, Race(s, trips), raced \subseteq Trip
    PROVE  /\ raced \subseteq raced' /\ raced' \subseteq raced \cup trips /\ raced' \subseteq Trip
           /\ \A r \in Session \ {s}, t \in trips : \A k :
                 k = task[r] /\ k.op \in Planning /\ k.trip = t => t \in raced'
  BY DEF Race, OthersOn, Planning

LEMMA RoadStep ==
    ASSUME IInv, NEW s \in Session, DispatchTrip(s) \/ CompleteTrip(s)
    PROVE  IInv'
  <1>0. PICK k, t : k = task[s] /\ t = k.trip
    OBVIOUS
  <1>1. CASE DispatchTrip(s)
    <2>1. /\ k.op = "dispatch" /\ HasStops(k) /\ Race(s, {t})
          /\ trip' = [trip EXCEPT ![t] = "in_transit"] /\ task' = [task EXCEPT ![s] = NoTask]
          /\ UNCHANGED <<stop, order, returned, doubled, dropped, edited>>
          /\ DOMAIN carried' = StopId
      BY <1>0, <1>1 DEF DispatchTrip, On, Done
    <2>2. k \in Tasks /\ InFlight(k)
      BY <1>0 DEF IInv, Tables
    <2>3. t \in Trip /\ (trip[t] = "planned" \/ t \in raced)
      BY <1>0, <2>1, <2>2 DEF InFlight, RowsOf, InTime, Planning
    <2>4. t \in raced \/ StopsOf(stop, t) # {}
      BY <1>0, <2>1, <2>2 DEF InFlight, AsLoaded, HasStops, StopsOf, Planning
    <2>5. /\ raced \subseteq raced' /\ raced' \subseteq Trip
          /\ \A r \in Session \ {s}, n \in Tasks :
                n = task[r] /\ n.op \in Planning /\ n.trip = t => t \in raced'
      BY <2>1, <2>3, Races DEF IInv, Tables
    <2> QED BY <2>1, <2>3, <2>4, <2>5, LegStep
  <1>2. CASE CompleteTrip(s)
    <2>1. /\ k.op = "complete" /\ AllDecided(k)
          /\ trip' = [trip EXCEPT ![t] = "completed"] /\ task' = [task EXCEPT ![s] = NoTask]
          /\ UNCHANGED <<stop, order, returned, carried, raced, doubled, dropped, edited>>
      BY <1>0, <1>2 DEF CompleteTrip, On, Done, histories
    <2>2. k \in Tasks /\ InFlight(k)
      BY <1>0 DEF IInv, Tables
    <2>3. t \in Trip /\ OnTheRoad(t)
      BY <1>0, <2>1, <2>2 DEF InFlight, RowsOf, InTime, Driving
    <2>4. t \notin raced => \A p \in StopId : stop[p].trip = t => stop[p].status # "pending"
      BY <1>0, <2>1, <2>2 DEF InFlight, SeenPending, AllDecided, StopsOf
    <2>5. \A n \in Tasks : InFlight(n) /\ n.op \in Planning /\ n.trip = t => t \in raced
      BY <2>3 DEF InFlight, InTime, OnTheRoad
    <2>6. \A r \in Session \ {s}, n \in Tasks :
             n = task[r] /\ n.op \in Planning /\ n.trip = t => t \in raced
      BY <2>5 DEF IInv
    <2>7. /\ DOMAIN carried' = StopId /\ raced \subseteq raced' /\ raced' \subseteq Trip
          /\ \A r \in Session \ {s}, n \in Tasks :
                n = task[r] /\ n.op \in Planning /\ n.trip = t => t \in raced'
          /\ t \notin raced' => \A p \in StopId : stop[p].trip = t => stop[p].status # "pending"
      BY <2>1, <2>4, <2>6 DEF IInv, Tables
    <2> QED BY <2>1, <2>3, <2>7, LegStep
  <1> QED BY <1>1, <1>2

LEMMA DecideStep ==
    ASSUME IInv, NEW s \in Session, NEW p \in StopId, NEW status \in StopStatus \ {"pending"},
           UpdateStopStatus(s, p, status)
    PROVE  IInv'
  <1>1. /\ stop[p].trip # 0 /\ stop' = [stop EXCEPT ![p].status = status]
        /\ task' = [task EXCEPT ![s] = NoTask] /\ UNCHANGED <<trip, order, returned>>
        /\ UNCHANGED <<carried, raced, doubled, dropped, edited>>
    BY DEF UpdateStopStatus, Done, histories
  <1>2. PICK row : row = [stop[p] EXCEPT !.status = status]
    OBVIOUS
  <1>3. /\ row \in DeliveryStop /\ row.trip = stop[p].trip /\ row.invoice = stop[p].invoice
        /\ row.seq = stop[p].seq /\ row.status = status
    BY <1>1, <1>2, RowFields DEF IInv, DeliveryStop
  <1>4. /\ stop' \in [StopId -> StopRow]
        /\ \A q \in StopId : /\ stop'[q].trip = stop[q].trip /\ stop'[q].seq = stop[q].seq
                             /\ stop'[q].invoice = stop[q].invoice
                             /\ stop'[q].status = "pending" => stop[q].status = "pending"
                             /\ stop'[q] = NoStop => stop[q] = NoStop
    BY <1>1, <1>2, <1>3, StopFields DEF IInv, Tables, StopRow
  <1>5. Tables'
    BY <1>1, <1>4, NoTaskInFlight DEF IInv, Tables
  <1>6. Settled'
    <2>1. Created' /\ RidesOnce' /\ SentOrFetched'
      BY <1>1, <1>4 DEF IInv, Settled, Created, RidesOnce, Rides, Open, SentOrFetched
    <2>2. \A u \in Trip : StopsOf(stop', u) = StopsOf(stop, u)
      BY <1>4 DEF StopsOf
    <2>3. NoEmptyTrip' /\ CompletedIsDecided'
      <3>1. NoEmptyTrip'
        BY <1>1, <2>2 DEF IInv, Settled, NoEmptyTrip, OnTheRoad
      <3>2. CompletedIsDecided'
        BY <1>1, <1>4 DEF IInv, Settled, CompletedIsDecided
      <3> QED BY <3>1, <3>2
    <2>4. \A u \in Trip : \A q \in StopsOf(stop, u) : stop'[q].seq = stop[q].seq
      BY <1>4 DEF StopsOf
    <2>5. \A u \in Trip : {stop'[q].seq : q \in StopsOf(stop', u)} =
                             {stop[q].seq : q \in StopsOf(stop, u)}
      BY <2>2, <2>4
    <2>6. VisitingOrder'
      BY <1>1, <2>2, <2>5 DEF IInv, Settled, VisitingOrder
    <2> QED BY <2>1, <2>3, <2>6 DEF Settled
  <1>7. \A k \in Tasks : InFlight(k) => InFlight(k)'
    BY <1>1, <1>4 DEF InFlight, RowsOf, InTime, AsLoaded, SeenPending, AloneWith, OneWay, Rides,
                      Open, OnTheRoad
  <1> QED BY <1>1, <1>5, <1>6, <1>7, NoTaskInFlight, Ends

-----------------------------------------------------------------------------
(* A stop is added *)

\* One more stop takes the next place in the visiting order.
LEMMA NextPlace ==
    ASSUME NEW t \in Trip, NEW p \in StopId, NEW table, NEW new, p \notin StopsOf(table, t),
           StopsOf(new, t) = StopsOf(table, t) \cup {p},
           \A q \in StopsOf(table, t) : new[q].seq = table[q].seq,
           new[p].seq = Cardinality(StopsOf(table, t)) + 1,
           {table[q].seq : q \in StopsOf(table, t)} = 1..Cardinality(StopsOf(table, t))
    PROVE  {new[q].seq : q \in StopsOf(new, t)} = 1..Cardinality(StopsOf(new, t))
  <1>1. PICK S, c : S = StopsOf(table, t) /\ c = Cardinality(S)
    OBVIOUS
  <1>2. c \in Nat /\ Cardinality(S \cup {p}) = c + 1
    BY <1>1, StopsFinite, FS_AddElement
  <1>3. {new[q].seq : q \in S} = 1..c
    BY <1>1
  <1>4. {new[q].seq : q \in S \cup {p}} = {new[q].seq : q \in S} \cup {c + 1}
    BY <1>1
  <1>5. 1..(c + 1) = (1..c) \cup {c + 1}
    BY <1>2
  <1> QED BY <1>1, <1>2, <1>3, <1>4, <1>5

LEMMA AddStep ==
    ASSUME IInv, NEW s \in Session, AddInvoice(s)
    PROVE  IInv'
  <1>0. PICK k, t, i, p, c : /\ k = task[s] /\ t = k.trip /\ i = k.invoice
                             /\ p = NextId(stop, StopId, NoStop)
                             /\ c = Cardinality(StopsOf(k.stops, t))
    OBVIOUS
  <1>1. /\ k.op = "add" /\ k.counted /\ p # 0 /\ Race(s, {t})
        /\ stop' = [stop EXCEPT ![p] =
                      [trip |-> t, invoice |-> i, status |-> "pending", seq |-> c + 1]]
        /\ doubled' = IF \E r \in Session \ {s} :
                            On(r, "add") /\ task[r].invoice = i /\ task[r].counted
                      THEN doubled \cup {i} ELSE doubled
        /\ task' = [task EXCEPT ![s] = NoTask]
        /\ UNCHANGED <<trip, order, returned, carried, dropped, edited>>
    BY <1>0 DEF AddInvoice, On, Done
  <1>2. k \in Tasks /\ InFlight(k)
    BY <1>0 DEF IInv, Tables
  <1>3. /\ t \in Trip /\ i \in Invoice /\ c \in Nat
        /\ trip[t] # "none" /\ (trip[t] = "planned" \/ t \in raced)
    BY <1>0, <1>1, <1>2, StopsFinite DEF InFlight, RowsOf, InTime, Planning
  <1>4. p \in StopId /\ stop[p] = NoStop
    BY <1>0, <1>1, NextFree, DeliveryAssumption
  <1>5. PICK row : row = [trip |-> t, invoice |-> i, status |-> "pending", seq |-> c + 1]
    OBVIOUS
  <1>6. /\ row \in DeliveryStop /\ row.trip = t /\ row.invoice = i /\ row.seq = c + 1
        /\ row.status = "pending"
    <2>1. c + 1 \in Nat \ {0} /\ "pending" \in StopStatus
      BY <1>3 DEF StopStatus
    <2> QED BY <1>3, <1>5, <2>1 DEF DeliveryStop
  <1>7. /\ stop' \in [StopId -> StopRow] /\ stop'[p] = row
        /\ \A q \in StopId \ {p} : stop'[q] = stop[q]
    BY <1>1, <1>4, <1>5, <1>6 DEF IInv, Tables, StopRow
  <1>8. /\ raced \subseteq raced' /\ raced' \subseteq Trip
        /\ \A r \in Session \ {s}, n \in Tasks :
              n = task[r] /\ n.op \in Planning /\ n.trip = t => t \in raced'
    BY <1>1, <1>3, Races DEF IInv, Tables
  <1>9. /\ doubled \subseteq doubled' /\ doubled' \subseteq Invoice
        /\ \A r \in Session \ {s}, n \in Tasks :
              n = task[r] /\ n.op = "add" /\ n.counted /\ n.invoice = i => i \in doubled'
    BY <1>1, <1>3 DEF IInv, Tables, On
  <1>10. Tables'
    BY <1>1, <1>7, <1>8, <1>9, NoTaskInFlight DEF IInv, Tables
  <1>11. \A q \in StopId \ {p}, j \in Invoice : Rides(q, j)' => Rides(q, j)
    BY <1>1, <1>7, <1>8 DEF Rides, Open
  <1>12. Settled'
    <2>1. Created'
      BY <1>1, <1>3, <1>6, <1>7 DEF IInv, Settled, Created
    <2>2. RidesOnce'
      <3> SUFFICES ASSUME NEW j \in Invoice, j \notin doubled', NEW q \in StopId, NEW r \in StopId,
                          Rides(q, j)', Rides(r, j)'
                   PROVE  q = r
        BY DEF RidesOnce
      <3>1. CASE j = i
        <4>1. \A x \in StopId : ~Rides(x, i)
          BY <1>0, <1>1, <1>2, <1>9, <3>1 DEF InFlight, AloneWith
        <4> QED BY <1>11, <3>1, <4>1
      <3>2. CASE j # i
        <4>1. q # p /\ r # p
          BY <1>6, <1>7, <3>2 DEF Rides
        <4> QED BY <1>9, <1>11, <4>1 DEF IInv, Settled, RidesOnce
      <3> QED BY <3>1, <3>2
    <2>3. SentOrFetched'
      <3>1. i \in edited \/ ~order[i].pickup
        BY <1>0, <1>1, <1>2 DEF InFlight, OneWay
      <3> QED BY <1>1, <1>6, <1>7, <3>1 DEF IInv, Settled, SentOrFetched
    <2>4. /\ StopsOf(stop', t) = StopsOf(stop, t) \cup {p} /\ p \notin StopsOf(stop, t)
          /\ \A u \in Trip \ {t} : StopsOf(stop', u) = StopsOf(stop, u) /\ p \notin StopsOf(stop, u)
      BY <1>3, <1>4, <1>6, <1>7, StopFields DEF StopsOf
    <2>5. NoEmptyTrip'
      BY <1>1, <1>8, <2>4 DEF IInv, Settled, NoEmptyTrip, OnTheRoad
    <2>6. CompletedIsDecided'
      BY <1>1, <1>3, <1>6, <1>7, <1>8 DEF IInv, Settled, CompletedIsDecided
    <2>7. ASSUME NEW u \in Trip, trip[u] = "planned", u \notin raced' \cup dropped
          PROVE  {stop'[q].seq : q \in StopsOf(stop', u)} = 1..Cardinality(StopsOf(stop', u))
      <3>1. {stop[q].seq : q \in StopsOf(stop, u)} = 1..Cardinality(StopsOf(stop, u))
        BY <1>8, <2>7 DEF IInv, Settled, VisitingOrder
      <3>2. \A q \in StopsOf(stop, u) : stop'[q].seq = stop[q].seq
        BY <1>7, <2>4 DEF StopsOf
      <3>3. CASE u = t
        <4>1. StopsOf(k.stops, t) = StopsOf(stop, t)
          <5>1. k.op \in Planning /\ k.trip = t /\ k.trip \notin raced
            BY <1>0, <1>1, <1>8, <2>7, <3>3 DEF Planning
          <5>2. \A q \in StopId : stop[q].trip = t <=> k.stops[q].trip = t
            BY <1>2, <5>1 DEF InFlight, AsLoaded
          <5> QED BY <5>2 DEF StopsOf
        <4> QED BY <1>0, <1>3, <1>4, <1>6, <1>7, <2>4, <3>1, <3>2, <3>3, <4>1, NextPlace
      <3>4. CASE u # t
        <4>1. {stop'[q].seq : q \in StopsOf(stop', u)} = {stop[q].seq : q \in StopsOf(stop, u)}
          BY <2>4, <3>2, <3>4
        <4> QED BY <2>4, <3>1, <3>4, <4>1
      <3> QED BY <3>3, <3>4
    <2>8. VisitingOrder'
      BY <1>1, <2>7 DEF VisitingOrder
    <2> QED BY <2>1, <2>2, <2>3, <2>5, <2>6, <2>8 DEF Settled
  <1>13. ASSUME NEW n \in Tasks, InFlight(n), n.op \in Planning /\ n.trip = t => t \in raced',
                n.op = "add" /\ n.counted /\ n.invoice = i => i \in doubled'
         PROVE  InFlight(n)'
    <2>1. n.stops[p].trip = 0
      BY <1>4, <1>13 DEF InFlight, RowsOf
    <2>2. RowsOf(n)' /\ InTime(n)' /\ OneWay(n)'
      BY <1>1, <1>7, <1>8, <1>13, <2>1 DEF InFlight, RowsOf, InTime, OneWay, OnTheRoad
    <2>3. AsLoaded(n)'
      BY <1>3, <1>4, <1>6, <1>7, <1>8, <1>13, <2>1, StopFields DEF InFlight, RowsOf, AsLoaded
    <2>4. SeenPending(n)'
      BY <1>3, <1>6, <1>7, <1>8, <1>13 DEF InFlight, InTime, SeenPending, Driving, OnTheRoad
    <2>5. AloneWith(n)'
      <3> SUFFICES ASSUME n.op = "add", n.counted, n.invoice \notin doubled', NEW q \in StopId,
                          Rides(q, n.invoice)'
                   PROVE  FALSE
        BY DEF AloneWith
      <3>1. q # p /\ n.invoice \in Invoice
        BY <1>6, <1>7, <1>13 DEF Rides, InFlight, RowsOf
      <3> QED BY <1>9, <1>11, <1>13, <3>1 DEF InFlight, AloneWith
    <2> QED BY <2>2, <2>3, <2>4, <2>5 DEF InFlight
  <1>14. InFlight(NoTask)'
    BY <1>13, NoTaskInFlight DEF Planning
  <1>15. \A r \in Session \ {s} : \A n \in Tasks : n = task[r] /\ InFlight(n) => InFlight(n)'
    BY <1>8, <1>9, <1>13
  <1> QED BY <1>1, <1>10, <1>12, <1>14, <1>15, NoTaskInFlight, Ends

-----------------------------------------------------------------------------
(* A stop is removed and the others are renumbered *)

\* With as many places as stops, no two stops share one and a of them have a place up to a.
LEMMA Places ==
    ASSUME NEW S, IsFiniteSet(S), NEW place \in [S -> Nat],
           {place[q] : q \in S} = 1..Cardinality(S)
    PROVE  /\ \A q, r \in S : place[q] = place[r] => q = r
           /\ \A a \in 0..Cardinality(S) : Cardinality({q \in S : place[q] <= a}) = a
  <1>1. PICK c \in Nat : c = Cardinality(S)
    BY FS_CardinalityType
  <1>2. place \in Surjection(S, 1..c)
    BY <1>1 DEF Surjection
  <1>3. Cardinality(1..c) = c
    BY FS_Interval
  <1>4. \A q, r \in S : place[q] = place[r] => q = r
    BY <1>1, <1>2, <1>3, FS_Surjection DEF Injection, IsInjective
  <1>5. ASSUME NEW a \in 0..c
        PROVE  Cardinality({q \in S : place[q] <= a}) = a
    <2>1. PICK T, low : /\ T = {q \in S : place[q] <= a}
                        /\ low = [q \in T |-> place[q]]
      OBVIOUS
    <2>2. IsFiniteSet(T)
      BY <2>1, FS_Subset
    <2>3. low \in Surjection(T, 1..a)
      <3>1. low \in [T -> 1..a]
        BY <1>1, <2>1
      <3>2. ASSUME NEW b \in 1..a
            PROVE  \E q \in T : low[q] = b
        <4>1. PICK q \in S : place[q] = b
          BY <1>1
        <4> QED BY <2>1, <4>1
      <3> QED BY <3>1, <3>2 DEF Surjection
    <2>4. low \in Injection(T, 1..a)
      BY <1>4, <2>1, <2>3 DEF Surjection, Injection, IsInjective
    <2>5. Cardinality(1..a) = a
      BY FS_Interval
    <2> QED BY <2>1, <2>2, <2>3, <2>4, <2>5, FS_Surjection
  <1> QED BY <1>1, <1>4, <1>5

\* The place an element of R takes when the order of its old place is all that counts.
RankIn(R, place, q) ==
    Cardinality({r \in R : \/ place[r] < place[q]
                           \/ place[r] = place[q] /\ r <= q})

\* Renumbering what is left closes the gap.
LEMMA GapCloses ==
    ASSUME NEW S, IsFiniteSet(S), S \subseteq Nat, NEW place \in [S -> Nat], NEW p \in S,
           {place[q] : q \in S} = 1..Cardinality(S)
    PROVE  {RankIn(S \ {p}, place, q) : q \in S \ {p}} = 1..Cardinality(S \ {p})
  <1>1. PICK c, m \in Nat : c = Cardinality(S) /\ m = place[p] /\ m \in 1..c
    BY FS_CardinalityType
  <1>2. /\ \A q \in S : place[q] \in 1..c
        /\ \A a \in 1..c : \E q \in S : place[q] = a
        /\ Cardinality(S \ {p}) = c - 1
    <2>1. Cardinality(S \ {p}) = c - 1
      BY <1>1, FS_RemoveElement
    <2>2. \A q \in S : place[q] \in {place[r] : r \in S}
      OBVIOUS
    <2>3. \A a \in {place[r] : r \in S} : \E q \in S : place[q] = a
      OBVIOUS
    <2> QED BY <1>1, <2>1, <2>2, <2>3
  <1>3. /\ \A q, r \in S : place[q] = place[r] => q = r
        /\ \A a \in 0..c : Cardinality({q \in S : place[q] <= a}) = a
    <2>1. /\ \A q, r \in S : place[q] = place[r] => q = r
          /\ \A a \in 0..Cardinality(S) : Cardinality({q \in S : place[q] <= a}) = a
      BY Places
    <2> QED BY <1>1, <2>1
  <1>4. ASSUME NEW q \in S \ {p}
        PROVE  RankIn(S \ {p}, place, q) =
                 IF place[q] < m THEN place[q] ELSE place[q] - 1
    <2>1. PICK low : low = {r \in S : place[r] <= place[q]}
      OBVIOUS
    <2>2. place[q] \in 0..c /\ place[q] \in Nat /\ place[q] # m /\ q \in Nat
      BY <1>1, <1>2, <1>3
    <2>3. IsFiniteSet(low)
      BY <2>1, FS_Subset
    <2>4. Cardinality(low) = place[q]
      BY <1>3, <2>1, <2>2
    <2>5. ASSUME NEW r \in S
          PROVE  (place[r] < place[q] \/ (place[r] = place[q] /\ r <= q)) <=> place[r] <= place[q]
      <3>1. place[r] \in Nat /\ (place[r] = place[q] => r = q)
        BY <1>3
      <3> QED BY <2>2, <3>1
    <2>6. {r \in S \ {p} : \/ place[r] < place[q]
                           \/ place[r] = place[q] /\ r <= q} = low \ {p}
      BY <2>1, <2>5
    <2>7. p \in low <=> m < place[q]
      BY <1>1, <2>1, <2>2
    <2>8. RankIn(S \ {p}, place, q) = Cardinality(low \ {p})
      BY <2>6 DEF RankIn
    <2>9. Cardinality(low \ {p}) = IF p \in low THEN place[q] - 1 ELSE place[q]
      BY <2>3, <2>4, FS_RemoveElement
    <2>10. place[q] < m <=> ~(m < place[q])
      BY <1>1, <2>2
    <2> QED BY <2>7, <2>8, <2>9, <2>10
  <1>5. \A q \in S \ {p} : RankIn(S \ {p}, place, q) \in 1..(c - 1)
    BY <1>1, <1>2, <1>3, <1>4
  <1>6. ASSUME NEW a \in 1..(c - 1)
        PROVE  \E q \in S \ {p} : RankIn(S \ {p}, place, q) = a
    <2>1. PICK q \in S : place[q] = IF a < m THEN a ELSE a + 1
      BY <1>2
    <2> QED BY <1>1, <1>4, <2>1
  <1> QED BY <1>2, <1>5, <1>6

\* The places Renumbered gives.
LEMMA NewPlaces ==
    ASSUME NEW table \in [StopId -> DeliveryStop \cup {NoStop}], NEW kept \in SUBSET StopId,
           NEW q \in StopId,
           q \in kept => table[q] \in DeliveryStop
    PROVE  /\ q \notin kept => Renumbered(table, kept)[q] = table[q]
           /\ q \in kept =>
                 /\ Renumbered(table, kept)[q].seq =
                       Cardinality({r \in kept : \/ table[r].seq < table[q].seq
                                                 \/ table[r].seq = table[q].seq /\ r <= q})
                 /\ Renumbered(table, kept)[q].seq \in Nat \ {0}
  <1>1. CASE q \notin kept
    BY <1>1 DEF Renumbered
  <1>2. CASE q \in kept
    <2>1. PICK upTo : upTo = {r \in kept : \/ table[r].seq < table[q].seq
                                           \/ table[r].seq = table[q].seq /\ r <= q}
      OBVIOUS
    <2>2. PICK row : row = [table[q] EXCEPT !.seq = Cardinality(upTo)]
      OBVIOUS
    <2>3. Renumbered(table, kept)[q] = row
      BY <1>2, <2>1, <2>2 DEF Renumbered
    <2>4. row.seq = Cardinality(upTo)
      BY <1>2, <2>2 DEF DeliveryStop
    <2>5. q \in upTo
      BY <1>2, <2>1, StopFields, DeliveryAssumption
    <2>6. IsFiniteSet(upTo)
      BY <2>1, FS_Subset, DeliveryAssumption
    <2>7. Cardinality(upTo) \in Nat \ {0}
      BY <2>5, <2>6, FS_EmptySet, FS_CardinalityType
    <2> QED BY <1>2, <2>1, <2>3, <2>4, <2>7
  <1> QED BY <1>1, <1>2

LEMMA RemoveStep ==
    ASSUME IInv, NEW s \in Session, NEW p \in StopId, RemoveStop(s, p)
    PROVE  IInv'
  <1>0. PICK k, t, kept, new, moved :
           /\ k = task[s] /\ t = k.trip /\ kept = StopsOf(k.stops, t) \ {p}
           /\ new = Renumbered(k.stops, kept)
           /\ moved = {q \in kept : new[q].seq # k.stops[q].seq}
    OBVIOUS
  <1>1. /\ k.op = "remove" /\ k.stops[p].trip # 0 /\ Race(s, {t})
        /\ \A q \in moved : stop[q].trip # 0
        /\ stop' = [q \in StopId |->
                      IF q = p THEN GoneStop
                      ELSE IF q \in moved THEN [stop[q] EXCEPT !.seq = new[q].seq]
                      ELSE stop[q]]
        /\ task' = [task EXCEPT ![s] = NoTask]
        /\ UNCHANGED <<trip, order, returned, carried, doubled, dropped, edited>>
    BY <1>0 DEF RemoveStop, On, Done
  <1>2. k \in Tasks /\ InFlight(k) /\ k.stops \in [StopId -> DeliveryStop \cup {NoStop}]
    BY <1>0, TaskFields DEF IInv, Tables
  <1>3. /\ t \in Trip /\ (trip[t] = "planned" \/ t \in raced)
        /\ k.stops[p].trip = t /\ stop[p].trip \in {t, 0}
    BY <1>0, <1>1, <1>2 DEF InFlight, RowsOf, InTime, Planning
  <1>4. /\ raced \subseteq raced' /\ raced' \subseteq Trip
        /\ \A r \in Session \ {s}, n \in Tasks :
              n = task[r] /\ n.op \in Planning /\ n.trip = t => t \in raced'
    BY <1>1, <1>3, Races, SMTT(30) DEF IInv, Tables
  <1>5. /\ kept \subseteq StopId /\ p \notin kept
        /\ \A q \in kept : k.stops[q] \in DeliveryStop /\ k.stops[q].trip = t
    <2>1. \A q \in kept : q \in StopId /\ q # p /\ k.stops[q].trip = t
      BY <1>0 DEF StopsOf
    <2> QED BY <1>2, <1>3, <2>1, StopFields
  <1>6. \A q \in moved : /\ q \in kept /\ stop[q] \in DeliveryStop /\ stop[q].trip = t
                         /\ new[q].seq \in Nat \ {0}
    <2> SUFFICES ASSUME NEW q \in moved
                 PROVE  /\ q \in kept /\ stop[q] \in DeliveryStop /\ stop[q].trip = t
                        /\ new[q].seq \in Nat \ {0}
      OBVIOUS
    <2>1. q \in kept /\ q \in StopId /\ k.stops[q].trip # 0
      BY <1>0, <1>5, StopFields
    <2>2. stop[q].trip = t
      BY <1>0, <1>1, <1>2, <2>1 DEF InFlight, RowsOf
    <2>3. stop[q] \in DeliveryStop
      BY <1>1, <2>1, RowFields DEF IInv
    <2>4. new[q].seq \in Nat \ {0}
      BY <1>0, <1>2, <1>5, <2>1, NewPlaces
    <2> QED BY <2>1, <2>2, <2>3, <2>4
  <1>7. /\ stop'[p] = GoneStop
        /\ \A q \in StopId \ ({p} \cup moved) : stop'[q] = stop[q]
        /\ \A q \in moved : /\ stop'[q] \in DeliveryStop /\ stop'[q].trip = t
                            /\ stop'[q].invoice = stop[q].invoice
                            /\ stop'[q].status = stop[q].status
                            /\ stop'[q].seq = new[q].seq
    <2>1. ASSUME NEW q \in moved
          PROVE  /\ stop'[q] \in DeliveryStop /\ stop'[q].trip = t
                 /\ stop'[q].invoice = stop[q].invoice
                 /\ stop'[q].status = stop[q].status
                 /\ stop'[q].seq = new[q].seq
      <3>1. stop'[q] = [stop[q] EXCEPT !.seq = new[q].seq]
        BY <1>1, <1>5, <1>6
      <3>2. PICK row : row = [stop[q] EXCEPT !.seq = new[q].seq]
        OBVIOUS
      <3>3. /\ row \in DeliveryStop /\ row.trip = stop[q].trip
            /\ row.invoice = stop[q].invoice /\ row.status = stop[q].status
            /\ row.seq = new[q].seq
        BY <1>6, <3>2 DEF DeliveryStop
      <3> QED BY <1>6, <3>1, <3>2, <3>3
    <2> QED BY <1>1, <2>1
  <1>8. /\ DOMAIN stop' = StopId /\ stop' = [q \in StopId |-> stop'[q]]
        /\ \A q \in StopId : stop'[q] \in StopRow
        /\ \A q \in StopId \ {p} : /\ stop'[q].trip = stop[q].trip
                                   /\ stop'[q].invoice = stop[q].invoice
                                   /\ stop'[q].status = stop[q].status
                                   /\ stop'[q] = NoStop => stop[q] = NoStop
    BY <1>1, <1>6, <1>7, RowFields, StopFields DEF IInv, StopRow
  <1>9. Tables'
    <2>1. stop' \in [StopId -> StopRow]
      BY <1>8
    <2> QED BY <1>1, <1>4, <2>1, NoTaskInFlight DEF IInv, Tables
  <1>10. \A q \in StopId, j \in Invoice : Rides(q, j)' => Rides(q, j)
    BY <1>1, <1>4, <1>7, <1>8, StopFields DEF Rides, Open
  <1>11. Settled'
    <2>1. Created' /\ SentOrFetched' /\ CompletedIsDecided'
      BY <1>1, <1>4, <1>7, <1>8, StopFields
         DEF IInv, Settled, Created, SentOrFetched, CompletedIsDecided
    <2>2. RidesOnce'
      BY <1>1, <1>10 DEF IInv, Settled, RidesOnce
    <2>3. \A u \in Trip \ {t} : StopsOf(stop', u) = StopsOf(stop, u)
      BY <1>3, <1>7, <1>8, StopFields DEF StopsOf
    <2>4. NoEmptyTrip'
      BY <1>1, <1>3, <1>4, <2>3 DEF IInv, Settled, NoEmptyTrip, OnTheRoad
    <2>5. ASSUME NEW u \in Trip, trip[u] = "planned", u \notin raced' \cup dropped
          PROVE  {stop'[q].seq : q \in StopsOf(stop', u)} = 1..Cardinality(StopsOf(stop', u))
      <3>1. {stop[q].seq : q \in StopsOf(stop, u)} = 1..Cardinality(StopsOf(stop, u))
        BY <1>4, <2>5 DEF IInv, Settled, VisitingOrder
      <3>2. CASE u # t
        <4>1. \A q \in StopsOf(stop, u) : stop'[q].seq = stop[q].seq
          <5>1. \A q \in StopsOf(stop, u) : q \in StopId /\ stop[q].trip = u
            BY DEF StopsOf
          <5>2. \A q \in StopsOf(stop, u) : q # p /\ q \notin moved
            BY <1>3, <1>6, <3>2, <5>1, StopFields
          <5> QED BY <1>7, <5>1, <5>2
        <4>2. {stop'[q].seq : q \in StopsOf(stop', u)} = {stop[q].seq : q \in StopsOf(stop, u)}
          BY <2>3, <3>2, <4>1
        <4> QED BY <2>3, <3>1, <3>2, <4>2
      <3>3. CASE u = t
        <4>1. PICK S, place : S = StopsOf(stop, t) /\ place = [q \in S |-> stop[q].seq]
          OBVIOUS
        <4>2. /\ StopsOf(k.stops, t) = S /\ S \subseteq StopId /\ p \in S
              /\ \A q \in S : k.stops[q].seq = stop[q].seq /\ place[q] = stop[q].seq
          <5>1. k.op \in Planning /\ k.trip = t /\ k.trip \notin raced
            BY <1>0, <1>1, <1>4, <2>5, <3>3 DEF Planning
          <5>2. \A q \in StopId : /\ stop[q].trip = t <=> k.stops[q].trip = t
                                  /\ stop[q].trip = t => stop[q].seq = k.stops[q].seq
            BY <1>2, <5>1 DEF InFlight, AsLoaded
          <5>3. StopsOf(k.stops, t) = S /\ S \subseteq StopId
            BY <4>1, <5>2 DEF StopsOf
          <5>4. p \in S
            BY <1>3, <4>1, <5>2 DEF StopsOf
          <5>5. \A q \in S : k.stops[q].seq = stop[q].seq
            BY <4>1, <5>2 DEF StopsOf
          <5>6. \A q \in S : place[q] = stop[q].seq
            BY <4>1
          <5> QED BY <5>3, <5>4, <5>5, <5>6
        <4>3. IsFiniteSet(S) /\ S \subseteq Nat /\ place \in [S -> Nat]
          <5>1. \A q \in S : stop[q].seq \in Nat
            BY <1>3, <4>1, RowFields, StopFields DEF IInv, StopsOf
          <5> QED BY <4>1, <4>2, <5>1, StopsFinite, DeliveryAssumption
        <4>4. {place[q] : q \in S} = 1..Cardinality(S)
          BY <3>1, <3>3, <4>1, SMTT(30)
        <4>5. StopsOf(stop', t) = S \ {p} /\ kept = S \ {p}
          <5>1. kept = S \ {p}
            BY <1>0, <4>2
          <5>2. stop'[p].trip # t
            BY <1>3, <1>7, StopFields
          <5>3. \A q \in StopId \ {p} : stop'[q].trip = stop[q].trip
            BY <1>8
          <5>4. StopsOf(stop', t) = StopsOf(stop, t) \ {p}
            BY <5>2, <5>3 DEF StopsOf
          <5> QED BY <4>1, <5>1, <5>4
        <4>6. \A q \in S \ {p} : stop'[q].seq = new[q].seq
          <5> SUFFICES ASSUME NEW q \in S \ {p}
                       PROVE  stop'[q].seq = new[q].seq
            OBVIOUS
          <5>1. CASE q \in moved
            BY <1>7, <5>1
          <5>2. CASE q \notin moved
            <6>1. q \in kept /\ q \in StopId \ ({p} \cup moved)
              BY <4>2, <4>5, <5>2
            <6>2. new[q].seq = k.stops[q].seq
              BY <1>0, <5>2, <6>1, Zenon
            <6>3. stop'[q] = stop[q] /\ k.stops[q].seq = stop[q].seq
              BY <1>7, <4>2, <6>1
            <6> QED BY <6>2, <6>3
          <5> QED BY <5>1, <5>2
        <4>7. ASSUME NEW q \in S \ {p}
              PROVE  stop'[q].seq = RankIn(S \ {p}, place, q)
          <5>1. new[q].seq = Cardinality({r \in kept :
                                                  \/ k.stops[r].seq < k.stops[q].seq
                                                  \/ k.stops[r].seq = k.stops[q].seq /\ r <= q})
            BY <1>0, <1>2, <1>5, <4>2, <4>5, NewPlaces
          <5>2. \A r \in S \ {p} : k.stops[r].seq = place[r]
            BY <4>2
          <5>3. {r \in kept : \/ k.stops[r].seq < k.stops[q].seq
                              \/ k.stops[r].seq = k.stops[q].seq /\ r <= q} =
                {r \in S \ {p} : \/ place[r] < place[q]
                                 \/ place[r] = place[q] /\ r <= q}
            BY <4>5, <5>2
          <5> QED BY <4>6, <5>1, <5>3 DEF RankIn
        <4>8. {RankIn(S \ {p}, place, q) : q \in S \ {p}} = 1..Cardinality(S \ {p})
          <5>1. p \in S
            BY <4>2
          <5> QED BY <4>3, <4>4, <5>1, GapCloses, Zenon
        <4>9. {stop'[q].seq : q \in S \ {p}} = {RankIn(S \ {p}, place, q) : q \in S \ {p}}
          BY <4>7
        <4> QED BY <3>3, <4>5, <4>8, <4>9
      <3> QED BY <3>2, <3>3
    <2>6. VisitingOrder'
      BY <1>1, <2>5 DEF VisitingOrder
    <2> QED BY <2>1, <2>2, <2>4, <2>6 DEF Settled
  <1>12. ASSUME NEW n \in Tasks, InFlight(n), n.op \in Planning /\ n.trip = t => t \in raced'
         PROVE  InFlight(n)'
    <2>1. RowsOf(n)'
      BY <1>7, <1>8, <1>12, StopFields DEF InFlight, RowsOf
    <2>2. InTime(n)' /\ OneWay(n)'
      BY <1>1, <1>4, <1>12 DEF InFlight, InTime, OneWay, OnTheRoad
    <2>3. AsLoaded(n)'
      <3> SUFFICES ASSUME n.op \in Planning, n.trip \notin raced', NEW q \in StopId
                   PROVE  /\ stop'[q].trip = n.trip <=> n.stops[q].trip = n.trip
                          /\ stop'[q].trip = n.trip => stop'[q].seq = n.stops[q].seq
        BY DEF AsLoaded
      <3>1. n.trip # t /\ n.trip \in Trip
        BY <1>12 DEF InFlight, RowsOf
      <3>2. /\ stop[q].trip = n.trip <=> n.stops[q].trip = n.trip
            /\ stop[q].trip = n.trip => stop[q].seq = n.stops[q].seq
        BY <1>4, <1>12 DEF InFlight, AsLoaded
      <3>3. CASE q = p
        BY <1>3, <1>7, <3>1, <3>2, <3>3, StopFields
      <3>4. CASE q \in moved
        BY <1>6, <1>7, <3>1, <3>2, <3>4
      <3>5. CASE q \notin moved /\ q # p
        BY <1>7, <3>2, <3>5
      <3> QED BY <3>3, <3>4, <3>5
    <2>4. SeenPending(n)'
      <3> SUFFICES ASSUME n.op = "complete", n.trip \notin raced', NEW q \in StopId,
                          stop'[q].trip = n.trip, stop'[q].status = "pending"
                   PROVE  n.stops[q].trip = n.trip /\ n.stops[q].status = "pending"
        BY DEF SeenPending
      <3>1. q # p
        BY <1>7, <1>12, StopFields DEF InFlight, RowsOf, Driving
      <3> QED BY <1>4, <1>8, <1>12, <3>1 DEF InFlight, SeenPending
    <2>5. AloneWith(n)'
      <3>1. n.op = "add" => n.invoice \in Invoice
        BY <1>12 DEF InFlight, RowsOf
      <3> QED BY <1>1, <1>10, <1>12, <3>1 DEF InFlight, AloneWith
    <2> QED BY <2>1, <2>2, <2>3, <2>4, <2>5 DEF InFlight
  <1>13. InFlight(NoTask)'
    BY <1>12, NoTaskInFlight DEF Planning
  <1>14. \A r \in Session \ {s} : \A n \in Tasks : n = task[r] /\ InFlight(n) => InFlight(n)'
    BY <1>4, <1>12
  <1> QED BY <1>1, <1>9, <1>11, <1>13, <1>14, NoTaskInFlight, Ends

-----------------------------------------------------------------------------
(* A return takes stops off the trips being planned *)

LEMMA ReturnStep ==
    ASSUME IInv, NEW s \in Session, NEW b \in Batch, NEW n \in 1..MaxBack,
           PostSalesReturn(s, b, n)
    PROVE  IInv'
  <1>0. PICK k, i, gone, trips :
           /\ k = task[s] /\ i = k.invoice
           /\ gone = IF Owed(i) = n THEN Pending(i, "planned") ELSE {}
           /\ trips = {stop[p].trip : p \in gone}
    OBVIOUS
  <1>1. /\ k.op = "return" /\ Race(s, trips)
        /\ returned' = [returned EXCEPT ![i][b] = @ + n]
        /\ stop' = [p \in StopId |-> IF p \in gone THEN GoneStop ELSE stop[p]]
        /\ dropped' = dropped \cup trips
        /\ task' = [task EXCEPT ![s] = NoTask]
        /\ UNCHANGED <<trip, order, carried, doubled, edited>>
    BY <1>0 DEF PostSalesReturn, On, Done
  <1>2. k \in Tasks /\ InFlight(k)
    BY <1>0 DEF IInv, Tables
  <1>3. i \in Invoice
    BY <1>0, <1>1, <1>2 DEF InFlight, RowsOf, AtDesk
  <1>4. /\ gone \subseteq StopId
        /\ \A p \in gone : stop[p].trip \in Trip /\ trip[stop[p].trip] = "planned"
    <2>1. \A p \in gone : /\ p \in StopId /\ stop[p].invoice = i
                          /\ trip[stop[p].trip] = "planned"
      BY <1>0 DEF Pending
    <2> QED BY <1>3, <2>1, RowFields DEF IInv
  <1>5. trips \subseteq Trip /\ \A t \in trips : trip[t] = "planned"
    BY <1>0, <1>4
  <1>6. /\ raced \subseteq raced' /\ raced' \subseteq Trip
        /\ \A r \in Session \ {s}, t \in trips, m \in Tasks :
              m = task[r] /\ m.op \in Planning /\ m.trip = t => t \in raced'
    BY <1>1, <1>5, Races DEF IInv, Tables
  <1>7. /\ stop' \in [StopId -> StopRow]
        /\ \A p \in gone : stop'[p] = GoneStop
        /\ \A p \in StopId \ gone : stop'[p] = stop[p]
    <2>1. \A p \in StopId : stop[p] \in StopRow
      BY RowFields DEF IInv
    <2> QED BY <1>1, <1>4, <2>1 DEF StopRow
  <1>8. returned' \in [Invoice -> [Batch -> Nat]]
    <2>1. returned[i] \in [Batch -> Nat] /\ returned[i][b] \in Nat /\ n \in Nat
      BY <1>3, DeliveryAssumption DEF IInv, Tables
    <2>2. [returned[i] EXCEPT ![b] = @ + n] \in [Batch -> Nat]
      BY <2>1
    <2> QED BY <1>1, <2>2 DEF IInv, Tables
  <1>9. Tables'
    BY <1>1, <1>5, <1>6, <1>7, <1>8, NoTaskInFlight DEF IInv, Tables
  <1>10. \A p \in StopId, j \in Invoice : Rides(p, j)' => Rides(p, j)
    BY <1>1, <1>6, <1>7, StopFields DEF Rides, Open
  <1>11. Settled'
    <2>1. Created' /\ SentOrFetched' /\ CompletedIsDecided'
      BY <1>1, <1>6, <1>7, StopFields
         DEF IInv, Settled, Created, SentOrFetched, CompletedIsDecided
    <2>2. RidesOnce'
      BY <1>1, <1>10 DEF IInv, Settled, RidesOnce
    <2>3. \A u \in Trip \ trips : StopsOf(stop', u) = StopsOf(stop, u)
      <3>1. \A p \in gone : stop[p].trip \in trips
        BY <1>0
      <3> QED BY <1>4, <1>7, <3>1, StopFields DEF StopsOf
    <2>4. NoEmptyTrip'
      BY <1>1, <1>5, <1>6, <2>3 DEF IInv, Settled, NoEmptyTrip, OnTheRoad
    <2>5. ASSUME NEW u \in Trip, trip[u] = "planned", u \notin raced' \cup dropped'
          PROVE  {stop'[q].seq : q \in StopsOf(stop', u)} = 1..Cardinality(StopsOf(stop', u))
      <3>1. {stop[q].seq : q \in StopsOf(stop, u)} = 1..Cardinality(StopsOf(stop, u))
        BY <1>1, <1>6, <2>5 DEF IInv, Settled, VisitingOrder
      <3>2. StopsOf(stop', u) = StopsOf(stop, u)
        BY <1>1, <2>3, <2>5
      <3>3. \A q \in StopsOf(stop, u) : stop'[q] = stop[q]
        BY <1>7, <2>5, <3>2, StopFields DEF StopsOf
      <3>4. {stop'[q].seq : q \in StopsOf(stop', u)} = {stop[q].seq : q \in StopsOf(stop, u)}
        BY <3>2, <3>3
      <3> QED BY <3>1, <3>2, <3>4
    <2>6. VisitingOrder'
      BY <1>1, <2>5 DEF VisitingOrder
    <2> QED BY <2>1, <2>2, <2>4, <2>6 DEF Settled
  <1>12. ASSUME NEW m \in Tasks, InFlight(m), m.op \in Planning /\ m.trip \in trips => m.trip \in raced'
         PROVE  InFlight(m)'
    <2>1. RowsOf(m)'
      BY <1>7, <1>12, StopFields DEF InFlight, RowsOf
    <2>2. InTime(m)' /\ OneWay(m)'
      BY <1>1, <1>6, <1>12 DEF InFlight, InTime, OneWay, OnTheRoad
    <2>3. AsLoaded(m)'
      <3> SUFFICES ASSUME m.op \in Planning, m.trip \notin raced', NEW q \in StopId
                   PROVE  /\ stop'[q].trip = m.trip <=> m.stops[q].trip = m.trip
                          /\ stop'[q].trip = m.trip => stop'[q].seq = m.stops[q].seq
        BY DEF AsLoaded
      <3>1. m.trip \notin trips /\ m.trip \in Trip
        BY <1>12 DEF InFlight, RowsOf
      <3>2. /\ stop[q].trip = m.trip <=> m.stops[q].trip = m.trip
            /\ stop[q].trip = m.trip => stop[q].seq = m.stops[q].seq
        BY <1>6, <1>12 DEF InFlight, AsLoaded
      <3>3. CASE q \in gone
        BY <1>0, <1>7, <3>1, <3>2, <3>3, StopFields
      <3>4. CASE q \notin gone
        BY <1>7, <3>2, <3>4
      <3> QED BY <3>3, <3>4
    <2>4. SeenPending(m)'
      <3> SUFFICES ASSUME m.op = "complete", m.trip \notin raced', NEW q \in StopId,
                          stop'[q].trip = m.trip, stop'[q].status = "pending"
                   PROVE  m.stops[q].trip = m.trip /\ m.stops[q].status = "pending"
        BY DEF SeenPending
      <3>1. q \notin gone
        BY <1>7, <1>12, StopFields DEF InFlight, RowsOf, Driving
      <3> QED BY <1>6, <1>7, <1>12, <3>1 DEF InFlight, SeenPending
    <2>5. AloneWith(m)'
      <3>1. m.op = "add" => m.invoice \in Invoice
        BY <1>12 DEF InFlight, RowsOf
      <3> QED BY <1>1, <1>10, <1>12, <3>1 DEF InFlight, AloneWith
    <2> QED BY <2>1, <2>2, <2>3, <2>4, <2>5 DEF InFlight
  <1>13. InFlight(NoTask)'
    BY <1>12, NoTaskInFlight DEF Planning
  <1>14. \A r \in Session \ {s} : \A m \in Tasks : m = task[r] /\ InFlight(m) => InFlight(m)'
    BY <1>6, <1>12
  <1> QED BY <1>1, <1>9, <1>11, <1>13, <1>14, NoTaskInFlight, Ends

-----------------------------------------------------------------------------
(* Theorems *)

LEMMA InvStep == IInv /\ [DeliveryNext]_deliveryVars => IInv'
  <1> SUFFICES ASSUME IInv, [DeliveryNext]_deliveryVars
               PROVE  IInv'
    OBVIOUS
  <1>1. CASE UNCHANGED deliveryVars
    <2>1. UNCHANGED <<trip, stop, order, returned, task, carried, raced, doubled, dropped, edited>>
      BY <1>1 DEF deliveryVars, rows, histories
    <2>2. Tables' /\ SentOrFetched'
      BY <2>1 DEF IInv, Tables, Settled, SentOrFetched
    <2>3. \A k \in Tasks : InFlight(k) => OneWay(k)'
      BY <2>1 DEF InFlight, OneWay
    <2> QED BY <2>1, <2>2, <2>3, Orders, Stays
  <1>2. CASE DeliveryStep
    <2>1. ASSUME NEW t \in Trip, CreateTrip(t)
          PROVE  IInv'
      BY <2>1, CreateStep
    <2>2. ASSUME NEW s \in Session, NEW t \in Trip,
                 \/ \E i \in Invoice : GetTrip(s, t, "add", i, {"planned"})
                 \/ GetTrip(s, t, "remove", 0, {"planned"})
                 \/ GetTrip(s, t, "dispatch", 0, {"planned"})
                 \/ GetTrip(s, t, "decide", 0, {"in_transit"})
                 \/ GetTrip(s, t, "complete", 0, {"in_transit"})
          PROVE  IInv'
      <3>1. {"add", "remove", "dispatch"} = Planning /\ {"decide", "complete"} = Driving
        BY DEF Planning, Driving
      <3>2. Planning \cap Driving = {} /\ "add" \notin Driving
        BY DEF Planning, Driving
      <3>3. CASE \E i \in Invoice : GetTrip(s, t, "add", i, {"planned"})
        BY <3>1, <3>2, <3>3, LoadStep
      <3>4. CASE GetTrip(s, t, "remove", 0, {"planned"})
        BY <3>1, <3>2, <3>4, LoadStep
      <3>5. CASE GetTrip(s, t, "dispatch", 0, {"planned"})
        BY <3>1, <3>2, <3>5, LoadStep
      <3>6. CASE GetTrip(s, t, "decide", 0, {"in_transit"})
        BY <3>1, <3>2, <3>6, LoadStep
      <3>7. CASE GetTrip(s, t, "complete", 0, {"in_transit"})
        BY <3>1, <3>2, <3>7, LoadStep
      <3> QED BY <2>2, <3>3, <3>4, <3>5, <3>6, <3>7
    <2>3. ASSUME NEW s \in Session,
                 \/ CountActive(s) \/ AddInvoice(s) \/ DispatchTrip(s) \/ CompleteTrip(s)
          PROVE  IInv'
      BY <2>3, CountStep, AddStep, RoadStep
    <2>4. ASSUME NEW s \in Session, NEW p \in StopId,
                 \/ RemoveStop(s, p)
                 \/ \E status \in StopStatus \ {"pending"} : UpdateStopStatus(s, p, status)
          PROVE  IInv'
      BY <2>4, RemoveStep, DecideStep
    <2>5. ASSUME \/ \E i \in Invoice : ConfirmPayment(i)
                 \/ \E b \in Batch, n \in 1..MaxBack, i \in Invoice : CancelSalesReturn(i, b, n)
          PROVE  IInv'
      BY <2>5, CounterStep
    <2>6. ASSUME NEW s \in Session,
                 \/ AbortTask(s)
                 \/ \E i \in Invoice : \/ BeginSalesReturn(s, i) \/ BeginPickUp(s, i)
                                       \/ BeginRebuild(s, i) \/ BeginDelete(s, i)
          PROVE  IInv'
      BY <2>6, DeskStep
    <2>7. ASSUME NEW b \in Batch, NEW n \in 1..MaxBack, NEW s \in Session, PostSalesReturn(s, b, n)
          PROVE  IInv'
      BY <2>7, ReturnStep
    <2>8. ASSUME NEW s \in Session,
                 \/ MarkPickedUp(s) \/ DeleteRow(s)
                 \/ \E pickup \in BOOLEAN : RebuildInvoice(s, pickup)
          PROVE  IInv'
      BY <2>8, InvoiceStep
    <2> QED BY <1>2, <2>1, <2>2, <2>3, <2>4, <2>5, <2>6, <2>7, <2>8 DEF DeliveryStep
  <1> QED BY <1>1, <1>2 DEF DeliveryNext

LEMMA Invariance == DeliverySpec => []IInv
  BY InvInit, InvStep, PTL DEF DeliverySpec

LEMMA WholeNow == IInv => TripIsWhole
  <1> SUFFICES ASSUME IInv
               PROVE  TripIsWhole
    OBVIOUS
  <1>1. DeliveryTypeOK
    <2>1. stop \in [StopId -> DeliveryStop \cup {NoStop, GoneStop}]
      BY DEF IInv, Tables, StopRow
    <2>2. \A s \in Session : /\ task[s].stops \in [StopId -> DeliveryStop \cup {NoStop}]
                             /\ task[s].status \in TripStatus
      BY DEF IInv, Tables, Tasks
    <2> QED BY <2>1, <2>2 DEF IInv, Tables, Order, DeliveryTypeOK
  <1>2. OneOpenTrip
    <2> SUFFICES ASSUME NEW i \in Invoice \ doubled
                 PROVE  Cardinality({p \in Riding(i) : stop[p].trip \notin raced}) <= 1
      BY DEF OneOpenTrip
    <2>1. PICK alone : alone = {p \in Riding(i) : stop[p].trip \notin raced}
      OBVIOUS
    <2>2. \A p \in alone : p \in StopId /\ Rides(p, i)
      BY <2>1 DEF Riding, Rides
    <2>3. \A p, q \in alone : p = q
      BY <2>2 DEF IInv, Settled, RidesOnce
    <2>4. alone = {} \/ \E p : alone = {p}
      BY <2>3
    <2>5. Cardinality(alone) \in {0, 1}
      <3>1. CASE alone = {}
        BY <3>1, FS_EmptySet
      <3>2. CASE \E p : alone = {p}
        BY <3>2, FS_Singleton
      <3> QED BY <2>4, <3>1, <3>2
    <2>6. Cardinality({p \in Riding(i) : stop[p].trip \notin raced}) = Cardinality(alone)
      BY <2>1
    <2> QED BY <2>5, <2>6
  <1> QED BY <1>1, <1>2 DEF IInv, Settled, TripIsWhole

\* Whatever requests race over the trips, from the first one created on: a trip that
\* left has something to deliver unless another request on it was in flight, an
\* invoice is on one open trip unless two requests counted its trips together, the
\* visiting order of a trip being planned has no gap unless a return took a stop
\* off, and a completed trip has no undecided stop (delivery_service.py: add_invoice,
\* remove_stop, dispatch_trip, complete_trip).
THEOREM TripsStayWhole == DeliverySpec => []TripIsWhole
  BY Invariance, WholeNow, PTL

\* Goods fetched at the warehouse (mark_picked_up) are on nobody's trip, unless the
\* invoice was edited while it rode or beside a request that had loaded it.
THEOREM NeverFetchedAndDelivered == DeliverySpec => []FetchedOrDelivered
  <1>1. IInv => FetchedOrDelivered
    BY DEF IInv, Settled, SentOrFetched, FetchedOrDelivered
  <1> QED BY <1>1, Invariance, PTL

\* What one step leaves of a trip no other request was in flight on when it left.
Frozen == \A t \in Trip : OnTheRoad(t) /\ t \notin raced => StopsOf(stop', t) = StopsOf(stop, t)

Forward == \A t \in Trip \ raced : /\ trip[t] = "completed" => trip'[t] = "completed"
                                   /\ trip[t] = "in_transit" => trip'[t] # "planned"

LEMMA StillFrozen == IInv /\ [DeliveryNext]_deliveryVars => Frozen
  <1> SUFFICES ASSUME IInv, [DeliveryNext]_deliveryVars, NEW t \in Trip, OnTheRoad(t),
                      t \notin raced
               PROVE  StopsOf(stop', t) = StopsOf(stop, t)
    BY DEF Frozen
  <1>1. CASE UNCHANGED stop
    BY <1>1
  <1>2. ASSUME NEW s \in Session, AddInvoice(s)
        PROVE  StopsOf(stop', t) = StopsOf(stop, t)
    <2>1. PICK k, p, row : /\ k = task[s] /\ p = NextId(stop, StopId, NoStop)
                           /\ row = [trip |-> k.trip, invoice |-> k.invoice, status |-> "pending",
                                     seq |-> Cardinality(StopsOf(k.stops, k.trip)) + 1]
      OBVIOUS
    <2>2. k.op = "add" /\ p # 0 /\ stop' = [stop EXCEPT ![p] = row] /\ row.trip = k.trip
      BY <1>2, <2>1 DEF AddInvoice, On
    <2>3. k \in Tasks /\ InFlight(k)
      BY <2>1 DEF IInv, Tables
    <2>4. k.trip # t
      BY <2>2, <2>3 DEF InFlight, InTime, Planning, OnTheRoad
    <2>5. p \in StopId /\ stop[p] = NoStop /\ DOMAIN stop = StopId
      BY <2>1, <2>2, NextFree, DeliveryAssumption DEF IInv, Tables
    <2> QED BY <2>2, <2>4, <2>5, StopFields DEF StopsOf
  <1>3. ASSUME NEW s \in Session, NEW p \in StopId, RemoveStop(s, p)
        PROVE  StopsOf(stop', t) = StopsOf(stop, t)
    <2>1. PICK k, kept, new, moved :
             /\ k = task[s] /\ kept = StopsOf(k.stops, k.trip) \ {p}
             /\ new = Renumbered(k.stops, kept)
             /\ moved = {q \in kept : new[q].seq # k.stops[q].seq}
      OBVIOUS
    <2>2. /\ k.op = "remove" /\ k.stops[p].trip # 0
          /\ stop' = [q \in StopId |->
                        IF q = p THEN GoneStop
                        ELSE IF q \in moved THEN [stop[q] EXCEPT !.seq = new[q].seq]
                        ELSE stop[q]]
      BY <1>3, <2>1 DEF RemoveStop, On
    <2>3. k \in Tasks /\ InFlight(k)
      BY <2>1 DEF IInv, Tables
    <2>4. k.trip # t /\ k.trip \in Trip
      BY <2>2, <2>3, SMTT(30) DEF InFlight, InTime, RowsOf, Planning, OnTheRoad
    <2>5. \A q \in moved \cup {p} : q \in StopId /\ k.stops[q].trip # 0
      BY <2>1, <2>2, <2>4, StopFields DEF StopsOf
    <2>6. \A q \in moved \cup {p} : stop[q].trip # t
      BY <2>3, <2>4, <2>5, StopFields DEF InFlight, RowsOf
    <2>7. \A q \in moved \ {p} : stop'[q].trip # t
      <3>1. ASSUME NEW q \in moved \ {p}
            PROVE  stop'[q].trip # t
        <4>1. stop[q] \in StopRow /\ stop'[q] = [stop[q] EXCEPT !.seq = new[q].seq]
          BY <2>2, <2>5, RowFields DEF IInv
        <4>2. \A v \in StopRow : \A n : [v EXCEPT !.seq = n].trip = v.trip
          BY DEF StopRow, DeliveryStop, NoStop, GoneStop
        <4> QED BY <2>6, <4>1, <4>2
      <3> QED BY <3>1
    <2>8. stop'[p].trip # t
      BY <2>2, StopFields
    <2>9. \A q \in StopId \ (moved \cup {p}) : stop'[q] = stop[q]
      BY <2>2
    <2> QED BY <2>6, <2>7, <2>8, <2>9 DEF StopsOf
  <1>4. ASSUME NEW s \in Session, NEW p \in StopId, NEW status \in StopStatus \ {"pending"},
               UpdateStopStatus(s, p, status)
        PROVE  StopsOf(stop', t) = StopsOf(stop, t)
    <2>1. stop' = [stop EXCEPT ![p].status = status] /\ stop[p] \in DeliveryStop
      BY <1>4, RowFields DEF UpdateStopStatus, IInv
    <2>2. PICK row : row = [stop[p] EXCEPT !.status = status]
      OBVIOUS
    <2>3. row.trip = stop[p].trip
      BY <2>1, <2>2 DEF DeliveryStop
    <2> QED BY <2>1, <2>2, <2>3 DEF StopsOf, IInv, Tables
  <1>5. ASSUME NEW s \in Session, NEW b \in Batch, NEW n \in 1..MaxBack, PostSalesReturn(s, b, n)
        PROVE  StopsOf(stop', t) = StopsOf(stop, t)
    <2>1. PICK gone : /\ gone = IF Owed(task[s].invoice) = n
                                THEN Pending(task[s].invoice, "planned") ELSE {}
                      /\ stop' = [p \in StopId |-> IF p \in gone THEN GoneStop ELSE stop[p]]
      BY <1>5, SMTT(30) DEF PostSalesReturn
    <2>2. \A p \in gone : stop[p].trip # t
      BY <2>1 DEF Pending, OnTheRoad
    <2> QED BY <2>1, <2>2, StopFields DEF StopsOf
  <1> QED
    BY <1>1, <1>2, <1>3, <1>4, <1>5, ZenonT(40)
       DEF DeliveryNext, DeliveryStep, deliveryVars, rows, CreateTrip, GetTrip, CountActive,
           DispatchTrip, CompleteTrip, ConfirmPayment, BeginSalesReturn, BeginPickUp,
           BeginRebuild, BeginDelete, BeginOn, CancelSalesReturn, MarkPickedUp, DeleteRow,
           AbortTask, RebuildInvoice

LEMMA StillForward == IInv /\ [DeliveryNext]_deliveryVars => Forward
  <1> SUFFICES ASSUME IInv, [DeliveryNext]_deliveryVars, NEW t \in Trip, t \notin raced
               PROVE  /\ trip[t] = "completed" => trip'[t] = "completed"
                      /\ trip[t] = "in_transit" => trip'[t] # "planned"
    BY DEF Forward
  <1>1. CASE UNCHANGED trip
    BY <1>1
  <1>2. ASSUME NEW u \in Trip, CreateTrip(u)
        PROVE  trip'[t] = trip[t] \/ trip[t] = "none"
    <2>1. trip[u] = "none" /\ trip' = [trip EXCEPT ![u] = "planned"]
      BY <1>2, NextFree, StopFields, DeliveryAssumption DEF CreateTrip
    <2> QED BY <2>1
  <1>3. ASSUME NEW s \in Session, DispatchTrip(s)
        PROVE  trip'[t] = trip[t] \/ trip[t] = "planned"
    <2>1. PICK k : k = task[s]
      OBVIOUS
    <2>2. k.op = "dispatch" /\ trip' = [trip EXCEPT ![k.trip] = "in_transit"]
      BY <1>3, <2>1 DEF DispatchTrip, On
    <2>3. k \in Tasks /\ InFlight(k)
      BY <2>1 DEF IInv, Tables
    <2>4. k.trip = t => trip[t] = "planned"
      BY <2>2, <2>3 DEF InFlight, InTime, Planning
    <2> QED BY <2>2, <2>4 DEF IInv, Tables
  <1>4. ASSUME NEW s \in Session, CompleteTrip(s)
        PROVE  trip'[t] \in {trip[t], "completed"}
    BY <1>4 DEF CompleteTrip, IInv, Tables
  <1> QED
    BY <1>1, <1>2, <1>3, <1>4, ZenonT(40)
       DEF DeliveryNext, DeliveryStep, deliveryVars, rows, GetTrip, CountActive, AddInvoice,
           RemoveStop, UpdateStopStatus, ConfirmPayment, BeginSalesReturn, BeginPickUp,
           BeginRebuild, BeginDelete, BeginOn, PostSalesReturn, CancelSalesReturn,
           MarkPickedUp, DeleteRow, AbortTask, RebuildInvoice

\* A trip that left (dispatch_trip: "freezing its stop list") keeps its stops and its
\* place in the lifecycle, for good, unless a request that had loaded it before was
\* still in flight when it left.
THEOREM TripsRunTheirCourse == DeliverySpec => TripRunsItsCourse
  <1>1. DeliverySpec => [][Frozen]_deliveryVars
    BY Invariance, StillFrozen, PTL DEF DeliverySpec
  <1>2. DeliverySpec => [][Forward]_deliveryVars
    BY Invariance, StillForward, PTL DEF DeliverySpec
  <1>3. [][Frozen]_deliveryVars => FrozenOnceLeft
    BY PTL DEF Frozen, FrozenOnceLeft
  <1>4. [][Forward]_deliveryVars => StatusGoesForward
    BY PTL DEF Forward, StatusGoesForward
  <1> QED BY <1>1, <1>2, <1>3, <1>4 DEF TripRunsItsCourse

-----------------------------------------------------------------------------
(* What is left to pick *)

Line == [batch : Batch, n : Nat \ {0}]

\* What the fold over the lines of an invoice computes for a set of their places, given
\* what it computed for smaller ones; and a table that holds it for every set.
NetStep(lines, back, so, s) ==
    IF s = {} THEN [lines |-> <<>>, back |-> back]
    ELSE NetLine(so[s \ {Max(s)}], lines[Max(s)])

NetTable(lines, back, g) == g = [s \in SUBSET DOMAIN lines |-> NetStep(lines, back, g, s)]

NetUpTo(lines, back, n, g) ==
    \A s \in SUBSET DOMAIN lines : Cardinality(s) <= n => g[s] = NetStep(lines, back, g, s)

LEMMA NetIsChosen ==
    ASSUME NEW lines, NEW back
    PROVE  NetLinesToPick(lines, back)
             = (CHOOSE g : NetTable(lines, back, g))[DOMAIN lines].lines
  BY DEF NetLinesToPick, FoldLeft, MapThenFoldSet, NetTable, NetStep

\* The greatest of some of the numbers from 1 to n.
LEMMA GreatestPlace ==
    ASSUME NEW n \in Nat, NEW s \in SUBSET (1..n), s # {}
    PROVE  Max(s) \in s /\ \A i \in s : i <= Max(s)
  <1> DEFINE Above == {n - i : i \in s}
  <1>1. Above \in SUBSET Nat /\ Above # {}
    OBVIOUS
  <1>2. PICK d \in Above : \A e \in Above : ~(e < d)
    <2> HIDE DEF Above
    <2> QED BY <1>1, LeastNatural
  <1>3. \E m \in s : \A i \in s : m >= i
    <2>1. PICK m \in s : d = n - m
      BY <1>2
    <2>2. \A i \in s : n - i \in Above
      OBVIOUS
    <2>3. \A i \in s : ~(n - i < n - m)
      BY <1>2, <2>1, <2>2
    <2>4. \A i \in s : i \in Int
      OBVIOUS
    <2> QED BY <2>3, <2>4
  <1> DEFINE Top(m) == \A i \in s : m >= i
  <1>4. Max(s) = CHOOSE m \in s : Top(m)
    BY DEF Max
  <1>5. \E m \in s : Top(m)
    BY <1>3
  <1>6. Max(s) \in s /\ Top(Max(s))
    <2> HIDE DEF Top
    <2> QED BY <1>4, <1>5
  <1>7. \A i \in s : i \in Int
    OBVIOUS
  <1> QED BY <1>6, <1>7

LEMMA WithoutGreatest ==
    ASSUME NEW n \in Nat, NEW s \in SUBSET (1..n), s # {}
    PROVE  /\ s \ {Max(s)} \in SUBSET (1..n)
           /\ Cardinality(s) \in Nat /\ Cardinality(s \ {Max(s)}) \in Nat
           /\ Cardinality(s \ {Max(s)}) = Cardinality(s) - 1
  <1>1. IsFiniteSet(1..n)
    BY FS_Interval
  <1>2. IsFiniteSet(s) /\ Max(s) \in s
    BY <1>1, GreatestPlace, FS_Subset
  <1>3. Cardinality(s \ {Max(s)}) = Cardinality(s) - 1 /\ IsFiniteSet(s \ {Max(s)})
    BY <1>2, FS_RemoveElement
  <1> QED BY <1>2, <1>3, FS_CardinalityType

LEMMA NetNext ==
    ASSUME NEW lines \in Seq(Line), NEW back, NEW n \in Nat, NEW g, NetUpTo(lines, back, n, g)
    PROVE  NetUpTo(lines, back, n + 1, [s \in SUBSET DOMAIN lines |-> NetStep(lines, back, g, s)])
  <1> DEFINE h == [s \in SUBSET DOMAIN lines |-> NetStep(lines, back, g, s)]
  <1>1. Len(lines) \in Nat /\ DOMAIN lines = 1..Len(lines)
    BY LenProperties
  <1> SUFFICES ASSUME NEW s \in SUBSET DOMAIN lines, Cardinality(s) <= n + 1
               PROVE  h[s] = NetStep(lines, back, h, s)
    BY DEF NetUpTo
  <1>2. CASE s = {}
    BY <1>2 DEF NetStep
  <1>3. CASE s # {}
    <2>1. /\ s \ {Max(s)} \in SUBSET DOMAIN lines
          /\ Cardinality(s \ {Max(s)}) <= n
      <3>1. s \in SUBSET (1..Len(lines))
        BY <1>1
      <3>2. /\ s \ {Max(s)} \in SUBSET (1..Len(lines))
            /\ Cardinality(s) \in Nat
            /\ Cardinality(s \ {Max(s)}) = Cardinality(s) - 1
        BY <1>1, <1>3, <3>1, WithoutGreatest
      <3> QED BY <1>1, <3>2
    <2>2. g[s \ {Max(s)}] = h[s \ {Max(s)}]
      BY <2>1 DEF NetUpTo
    <2> QED BY <1>3, <2>2 DEF NetStep
  <1> QED BY <1>2, <1>3

\* The table exists: there is no least size it would be missing for.
LEMMA NetExists ==
    ASSUME NEW lines \in Seq(Line), NEW back
    PROVE  \E g : NetTable(lines, back, g)
  <1> DEFINE D == DOMAIN lines
             Bad == {n \in Nat : ~ \E g : NetUpTo(lines, back, n, g)}
  <1>0. Len(lines) \in Nat /\ D = 1..Len(lines) /\ IsFiniteSet(D)
    <2>1. Len(lines) \in Nat /\ D = 1..Len(lines)
      BY LenProperties
    <2> QED BY <2>1, FS_Interval
  <1>1. 0 \notin Bad
    <2> DEFINE z == [s \in SUBSET D |-> [lines |-> <<>>, back |-> back]]
    <2>1. NetUpTo(lines, back, 0, z)
      <3> SUFFICES ASSUME NEW s \in SUBSET D, Cardinality(s) <= 0
                   PROVE  z[s] = NetStep(lines, back, z, s)
        BY DEF NetUpTo
      <3>1. IsFiniteSet(s) /\ Cardinality(s) \in Nat
        BY <1>0, FS_Subset, FS_CardinalityType
      <3>2. s = {}
        BY <3>1, FS_EmptySet
      <3> QED BY <3>2 DEF NetStep
    <2> QED BY <2>1
  <1>2. ASSUME NEW n \in Nat, n \notin Bad
        PROVE  n + 1 \notin Bad
    <2>1. PICK g : NetUpTo(lines, back, n, g)
      BY <1>2
    <2> DEFINE h == [s \in SUBSET DOMAIN lines |-> NetStep(lines, back, g, s)]
    <2>2. NetUpTo(lines, back, n + 1, h)
      BY <2>1, NetNext
    <2> HIDE DEF h
    <2> QED BY <2>2
  <1>3. Bad = {}
    <2> SUFFICES ASSUME Bad # {}
                 PROVE  FALSE
      OBVIOUS
    <2>1. PICK n \in Bad : \A m \in Bad : ~(m < n)
      <3>1. Bad \in SUBSET Nat
        OBVIOUS
      <3> HIDE DEF Bad
      <3> QED BY <3>1, LeastNatural
    <2>2. n \in Nat /\ n # 0
      BY <1>1
    <2>3. n - 1 \in Nat /\ n - 1 \notin Bad /\ n - 1 + 1 = n
      <3> HIDE DEF Bad
      <3> QED BY <2>1, <2>2
    <2> HIDE DEF Bad
    <2> QED BY <1>2, <2>1, <2>3
  <1>4. Cardinality(D) \in Nat
    BY <1>0, FS_CardinalityType
  <1>5. PICK g : NetUpTo(lines, back, Cardinality(D), g)
    BY <1>3, <1>4
  <1> DEFINE h == [s \in SUBSET D |-> g[s]]
  <1>6. \A s \in SUBSET D : g[s] = NetStep(lines, back, g, s)
    BY <1>0, <1>5, FS_Subset DEF NetUpTo
  <1>7. \A s \in SUBSET D : s # {} => s \ {Max(s)} \in SUBSET D
    BY <1>0, WithoutGreatest
  <1>8. \A s \in SUBSET D : NetStep(lines, back, g, s) = NetStep(lines, back, h, s)
    BY <1>7 DEF NetStep
  <1>9. h = [s \in SUBSET D |-> NetStep(lines, back, h, s)]
    BY <1>6, <1>8
  <1> HIDE DEF h
  <1> QED BY <1>9 DEF NetTable

\* The fold, place by place.
LEMMA NetPlaces ==
    ASSUME NEW lines \in Seq(Line), NEW back
    PROVE  \E f : /\ f[0] = [lines |-> <<>>, back |-> back]
                  /\ \A k \in 1..Len(lines) : f[k] = NetLine(f[k - 1], lines[k])
                  /\ NetLinesToPick(lines, back) = f[Len(lines)].lines
  <1> DEFINE L == Len(lines)
             g == CHOOSE g : NetTable(lines, back, g)
             f == [k \in 0..L |-> g[1..k]]
  <1>1. L \in Nat /\ DOMAIN lines = 1..L
    BY LenProperties
  <1>2. NetTable(lines, back, g)
    BY NetExists
  <1>3. NetLinesToPick(lines, back) = g[1..L].lines
    BY <1>1, NetIsChosen
  <1> HIDE DEF g
  <1>4. \A s \in SUBSET (1..L) : g[s] = NetStep(lines, back, g, s)
    BY <1>1, <1>2, Zenon DEF NetTable
  <1>5. f[0] = [lines |-> <<>>, back |-> back]
    <2>1. 1..0 = {} /\ 0 \in 0..L
      BY <1>1
    <2> QED BY <1>4, <2>1 DEF NetStep
  <1>6. ASSUME NEW k \in 1..L
        PROVE  f[k] = NetLine(f[k - 1], lines[k])
    <2>1. /\ k \in 0..L /\ k - 1 \in 0..L /\ 1..k \in SUBSET (1..L) /\ 1..k # {}
          /\ (1..k) \ {k} = 1..(k - 1) /\ k \in 1..k
      <3>1. k \in Nat /\ 1 <= k /\ k <= L
        BY <1>1
      <3> HIDE DEF L
      <3>2. (1..k) \ {k} = 1..(k - 1)
        BY <1>1, <3>1
      <3>3. k \in 1..k /\ 1..k \in SUBSET (1..L) /\ k \in 0..L /\ k - 1 \in 0..L
        BY <1>1, <3>1
      <3> QED BY <3>2, <3>3
    <2>2. Max(1..k) = k
      <3>1. Max(1..k) \in 1..k /\ \A i \in 1..k : i <= Max(1..k)
        BY <1>1, <2>1, GreatestPlace
      <3> HIDE DEF L
      <3> QED BY <2>1, <3>1
    <2>3. g[1..k] = NetLine(g[1..(k - 1)], lines[k])
      BY <1>4, <2>1, <2>2, Zenon DEF NetStep
    <2> QED BY <2>1, <2>3
  <1>7. f[L] = g[1..L]
    BY <1>1
  <1> HIDE DEF f
  <1> QED BY <1>3, <1>5, <1>6, <1>7

\* A line of an invoice, and a function of its places to their units.
Units(lines) == [k \in DOMAIN lines |-> lines[k].n]

\* What came back of a batch fits one of the lines it was sold on.
FitsLines(lines, back) ==
    \A b \in Batch : back[b] = 0 \/ \E k \in DOMAIN lines : lines[k].batch = b /\ back[b] <= lines[k].n

\* What the fold has computed after k lines: what was taken off them is gone from what
\* came back, and what fits a line is gone once the line was seen.
Netted(lines, back, acc, k) ==
    /\ acc.lines \in Seq([batch : Batch, n : Nat]) /\ Len(acc.lines) = k
    /\ acc.back \in [Batch -> Nat]
    /\ SumFunctionOnSet(Units(acc.lines), 1..k) - SumFunctionOnSet(acc.back, Batch)
         = SumFunctionOnSet(Units(lines), 1..k) - SumFunctionOnSet(back, Batch)
    /\ \A b \in Batch : acc.back[b] <= back[b]
    /\ \A j \in 1..k : back[lines[j].batch] <= lines[j].n => acc.back[lines[j].batch] = 0

LEMMA SeqFields ==
    ASSUME NEW lines \in Seq([batch : Batch, n : Nat])
    PROVE  /\ Len(lines) \in Nat /\ DOMAIN lines = 1..Len(lines)
           /\ \A k \in 1..Len(lines) : lines[k] \in [batch : Batch, n : Nat]
           /\ \A k \in 1..Len(lines) : lines[k].batch \in Batch /\ lines[k].n \in Nat
           /\ \A k \in 1..Len(lines) : Units(lines)[k] = lines[k].n
           /\ \A k \in 1..Len(lines) : Units(lines)[k] \in Int
           /\ \A m \in 0..Len(lines) : Whole(Units(lines), 1..m)
  <1>1. Len(lines) \in Nat /\ DOMAIN lines = 1..Len(lines)
    BY LenProperties
  <1>2. \A k \in 1..Len(lines) : lines[k] \in [batch : Batch, n : Nat]
    BY ElementOfSeq
  <1>3. \A k \in 1..Len(lines) : lines[k].batch \in Batch /\ lines[k].n \in Nat
    BY <1>2
  <1>4. \A k \in 1..Len(lines) : Units(lines)[k] = lines[k].n
    BY <1>1 DEF Units
  <1>5. \A k \in 1..Len(lines) : Units(lines)[k] \in Int
    BY <1>3, <1>4
  <1>6. \A m \in 0..Len(lines) : Whole(Units(lines), 1..m)
    <2>1. \A m \in 0..Len(lines), j \in Int : j \in 1..m => j \in 1..Len(lines)
      BY <1>1
    <2> QED BY <1>5, <2>1 DEF Whole
  <1> QED BY <1>1, <1>2, <1>3, <1>4, <1>5, <1>6

LEMMA LinesAreSeq == Seq(Line) \subseteq Seq([batch : Batch, n : Nat])
  <1>1. Line \subseteq [batch : Batch, n : Nat]
    BY DEF Line
  <1> QED BY <1>1, SeqMonotonic

LEMMA NettedStep ==
    ASSUME NEW lines \in Seq(Line), NEW back \in [Batch -> Nat], NEW k \in 1..Len(lines),
           NEW acc, Netted(lines, back, acc, k - 1)
    PROVE  Netted(lines, back, NetLine(acc, lines[k]), k)
  <1> DEFINE line == lines[k]
             b    == line.batch
             take == AtMost(line.n, acc.back[b])
             net  == [line EXCEPT !.n = @ - take]
             al   == Append(acc.lines, net)
             ab   == [acc.back EXCEPT ![b] = @ - take]
  <1>0. IsFiniteSet(Batch)
    BY DeliveryAssumption
  <1>1. Len(lines) \in Nat /\ k \in Nat /\ k - 1 \in Nat /\ k <= Len(lines)
    BY LenProperties
  <1>2. lines \in Seq([batch : Batch, n : Nat])
    BY LinesAreSeq
  <1>3. line \in [batch : Batch, n : Nat] /\ b \in Batch /\ line.n \in Nat
        /\ Units(lines)[k] = line.n
    BY <1>2, SeqFields
  <1>4. /\ acc.lines \in Seq([batch : Batch, n : Nat]) /\ Len(acc.lines) = k - 1
        /\ acc.back \in [Batch -> Nat]
        /\ \A c \in Batch : acc.back[c] <= back[c]
    BY DEF Netted
  <1>5. take \in Nat /\ take <= line.n /\ take <= acc.back[b] /\ acc.back[b] \in Nat
        /\ (acc.back[b] <= line.n => take = acc.back[b])
    BY <1>3, <1>4 DEF AtMost
  <1> HIDE DEF take
  <1>6. net \in [batch : Batch, n : Nat] /\ net.n = line.n - take
    BY <1>3, <1>5
  <1>7. NetLine(acc, line) = [lines |-> al, back |-> ab]
    BY DEF NetLine, take
  <1>8. ab \in [Batch -> Nat] /\ ab[b] = acc.back[b] - take
        /\ \A c \in Batch : c # b => ab[c] = acc.back[c]
    BY <1>3, <1>4, <1>5
  <1> HIDE DEF net
  <1>9. /\ al \in Seq([batch : Batch, n : Nat]) /\ Len(al) = k
        /\ \A j \in 1..(k - 1) : al[j] = acc.lines[j]
        /\ al[k] = net
    BY <1>1, <1>4, <1>6, AppendProperties
  <1> HIDE DEF al, ab, line, b
  <1>10. SumFunctionOnSet(ab, Batch) = SumFunctionOnSet(acc.back, Batch) - take
    <2>1. Whole(acc.back, Batch) /\ Whole(ab, Batch) /\ SameTerms(acc.back, ab, Batch \ {b})
      BY <1>4, <1>8 DEF Whole, SameTerms
    <2>2. SumFunctionOnSet(ab, Batch) = SumFunctionOnSet(acc.back, Batch) + (ab[b] - acc.back[b])
      <3>1. PICK f : f = acc.back
        OBVIOUS
      <3>2. SumFunctionOnSet(ab, Batch) = SumFunctionOnSet(f, Batch) + (ab[b] - f[b])
        <4>1. Whole(f, Batch) /\ SameTerms(f, ab, Batch \ {b}) /\ b \in Batch
          BY <1>3, <2>1, <3>1
        <4> QED BY <1>0, <2>1, <4>1, SumChange
      <3> QED BY <3>1, <3>2
    <2>3. SumFunctionOnSet(acc.back, Batch) \in Int
      BY <1>0, <2>1, SumInt
    <2> QED BY <1>5, <1>8, <2>2, <2>3
  <1>11. (1..(k - 1)) \cup {k} = 1..k /\ k \notin 1..(k - 1) /\ IsFiniteSet(1..(k - 1))
    <2>1. k >= 1
      BY <1>1
    <2>2. (1..(k - 1)) \cup {k} = 1..k
      BY <1>1, <2>1
    <2>3. k \notin 1..(k - 1)
      BY <1>1
    <2>4. IsFiniteSet(1..(k - 1))
      BY <1>1, FS_Interval
    <2> QED BY <2>2, <2>3, <2>4
  <1>12. /\ SumFunctionOnSet(Units(lines), 1..k)
              = SumFunctionOnSet(Units(lines), 1..(k - 1)) + line.n
         /\ SumFunctionOnSet(Units(lines), 1..(k - 1)) \in Int
    <2>1. k \in 0..Len(lines) /\ k - 1 \in 0..Len(lines)
      BY <1>1
    <2>2. Whole(Units(lines), 1..k) /\ Whole(Units(lines), 1..(k - 1))
      BY <1>2, <2>1, SeqFields
    <2>3. Whole(Units(lines), (1..(k - 1)) \cup {k}) /\ Whole(Units(lines), 1..(k - 1))
      BY <1>11, <2>2
    <2>4. SumFunctionOnSet(Units(lines), (1..(k - 1)) \cup {k})
            = SumFunctionOnSet(Units(lines), 1..(k - 1)) + Units(lines)[k]
      BY <1>11, <2>3, SumOneMore
    <2>5. SumFunctionOnSet(Units(lines), 1..(k - 1)) \in Int
      BY <1>11, <2>3, SumInt
    <2> QED BY <1>3, <1>11, <2>4, <2>5
  <1>13. /\ SumFunctionOnSet(Units(al), 1..k)
              = SumFunctionOnSet(Units(acc.lines), 1..(k - 1)) + (line.n - take)
         /\ SumFunctionOnSet(Units(acc.lines), 1..(k - 1)) \in Int
    <2>1. k \in 0..k /\ k - 1 \in 0..k
      BY <1>1
    <2>2. Whole(Units(al), (1..(k - 1)) \cup {k}) /\ Whole(Units(al), 1..(k - 1))
      <3>1. Whole(Units(al), 1..k) /\ Whole(Units(al), 1..(k - 1))
        BY <1>9, <2>1, SeqFields
      <3> QED BY <1>11, <3>1
    <2>3. Units(al)[k] = line.n - take
      <3>1. k \in 1..k
        BY <1>1
      <3> QED BY <1>6, <1>9, <3>1, SeqFields
    <2>4. SameTerms(Units(al), Units(acc.lines), 1..(k - 1))
      <3>1. \A j \in 1..(k - 1) : Units(al)[j] = al[j].n
        BY <1>9, <1>11, SeqFields
      <3>2. \A j \in 1..(k - 1) : Units(acc.lines)[j] = acc.lines[j].n
        BY <1>4, SeqFields
      <3> QED BY <1>9, <3>1, <3>2 DEF SameTerms
    <2>5. SumFunctionOnSet(Units(al), 1..(k - 1)) = SumFunctionOnSet(Units(acc.lines), 1..(k - 1))
      BY <1>11, <2>4, SumSame
    <2>6. SumFunctionOnSet(Units(al), (1..(k - 1)) \cup {k})
            = SumFunctionOnSet(Units(al), 1..(k - 1)) + Units(al)[k]
      BY <1>11, <2>2, SumOneMore
    <2>7. SumFunctionOnSet(Units(al), 1..(k - 1)) \in Int
      BY <1>11, <2>2, SumInt
    <2> QED BY <1>11, <2>3, <2>5, <2>6, <2>7
  <1>14. SumFunctionOnSet(acc.back, Batch) \in Int /\ SumFunctionOnSet(back, Batch) \in Int
    BY <1>4, SumInt, DeliveryAssumption DEF Whole
  <1>15. SumFunctionOnSet(Units(al), 1..k) - SumFunctionOnSet(ab, Batch)
           = SumFunctionOnSet(Units(lines), 1..k) - SumFunctionOnSet(back, Batch)
    <2>1. SumFunctionOnSet(Units(acc.lines), 1..(k - 1)) - SumFunctionOnSet(acc.back, Batch)
            = SumFunctionOnSet(Units(lines), 1..(k - 1)) - SumFunctionOnSet(back, Batch)
      BY DEF Netted
    <2>2. PICK p \in Int, q \in Int, r \in Int, u \in Int :
             /\ p = SumFunctionOnSet(Units(acc.lines), 1..(k - 1))
             /\ q = SumFunctionOnSet(acc.back, Batch)
             /\ r = SumFunctionOnSet(Units(lines), 1..(k - 1))
             /\ u = SumFunctionOnSet(back, Batch)
      BY <1>12, <1>13, <1>14
    <2>3. p - q = r - u
      BY <2>1, <2>2
    <2>4. PICK x \in Int, y \in Int : x = line.n /\ y = take
      BY <1>3, <1>5
    <2>5. p + (x - y) - (q - y) = (r + x) - u
      <3>1. p \in Int /\ q \in Int /\ r \in Int /\ u \in Int /\ x \in Int /\ y \in Int
        OBVIOUS
      <3>2. p + (x - y) - (q - y) = (p - q) + x
        BY <3>1, SMT
      <3>3. p - q \in Int /\ r - u \in Int
        BY <3>1, SMT
      <3>4. (p - q) + x = (r - u) + x
        BY <2>3
      <3>5. (r - u) + x = (r + x) - u
        BY <3>1, SMT
      <3> QED BY <3>2, <3>4, <3>5
    <2> QED BY <1>10, <1>12, <1>13, <2>2, <2>4, <2>5
  <1>16. ASSUME NEW c \in Batch
         PROVE  ab[c] <= back[c]
    <2>1. ab[c] \in Nat /\ acc.back[c] \in Nat /\ back[c] \in Nat /\ acc.back[c] <= back[c]
      BY <1>4, <1>8
    <2>2. ab[c] <= acc.back[c]
      BY <1>5, <1>8, <2>1
    <2> QED BY <2>1, <2>2
  <1>17. ASSUME NEW j \in 1..k, back[lines[j].batch] <= lines[j].n
         PROVE  ab[lines[j].batch] = 0
    <2>0. lines[j].batch \in Batch
      <3>1. j \in 1..Len(lines)
        BY <1>1
      <3> QED BY <1>2, <3>1, SeqFields
    <2>1. CASE j = k
      BY <1>3, <1>4, <1>5, <1>8, <1>17, <2>1 DEF line, b
    <2>2. CASE j # k
      <3>1. acc.back[lines[j].batch] = 0
        BY <1>1, <1>17, <2>2 DEF Netted
      <3> QED BY <1>5, <1>8, <2>0, <3>1
    <2> QED BY <2>1, <2>2
  <1> DEFINE new == [lines |-> al, back |-> ab]
  <1>18. new.lines = al /\ new.back = ab
    OBVIOUS
  <1> HIDE DEF new
  <1>19. Netted(lines, back, new, k)
    BY <1>8, <1>9, <1>15, <1>16, <1>17, <1>18 DEF Netted
  <1> QED BY <1>7, <1>19 DEF new, line

\* What is loaded of an invoice is what was sold less what came back: the fold leaves
\* nothing of what came back, and takes no more than there is.
LEMMA NetIsOwed ==
    ASSUME NEW lines \in Seq(Line), NEW back \in [Batch -> Nat], FitsLines(lines, back)
    PROVE  /\ UnitsOf(NetLinesToPick(lines, back))
                = UnitsOf(lines) - SumFunctionOnSet(back, Batch)
           /\ UnitsOf(NetLinesToPick(lines, back)) \in Nat
  <1> DEFINE L == Len(lines)
  <1>1. L \in Nat /\ DOMAIN lines = 1..L
    BY LenProperties
  <1>2. PICK f : /\ f[0] = [lines |-> <<>>, back |-> back]
                 /\ \A k \in 1..L : f[k] = NetLine(f[k - 1], lines[k])
                 /\ NetLinesToPick(lines, back) = f[L].lines
    BY NetPlaces
  <1> DEFINE Bad == {k \in 0..L : ~Netted(lines, back, f[k], k)}
  <1>3. 0 \notin Bad
    <2>1. f[0].lines = <<>> /\ f[0].back = back
      BY <1>2
    <2>2. 1..0 = {} /\ <<>> \in Seq([batch : Batch, n : Nat]) /\ Len(<<>>) = 0
      BY EmptySeq
    <2>3. /\ SumFunctionOnSet(Units(<<>>), {}) = 0 /\ SumFunctionOnSet(Units(lines), {}) = 0
      BY SumStep, FS_EmptySet
    <2>4. \A b \in Batch : back[b] <= back[b]
      OBVIOUS
    <2>5. Netted(lines, back, f[0], 0)
      BY <2>1, <2>2, <2>3, <2>4 DEF Netted
    <2> QED BY <2>5
  <1>4. ASSUME NEW k \in 1..L, k - 1 \notin Bad
        PROVE  k \notin Bad
    <2>1. k - 1 \in 0..L
      BY <1>1
    <2>2. Netted(lines, back, f[k - 1], k - 1)
      BY <1>4, <2>1
    <2>3. Netted(lines, back, NetLine(f[k - 1], lines[k]), k)
      BY <2>2, NettedStep
    <2>4. f[k] = NetLine(f[k - 1], lines[k])
      BY <1>2
    <2> QED BY <2>3, <2>4
  <1>5. Bad = {}
    <2> SUFFICES ASSUME Bad # {}
                 PROVE  FALSE
      OBVIOUS
    <2>1. PICK n \in Bad : \A m \in Bad : ~(m < n)
      <3>1. Bad \in SUBSET Nat
        BY <1>1
      <3> HIDE DEF Bad
      <3> QED BY <3>1, LeastNatural
    <2>2. n \in 1..L /\ n - 1 \in Nat
      BY <1>1, <1>3
    <2>3. n - 1 \notin Bad
      <3> HIDE DEF Bad
      <3> QED BY <2>1, <2>2
    <2> HIDE DEF Bad
    <2> QED BY <1>4, <2>1, <2>2, <2>3
  <1>6. Netted(lines, back, f[L], L)
    BY <1>1, <1>5
  <1> DEFINE acc == f[L]
  <1> HIDE DEF acc, Bad
  <1>7. /\ acc.lines \in Seq([batch : Batch, n : Nat]) /\ Len(acc.lines) = L
        /\ acc.back \in [Batch -> Nat]
        /\ SumFunctionOnSet(Units(acc.lines), 1..L) - SumFunctionOnSet(acc.back, Batch)
             = SumFunctionOnSet(Units(lines), 1..L) - SumFunctionOnSet(back, Batch)
        /\ \A b \in Batch : acc.back[b] <= back[b]
        /\ \A j \in 1..L : back[lines[j].batch] <= lines[j].n => acc.back[lines[j].batch] = 0
    BY <1>6 DEF acc, Netted
  <1>8. ASSUME NEW b \in Batch
        PROVE  acc.back[b] = 0
    <2>1. acc.back[b] \in Nat /\ acc.back[b] <= back[b]
      BY <1>7
    <2>2. CASE back[b] = 0
      BY <2>1, <2>2
    <2>3. CASE \E k \in DOMAIN lines : lines[k].batch = b /\ back[b] <= lines[k].n
      BY <1>1, <1>7, <2>3
    <2> QED BY <2>2, <2>3 DEF FitsLines
  <1>9. SumFunctionOnSet(acc.back, Batch) = 0
    BY <1>8, SumZero, DeliveryAssumption DEF SameTerms
  <1>10. /\ UnitsOf(lines) = SumFunctionOnSet(Units(lines), 1..L)
         /\ UnitsOf(acc.lines) = SumFunctionOnSet(Units(acc.lines), 1..L)
    <2>1. DOMAIN acc.lines = 1..L
      BY <1>7, LenProperties
    <2> QED BY <1>1, <2>1 DEF UnitsOf, Units
  <1>11. \A j \in 1..L : Units(acc.lines)[j] \in Nat
    BY <1>7, SeqFields
  <1>12. UnitsOf(acc.lines) \in Nat
    <2>1. SumFunctionOnSet([j \in 1..L |-> 0], 1..L) = 0
      BY <1>1, SumZero, FS_Interval DEF SameTerms
    <2>2. /\ Whole(Units(acc.lines), 1..L) /\ Whole([j \in 1..L |-> 0], 1..L)
          /\ Below([j \in 1..L |-> 0], Units(acc.lines), 1..L)
      BY <1>11 DEF Whole, Below
    <2>3. SumFunctionOnSet(Units(acc.lines), 1..L) \in Int
      BY <1>1, <2>2, SumInt, FS_Interval
    <2>4. SumFunctionOnSet([j \in 1..L |-> 0], 1..L) <= SumFunctionOnSet(Units(acc.lines), 1..L)
      BY <1>1, <2>2, SumGrows, FS_Interval
    <2> QED BY <1>10, <2>1, <2>3, <2>4
  <1>13. UnitsOf(acc.lines) = UnitsOf(lines) - SumFunctionOnSet(back, Batch)
    <2>1. SumFunctionOnSet(Units(lines), 1..L) \in Int /\ SumFunctionOnSet(back, Batch) \in Int
      <3>1. lines \in Seq([batch : Batch, n : Nat])
        BY LinesAreSeq
      <3>2. Whole(Units(lines), 1..L) /\ IsFiniteSet(1..L)
        <4>1. L \in 0..L
          BY <1>1
        <4>2. Whole(Units(lines), 1..L)
          BY <3>1, <4>1, SeqFields
        <4> QED BY <1>1, <4>2, FS_Interval
      <3>3. Whole(back, Batch) /\ IsFiniteSet(Batch)
        BY DeliveryAssumption DEF Whole
      <3> HIDE DEF L
      <3> QED BY <3>2, <3>3, SumInt
    <2> HIDE DEF L
    <2> QED BY <1>7, <1>9, <1>10, <1>12, <2>1
  <1> QED BY <1>2, <1>12, <1>13 DEF acc

-----------------------------------------------------------------------------
(* What a driver carries *)

\* A stop whose load the customer is still to get, on a trip nothing raced with.
OnRoad(p) ==
    /\ stop[p].trip # 0 /\ stop[p].status = "pending"
    /\ trip[stop[p].trip] = "in_transit" /\ stop[p].trip \notin raced

Returning(k, i) == k.op = "return" /\ k.invoice = i

\* Whatever a request returns, no driver has.
Clear == \A s \in Session, p \in StopId : OnRoad(p) => ~Returning(task[s], stop[p].invoice)

Fits == \A i \in Invoice : FitsLines(Sold[i], returned[i])

Loads == Fits /\ Clear /\ NothingCreditedOnTheRoad

LEMMA UnitsWhole ==
    ASSUME NEW i \in Invoice, NEW back \in [Batch -> Nat]
    PROVE  /\ Sold[i] \in Seq(Line)
           /\ UnitsOf(Sold[i]) \in Int /\ SumFunctionOnSet(back, Batch) \in Int
  <1>1. Sold[i] \in Seq(Line)
    BY DeliveryAssumption DEF Line
  <1>2. PICK lines : lines = Sold[i]
    OBVIOUS
  <1>3. /\ Len(lines) \in Nat /\ DOMAIN lines = 1..Len(lines)
        /\ Whole(Units(lines), 1..Len(lines))
    <2>1. lines \in Seq([batch : Batch, n : Nat])
      BY <1>1, <1>2, LinesAreSeq
    <2>2. Len(lines) \in Nat /\ DOMAIN lines = 1..Len(lines)
      BY <2>1, LenProperties
    <2>3. Len(lines) \in 0..Len(lines)
      BY <2>2
    <2> QED BY <2>1, <2>2, <2>3, SeqFields
  <1>4. UnitsOf(lines) \in Int
    <2>1. IsFiniteSet(1..Len(lines))
      BY <1>3, FS_Interval
    <2>2. SumFunctionOnSet(Units(lines), 1..Len(lines)) \in Int
      BY <1>3, <2>1, SumInt
    <2> QED BY <1>3, <2>2 DEF UnitsOf, Units
  <1>5. SumFunctionOnSet(back, Batch) \in Int
    BY SumInt, DeliveryAssumption DEF Whole
  <1> QED BY <1>1, <1>2, <1>4, <1>5

LEMMA OwedWhole ==
    ASSUME NEW i \in Invoice
    PROVE  /\ Tables => Owed(i) \in Int
           /\ Tables' => Owed(i)' \in Int
  <1>1. Tables => returned[i] \in [Batch -> Nat]
    BY DEF Tables
  <1>2. Tables' => returned'[i] \in [Batch -> Nat]
    BY DEF Tables
  <1> QED BY <1>1, <1>2, UnitsWhole DEF Owed, Back

\* A step that puts nothing on the road, and credits only what no driver has.
LEMMA LoadsStay ==
    ASSUME Tables, Tables', Loads, Fits',
           \A p \in StopId : OnRoad(p)' => /\ OnRoad(p) /\ stop'[p].invoice = stop[p].invoice
                                           /\ carried'[p] = carried[p]
                                           /\ Owed(stop[p].invoice)' >= Owed(stop[p].invoice),
           \A s \in Session, p \in StopId :
               OnRoad(p) /\ Returning(task'[s], stop[p].invoice) =>
                   Returning(task[s], stop[p].invoice)
    PROVE  Loads'
  <1>1. Clear'
    BY DEF Loads, Clear, Returning
  <1>2. NothingCreditedOnTheRoad'
    <2> SUFFICES ASSUME NEW p \in StopId, OnRoad(p)'
                 PROVE  carried'[p] \in 0..Owed(stop[p].invoice)'
      BY DEF NothingCreditedOnTheRoad, OnRoad
    <2>1. /\ OnRoad(p) /\ stop'[p].invoice = stop[p].invoice /\ carried'[p] = carried[p]
          /\ Owed(stop[p].invoice)' >= Owed(stop[p].invoice)
      OBVIOUS
    <2>2. carried[p] \in 0..Owed(stop[p].invoice)
      BY <2>1 DEF Loads, NothingCreditedOnTheRoad, OnRoad
    <2>3. stop[p].invoice \in Invoice
      BY <2>1, StopFields, RowFields DEF OnRoad
    <2>4. PICK i \in Invoice : i = stop[p].invoice
      BY <2>3
    <2>5. Owed(i) \in Int /\ Owed(i)' \in Int
      BY OwedWhole
    <2>6. stop'[p].invoice = i
      BY <2>1, <2>4
    <2>7. carried[p] \in 0..Owed(i) /\ Owed(i)' >= Owed(i)
      BY <2>1, <2>2, <2>4, <2>6 DEF Owed, Back
    <2>8. carried'[p] \in 0..Owed(i)'
      BY <2>1, <2>5, <2>7
    <2> QED BY <2>6, <2>8 DEF Owed, Back
  <1> QED BY <1>1, <1>2 DEF Loads

LEMMA OwedSame ==
    ASSUME NEW i \in Invoice, Tables, UNCHANGED returned
    PROVE  Owed(i)' >= Owed(i)
  <1>1. Owed(i)' = Owed(i)
    BY DEF Owed, Back
  <1> QED BY <1>1, OwedWhole

LEMMA LoadsQuiet ==
    ASSUME IInv, IInv', Loads, UNCHANGED <<trip, stop, returned, carried, raced>>,
           \A r \in Session : \A i : Returning(task'[r], i) =>
               Returning(task[r], i) \/ NotOnTheRoad(i)
    PROVE  Loads'
  <1>1. Tables /\ Tables'
    BY DEF IInv
  <1>2. Fits'
    BY DEF Loads, Fits
  <1>3. ASSUME NEW p \in StopId, OnRoad(p)'
        PROVE  /\ OnRoad(p) /\ stop'[p].invoice = stop[p].invoice /\ carried'[p] = carried[p]
               /\ Owed(stop[p].invoice)' >= Owed(stop[p].invoice)
    <2>1. OnRoad(p)
      BY <1>3 DEF OnRoad
    <2>2. stop[p].invoice \in Invoice
      BY <1>1, <2>1, StopFields, RowFields DEF OnRoad
    <2>3. PICK i \in Invoice : i = stop[p].invoice
      BY <2>2
    <2>4. Owed(i)' >= Owed(i)
      BY <1>1, OwedSame
    <2> QED BY <2>1, <2>3, <2>4 DEF Owed, Back
  <1>4. ASSUME NEW r \in Session, NEW p \in StopId, OnRoad(p), Returning(task'[r], stop[p].invoice)
        PROVE  Returning(task[r], stop[p].invoice)
    <2>1. p \in Pending(stop[p].invoice, "in_transit")
      BY <1>4 DEF OnRoad, Pending
    <2> QED BY <1>4, <2>1 DEF NotOnTheRoad
  <1> QED BY <1>1, <1>2, <1>3, <1>4, LoadsStay

\* A request that begins, looks on or ends returns nothing of what a driver has.
LEMMA OneReturning ==
    ASSUME Tables, NEW s \in Session, NEW n, task' = [task EXCEPT ![s] = n],
           \A i : Returning(n, i) => NotOnTheRoad(i)
    PROVE  \A r \in Session : \A i : Returning(task'[r], i) => Returning(task[r], i) \/ NotOnTheRoad(i)
  <1>1. /\ task'[s] = n /\ \A r \in Session \ {s} : task'[r] = task[r]
    BY DEF Tables
  <1> QED BY <1>1

LEMMA NothingReturned == \A i : ~Returning(NoTask, i)
  BY DEF NoTask, Returning

LEMMA QuietLoads ==
    ASSUME IInv, IInv', Loads, NEW s \in Session,
           \/ MarkPickedUp(s) \/ DeleteRow(s) \/ AbortTask(s) \/ CountActive(s)
           \/ \E pickup \in BOOLEAN : RebuildInvoice(s, pickup)
           \/ \E t \in Trip, op \in Planning \cup Driving : \E i, statuses :
                 GetTrip(s, t, op, i, statuses)
           \/ \E i \in Invoice : \/ BeginSalesReturn(s, i) \/ BeginPickUp(s, i)
                                 \/ BeginRebuild(s, i) \/ BeginDelete(s, i)
    PROVE  Loads'
  <1>0. Tables
    BY DEF IInv
  <1>1. UNCHANGED <<trip, stop, returned, carried, raced>>
    BY DEF MarkPickedUp, DeleteRow, AbortTask, CountActive, RebuildInvoice, GetTrip, BeginSalesReturn,
           BeginPickUp, BeginRebuild, BeginDelete, BeginOn, rows, histories
  <1>2. CASE \/ MarkPickedUp(s) \/ DeleteRow(s) \/ AbortTask(s)
             \/ \E pickup \in BOOLEAN : RebuildInvoice(s, pickup)
    <2>1. task' = [task EXCEPT ![s] = NoTask]
      BY <1>2 DEF MarkPickedUp, DeleteRow, AbortTask, RebuildInvoice, Done
    <2> QED BY <1>0, <1>1, <2>1, NothingReturned, OneReturning, LoadsQuiet
  <1>3. CASE CountActive(s)
    <2>1. PICK k, n : k = task[s] /\ n = [k EXCEPT !.counted = TRUE]
      OBVIOUS
    <2>2. task' = [task EXCEPT ![s] = n] /\ k.op = "add"
      BY <1>3, <2>1 DEF CountActive, On
    <2>3. n.op = "add"
      <3>1. k \in Tasks
        BY <1>0, <2>1 DEF Tables
      <3> QED BY <2>1, <2>2, <3>1 DEF Tasks
    <2>4. \A i : ~Returning(n, i)
      BY <2>3 DEF Returning
    <2> QED BY <1>0, <1>1, <2>2, <2>4, OneReturning, LoadsQuiet
  <1>4. ASSUME NEW t \in Trip, NEW op \in Planning \cup Driving, NEW i, NEW statuses,
               GetTrip(s, t, op, i, statuses)
        PROVE  Loads'
    <2>1. PICK loaded : loaded = [p \in StopId |-> IF stop[p].trip = t THEN stop[p] ELSE NoStop]
      OBVIOUS
    <2>2. PICK n : n = [NoTask EXCEPT !.op = op, !.trip = t, !.invoice = i, !.status = trip[t],
                                      !.stops = loaded]
      OBVIOUS
    <2>3. task' = [task EXCEPT ![s] = n]
      BY <1>4, <2>1, <2>2 DEF GetTrip
    <2>4. n.op = op
      BY <2>2 DEF NoTask
    <2>5. \A j : ~Returning(n, j)
      BY <2>4 DEF Returning, Planning, Driving
    <2> QED BY <1>0, <1>1, <2>3, <2>5, OneReturning, LoadsQuiet
  <1>5. ASSUME NEW i \in Invoice, NEW op \in AtDesk, BeginOn(s, i, op),
               op = "return" => NotOnTheRoad(i)
        PROVE  Loads'
    <2>1. task' = [task EXCEPT ![s] = DeskTask(op, i)]
      BY <1>5, DeskTasks DEF BeginOn
    <2>2. \A j : Returning(DeskTask(op, i), j) => NotOnTheRoad(j)
      BY <1>5 DEF Returning, DeskTask
    <2> QED BY <1>0, <1>1, <2>1, <2>2, OneReturning, LoadsQuiet
  <1>6. CASE \E i \in Invoice : \/ BeginSalesReturn(s, i) \/ BeginPickUp(s, i)
                                \/ BeginRebuild(s, i) \/ BeginDelete(s, i)
    BY <1>5, <1>6 DEF BeginSalesReturn, BeginPickUp, BeginRebuild, BeginDelete, AtDesk
  <1> QED BY <1>2, <1>3, <1>4, <1>6

\* On the road with the same load, for the same invoice, of which nothing came back.
LEMMA LoadsKept ==
    ASSUME IInv, IInv', Loads, Fits',
           \A p \in StopId : OnRoad(p)' => /\ OnRoad(p) /\ stop'[p].invoice = stop[p].invoice
                                           /\ carried'[p] = carried[p],
           \A p \in StopId : OnRoad(p) => returned'[stop[p].invoice] = returned[stop[p].invoice],
           NEW s \in Session, task' = [task EXCEPT ![s] = NoTask]
    PROVE  Loads'
  <1>0. Tables /\ Tables'
    BY DEF IInv
  <1>1. ASSUME NEW p \in StopId, OnRoad(p)
        PROVE  Owed(stop[p].invoice)' >= Owed(stop[p].invoice) \/ stop'[p].invoice # stop[p].invoice
    <2>1. PICK i \in Invoice : i = stop[p].invoice
      BY <1>0, <1>1, StopFields, RowFields DEF OnRoad
    <2>2. Owed(i)' = Owed(i)
      BY <1>1, <2>1 DEF Owed, Back
    <2>3. Owed(i)' >= Owed(i)
      BY <1>0, <2>2, OwedWhole
    <2> QED BY <2>1, <2>3 DEF Owed, Back
  <1>2. ASSUME NEW p \in StopId, OnRoad(p)'
        PROVE  /\ OnRoad(p) /\ stop'[p].invoice = stop[p].invoice /\ carried'[p] = carried[p]
               /\ Owed(stop[p].invoice)' >= Owed(stop[p].invoice)
    BY <1>1, <1>2
  <1>3. \A r \in Session : \A i : Returning(task'[r], i) => Returning(task[r], i)
    <2>1. task'[s] = NoTask /\ \A r \in Session \ {s} : task'[r] = task[r]
      BY <1>0 DEF Tables
    <2> QED BY <2>1, NothingReturned
  <1> QED BY <1>0, <1>2, <1>3, LoadsStay

\* The requests that move a stop leave what is on the road where it is, or decide it.
LEMMA StopLoads ==
    ASSUME IInv, IInv', Loads, NEW s \in Session,
           \/ AddInvoice(s) \/ CompleteTrip(s)
           \/ \E p \in StopId : \/ RemoveStop(s, p)
                              \/ \E status \in StopStatus \ {"pending"} : UpdateStopStatus(s, p, status)
    PROVE  Loads'
  <1>0. PICK k : k = task[s]
    OBVIOUS
  <1>1. /\ Tables /\ k \in Tasks /\ InFlight(k)
        /\ \A q \in StopId : stop[q] \in StopRow
    BY <1>0 DEF IInv, Tables
  <1>2. /\ UNCHANGED <<returned, carried>> /\ task' = [task EXCEPT ![s] = NoTask]
        /\ raced \subseteq raced'
    BY DEF AddInvoice, CompleteTrip, RemoveStop, UpdateStopStatus, Done, Race, histories
  <1>3. Fits'
    BY <1>2 DEF Loads, Fits
  <1>4. ASSUME \A q \in StopId : OnRoad(q)' => OnRoad(q) /\ stop'[q].invoice = stop[q].invoice
        PROVE  Loads'
    <2>1. \A p \in StopId : OnRoad(p) => returned'[stop[p].invoice] = returned[stop[p].invoice]
      BY <1>2
    <2> QED BY <1>2, <1>3, <1>4, <2>1, LoadsKept
  <1>5. CASE AddInvoice(s)
    <2>1. PICK p, n : /\ p = NextId(stop, StopId, NoStop)
                      /\ n = Cardinality(StopsOf(k.stops, k.trip)) + 1
      OBVIOUS
    <2>2. /\ k.op = "add" /\ p # 0 /\ UNCHANGED trip
          /\ stop' = [stop EXCEPT ![p] = [trip |-> k.trip, invoice |-> k.invoice,
                                         status |-> "pending", seq |-> n]]
      BY <1>0, <1>5, <2>1 DEF AddInvoice, On
    <2>3. p \in StopId /\ stop \in [StopId -> StopRow]
      BY <1>1, <2>1, <2>2, NextFree, DeliveryAssumption DEF Tables
    <2>4. stop'[p].trip = k.trip /\ \A q \in StopId \ {p} : stop'[q] = stop[q]
      BY <2>2, <2>3
    <2>5. k.trip \in Trip /\ (trip[k.trip] = "planned" \/ k.trip \in raced)
      BY <1>1, <2>2 DEF InFlight, InTime, RowsOf, Planning
    <2>6. ~OnRoad(p)'
      BY <1>2, <2>2, <2>4, <2>5 DEF OnRoad
    <2>7. \A q \in StopId \ {p} : OnRoad(q)' => OnRoad(q)
      BY <1>2, <2>2, <2>4 DEF OnRoad
    <2> QED BY <1>4, <2>4, <2>6, <2>7
  <1>6. CASE CompleteTrip(s)
    <2>1. trip' = [trip EXCEPT ![k.trip] = "completed"] /\ UNCHANGED stop
      BY <1>0, <1>6 DEF CompleteTrip
    <2>2. \A t \in Trip : trip'[t] = "in_transit" => trip[t] = "in_transit"
      BY <1>1, <2>1 DEF Tables
    <2>3. \A q \in StopId : stop[q].trip # 0 => stop[q].trip \in Trip
      BY <1>1, StopFields
    <2>4. \A q \in StopId : OnRoad(q)' => OnRoad(q)
      BY <1>2, <2>1, <2>2, <2>3 DEF OnRoad
    <2> QED BY <1>4, <2>1, <2>4
  <1>7. ASSUME NEW p \in StopId, RemoveStop(s, p)
        PROVE  Loads'
    <2>1. PICK kept, new, moved :
             /\ kept = StopsOf(k.stops, k.trip) \ {p}
             /\ new = Renumbered(k.stops, kept)
             /\ moved = {q \in kept : new[q].seq # k.stops[q].seq}
      OBVIOUS
    <2>2. /\ stop' = [q \in StopId |->
                       IF q = p THEN GoneStop
                       ELSE IF q \in moved THEN [stop[q] EXCEPT !.seq = new[q].seq]
                       ELSE stop[q]]
          /\ UNCHANGED trip
      BY <1>0, <1>7, <2>1 DEF RemoveStop
    <2>3. ASSUME NEW q \in StopId
          PROVE  OnRoad(q)' => OnRoad(q) /\ stop'[q].invoice = stop[q].invoice
      <3>1. PICK row, n : row = stop[q] /\ n = new[q].seq
        OBVIOUS
      <3>2. PICK later : later = [row EXCEPT !.seq = n]
        OBVIOUS
      <3>3. later.trip = row.trip /\ later.invoice = row.invoice /\ later.status = row.status
        <4>1. row \in StopRow
          BY <1>1, <3>1
        <4> QED BY <3>2, <4>1 DEF StopRow, DeliveryStop, NoStop, GoneStop
      <3>4. stop'[q] = GoneStop \/ stop'[q] = later \/ stop'[q] = row
        BY <2>2, <3>1, <3>2
      <3>5. \/ stop'[q].trip = 0
            \/ /\ stop'[q].trip = row.trip /\ stop'[q].invoice = row.invoice
               /\ stop'[q].status = row.status
        BY <3>3, <3>4, StopFields
      <3> QED BY <1>2, <2>2, <3>1, <3>5 DEF OnRoad
    <2> QED BY <1>4, <2>3
  <1>8. ASSUME NEW p \in StopId, NEW status \in StopStatus \ {"pending"}, UpdateStopStatus(s, p, status)
        PROVE  Loads'
    <2>1. stop' = [stop EXCEPT ![p].status = status] /\ UNCHANGED trip
      BY <1>8 DEF UpdateStopStatus
    <2>2. stop'[p].status = status /\ \A q \in StopId \ {p} : stop'[q] = stop[q]
      <3>1. PICK row, later : row = stop[p] /\ later = [row EXCEPT !.status = status]
        OBVIOUS
      <3>2. later.status = status
        <4>1. row \in StopRow
          BY <1>1, <3>1
        <4> QED BY <3>1, <4>1 DEF StopRow, DeliveryStop, NoStop, GoneStop
      <3>3. stop'[p] = later /\ \A q \in StopId \ {p} : stop'[q] = stop[q]
        BY <1>1, <2>1, <3>1 DEF Tables
      <3> QED BY <3>2, <3>3
    <2>3. ~OnRoad(p)'
      BY <2>2 DEF OnRoad
    <2>4. \A q \in StopId \ {p} : OnRoad(q)' => OnRoad(q)
      BY <1>2, <2>1, <2>2 DEF OnRoad
    <2> QED BY <1>4, <2>2, <2>3, <2>4
  <1> QED BY <1>5, <1>6, <1>7, <1>8

LEMMA AwayLoads ==
    ASSUME IInv, IInv', Loads,
           \/ \E t \in Trip : CreateTrip(t)
           \/ \E i \in Invoice : ConfirmPayment(i)
           \/ UNCHANGED deliveryVars
    PROVE  Loads'
  <1>1. CASE (\E i \in Invoice : ConfirmPayment(i)) \/ UNCHANGED deliveryVars
    <2>1. UNCHANGED <<trip, stop, returned, carried, raced, task>>
      BY <1>1 DEF ConfirmPayment, deliveryVars, rows, histories
    <2> QED BY <2>1, LoadsQuiet
  <1>2. ASSUME NEW t \in Trip, CreateTrip(t)
        PROVE  Loads'
    <2>1. /\ trip' = [trip EXCEPT ![t] = "planned"]
          /\ UNCHANGED <<stop, returned, task, carried, raced>>
      BY <1>2 DEF CreateTrip, histories
    <2>2. Tables /\ Tables'
      BY DEF IInv
    <2>3. \A u \in Trip : trip'[u] = "in_transit" => trip[u] = "in_transit"
      BY <2>1, <2>2 DEF Tables
    <2>4. \A q \in StopId : stop[q].trip # 0 => stop[q].trip \in Trip
      BY <2>2, StopFields, RowFields
    <2>5. \A q \in StopId : OnRoad(q)' => OnRoad(q)
      BY <2>1, <2>3, <2>4 DEF OnRoad
    <2>6. Fits'
      BY <2>1 DEF Loads, Fits
    <2>7. ASSUME NEW p \in StopId, OnRoad(p)
          PROVE  Owed(stop[p].invoice)' >= Owed(stop[p].invoice)
      <3>1. PICK i \in Invoice : i = stop[p].invoice
        BY <2>2, <2>7, StopFields, RowFields DEF OnRoad
      <3>2. Owed(i)' >= Owed(i)
        BY <2>1, <2>2, OwedSame
      <3> QED BY <2>1, <3>1, <3>2 DEF Owed, Back
    <2> QED BY <2>1, <2>2, <2>5, <2>6, <2>7, LoadsStay DEF Returning
  <1> QED BY <1>1, <1>2

\* The picking list of a trip that leaves is what is owed, and no other request is
\* returning any of it.
LEMMA DispatchLoads ==
    ASSUME IInv, IInv', Loads, NEW s \in Session, DispatchTrip(s)
    PROVE  Loads'
  <1>0. PICK k, t : k = task[s] /\ t = k.trip
    OBVIOUS
  <1>1. /\ k.op = "dispatch" /\ Race(s, {t})
        /\ trip' = [trip EXCEPT ![t] = "in_transit"] /\ task' = [task EXCEPT ![s] = NoTask]
        /\ carried' = [p \in StopId |-> IF stop[p].trip = t THEN ToLoad(stop[p].invoice)
                                        ELSE carried[p]]
        /\ UNCHANGED <<stop, returned>>
    BY <1>0 DEF DispatchTrip, On, Done
  <1>2. Tables /\ Tables' /\ Fits'
    BY <1>1 DEF IInv, Loads, Fits
  <1>3. t \in Trip
    <2>1. k \in Tasks /\ InFlight(k)
      BY <1>0 DEF IInv, Tables
    <2> QED BY <1>0, <1>1, <2>1 DEF InFlight, RowsOf, Planning
  <1>4. /\ raced \subseteq raced'
        /\ t \notin raced' => \A r \in Session \ {s} : ~(task[r].op = "return" /\ RidesOn(task[r].invoice, t))
    BY <1>1, <1>3 DEF Race, OthersOn
  <1>5. \A u \in Trip \ {t} : trip'[u] = trip[u]
    BY <1>1, <1>2 DEF Tables
  <1>6. ASSUME NEW i \in Invoice
        PROVE  Owed(i)' = Owed(i) /\ Owed(i) \in Int /\ ToLoad(i) = Owed(i) /\ ToLoad(i) \in Nat
    <2>1. Owed(i)' = Owed(i) /\ Owed(i) \in Int
      BY <1>1, <1>2, OwedWhole DEF Owed, Back
    <2>2. Sold[i] \in Seq(Line) /\ returned[i] \in [Batch -> Nat] /\ FitsLines(Sold[i], returned[i])
      <3>1. Sold[i] \in Seq(Line)
        BY DeliveryAssumption DEF Line
      <3> QED BY <1>2, <3>1 DEF Tables, Loads, Fits
    <2> QED BY <2>1, <2>2, NetIsOwed DEF ToLoad, Owed, Back
  <1>7. ASSUME NEW p \in StopId, OnRoad(p)'
        PROVE  /\ \A r \in Session : ~Returning(task'[r], stop[p].invoice)
               /\ carried'[p] \in 0..Owed(stop[p].invoice)'
    <2>1. PICK i \in Invoice : i = stop[p].invoice
      BY <1>1, <1>2, <1>7, StopFields, RowFields DEF OnRoad
    <2>2. Owed(stop[p].invoice)' = Owed(i)
      BY <1>1, <1>6, <2>1 DEF Owed, Back
    <2>3. /\ task'[s] = NoTask /\ \A r \in Session \ {s} : task'[r] = task[r]
      BY <1>1, <1>2 DEF Tables
    <2>4. CASE stop[p].trip = t
      <3>1. carried'[p] = ToLoad(i)
        BY <1>1, <2>1, <2>4
      <3>2. carried'[p] \in 0..Owed(i)
        BY <1>6, <3>1
      <3>3. RidesOn(stop[p].invoice, t)
        BY <2>4 DEF RidesOn, StopsOf
      <3>4. t \notin raced'
        BY <1>1, <1>7, <2>4 DEF OnRoad
      <3>5. \A r \in Session : ~Returning(task'[r], stop[p].invoice)
        BY <1>4, <2>3, <3>3, <3>4, NothingReturned DEF Returning
      <3> QED BY <2>2, <3>2, <3>5
    <2>5. CASE stop[p].trip # t
      <3>1. OnRoad(p)
        <4>1. stop[p].trip \in Trip
          BY <1>2, <2>1, RowFields
        <4> QED BY <1>1, <1>4, <1>5, <1>7, <2>5, <4>1 DEF OnRoad
      <3>2. carried'[p] = carried[p] /\ carried[p] \in 0..Owed(stop[p].invoice)
        BY <1>1, <2>5, <3>1 DEF Loads, NothingCreditedOnTheRoad, OnRoad
      <3>3. \A r \in Session : ~Returning(task'[r], stop[p].invoice)
        BY <2>3, <3>1, NothingReturned DEF Loads, Clear
      <3> QED BY <2>1, <2>2, <3>2, <3>3
    <2> QED BY <2>4, <2>5
  <1>8. Clear'
    BY <1>1, <1>7 DEF Clear, Returning
  <1>9. NothingCreditedOnTheRoad'
    BY <1>1, <1>7 DEF NothingCreditedOnTheRoad, OnRoad
  <1> QED BY <1>2, <1>8, <1>9 DEF Loads

\* What comes back comes back of something no driver has; what is taken again is owed again.
LEMMA ReturnLoads ==
    ASSUME IInv, IInv', Loads, NEW s \in Session, NEW b \in Batch, NEW n \in 1..MaxBack,
           PostSalesReturn(s, b, n)
    PROVE  Loads'
  <1>0. PICK i, gone, trips :
           /\ i = task[s].invoice
           /\ gone = IF Owed(i) = n THEN Pending(i, "planned") ELSE {}
           /\ trips = {stop[p].trip : p \in gone}
    OBVIOUS
  <1>1. /\ task[s].op = "return" /\ Race(s, trips)
        /\ \E k \in DOMAIN Sold[i] : Sold[i][k].batch = b /\ returned[i][b] + n <= Sold[i][k].n
        /\ returned' = [returned EXCEPT ![i][b] = @ + n]
        /\ stop' = [p \in StopId |-> IF p \in gone THEN GoneStop ELSE stop[p]]
        /\ task' = [task EXCEPT ![s] = NoTask]
        /\ UNCHANGED <<trip, carried>>
    BY <1>0 DEF PostSalesReturn, On, Done
  <1>2. Tables
    BY DEF IInv
  <1>3. i \in Invoice
    <2>1. task[s] \in Tasks /\ InFlight(task[s])
      BY DEF IInv, Tables
    <2> QED BY <1>0, <1>1, <2>1 DEF InFlight, RowsOf, AtDesk
  <1>4. /\ \A j \in Invoice \ {i} : returned'[j] = returned[j]
        /\ returned'[i][b] = returned[i][b] + n
        /\ \A c \in Batch \ {b} : returned'[i][c] = returned[i][c]
    BY <1>1, <1>2, <1>3 DEF Tables
  <1>5. Fits'
    <2>1. FitsLines(Sold[i], returned'[i])
      BY <1>1, <1>3, <1>4 DEF Loads, Fits, FitsLines
    <2> QED BY <1>4, <2>1 DEF Loads, Fits
  <1>6. raced \subseteq raced'
    BY <1>1 DEF Race
  <1>7. \A p \in StopId : OnRoad(p)' => OnRoad(p) /\ stop'[p].invoice = stop[p].invoice
                                        /\ carried'[p] = carried[p]
    BY <1>1, <1>6, StopFields DEF OnRoad
  <1>8. ASSUME NEW p \in StopId, OnRoad(p)
        PROVE  returned'[stop[p].invoice] = returned[stop[p].invoice]
    <2>1. stop[p].invoice \in Invoice
      BY <1>2, <1>8, StopFields, RowFields DEF OnRoad
    <2>2. stop[p].invoice # i
      BY <1>0, <1>1, <1>8 DEF Loads, Clear, Returning
    <2> QED BY <1>4, <2>1, <2>2
  <1> QED BY <1>1, <1>5, <1>7, <1>8, LoadsKept

LEMMA CancelLoads ==
    ASSUME IInv, IInv', Loads, NEW i \in Invoice, NEW b \in Batch, NEW n \in 1..MaxBack,
           CancelSalesReturn(i, b, n)
    PROVE  Loads'
  <1>1. /\ n <= returned[i][b] /\ returned' = [returned EXCEPT ![i][b] = @ - n]
        /\ UNCHANGED <<trip, stop, task, carried, raced>>
    BY DEF CancelSalesReturn, HasNote, histories
  <1>2. Tables /\ Tables' /\ n \in Nat
    BY DeliveryAssumption DEF IInv
  <1>3. PICK before, after : before = returned[i] /\ after = returned'[i]
    OBVIOUS
  <1>4. before \in [Batch -> Nat] /\ after \in [Batch -> Nat]
    BY <1>2, <1>3 DEF Tables
  <1>5. /\ \A j \in Invoice \ {i} : returned'[j] = returned[j]
        /\ after[b] = before[b] - n
        /\ \A c \in Batch \ {b} : after[c] = before[c]
    BY <1>1, <1>2, <1>3 DEF Tables
  <1>6. \A c \in Batch : after[c] <= before[c]
    BY <1>2, <1>4, <1>5
  <1>7. Fits'
    <2>1. FitsLines(Sold[i], after)
      <3> SUFFICES ASSUME NEW c \in Batch, after[c] # 0
                   PROVE  \E k \in DOMAIN Sold[i] : Sold[i][k].batch = c /\ after[c] <= Sold[i][k].n
        BY DEF FitsLines
      <3>1. after[c] \in Nat /\ before[c] \in Nat /\ after[c] <= before[c] /\ before[c] # 0
        BY <1>4, <1>6
      <3>2. PICK k \in DOMAIN Sold[i] : Sold[i][k].batch = c /\ before[c] <= Sold[i][k].n
        BY <1>3, <3>1 DEF Loads, Fits, FitsLines
      <3>3. Sold[i][k].n \in Nat
        <4>1. PICK lines \in Seq([batch : Batch, n : Nat]) : lines = Sold[i]
          BY DeliveryAssumption, LinesAreSeq DEF Line
        <4>2. k \in 1..Len(lines)
          BY <3>2, <4>1, LenProperties
        <4> QED BY <4>1, <4>2, SeqFields
      <3>4. after[c] <= Sold[i][k].n
        BY <3>1, <3>2, <3>3
      <3> QED BY <3>2, <3>4
    <2> QED BY <1>3, <1>5, <2>1 DEF Loads, Fits
  <1>8. Owed(i)' >= Owed(i)
    <2>1. Whole(before, Batch) /\ Whole(after, Batch) /\ Below(after, before, Batch)
      BY <1>4, <1>6 DEF Whole, Below
    <2>2. /\ SumFunctionOnSet(after, Batch) \in Int /\ SumFunctionOnSet(before, Batch) \in Int
          /\ SumFunctionOnSet(after, Batch) <= SumFunctionOnSet(before, Batch)
      BY <2>1, SumInt, SumGrows, DeliveryAssumption
    <2>3. UnitsOf(Sold[i]) \in Int
      BY <1>4, UnitsWhole
    <2>4. UnitsOf(Sold[i]) - SumFunctionOnSet(after, Batch)
            >= UnitsOf(Sold[i]) - SumFunctionOnSet(before, Batch)
      BY <2>2, <2>3
    <2> QED BY <1>3, <2>4 DEF Owed, Back
  <1>9. ASSUME NEW p \in StopId, OnRoad(p)
        PROVE  Owed(stop[p].invoice)' >= Owed(stop[p].invoice)
    <2>1. PICK j \in Invoice : j = stop[p].invoice
      BY <1>2, <1>9, StopFields, RowFields DEF OnRoad
    <2>2. Owed(j)' >= Owed(j)
      <3>1. CASE j = i
        BY <1>8, <3>1 DEF Owed, Back
      <3>2. CASE j # i
        <4>1. Owed(j)' = Owed(j)
          BY <1>5, <3>2 DEF Owed, Back
        <4> QED BY <1>2, <4>1, OwedWhole
      <3> QED BY <3>1, <3>2
    <2> QED BY <1>1, <2>1, <2>2 DEF Owed, Back
  <1>10. \A p \in StopId : OnRoad(p)' => OnRoad(p)
    BY <1>1 DEF OnRoad
  <1> QED BY <1>1, <1>2, <1>7, <1>9, <1>10, LoadsStay DEF Returning

LEMMA LoadsInit == DeliveryInit => Loads
  <1> SUFFICES ASSUME DeliveryInit
               PROVE  Loads
    OBVIOUS
  <1>1. Fits
    BY DEF DeliveryInit, Fits, FitsLines
  <1>2. \A p \in StopId : ~OnRoad(p)
    BY StopFields DEF DeliveryInit, OnRoad
  <1> QED BY <1>1, <1>2 DEF Loads, Clear, NothingCreditedOnTheRoad, OnRoad

LEMMA LoadsStep == IInv /\ IInv' /\ Loads /\ [DeliveryNext]_deliveryVars => Loads'
  <1> SUFFICES ASSUME IInv, IInv', Loads, [DeliveryNext]_deliveryVars
               PROVE  Loads'
    OBVIOUS
  <1>1. CASE UNCHANGED deliveryVars
    BY <1>1, AwayLoads
  <1>2. CASE DeliveryStep
    <2>1. ASSUME NEW t \in Trip, CreateTrip(t)
          PROVE  Loads'
      BY <2>1, AwayLoads
    <2>2. ASSUME NEW s \in Session, NEW t \in Trip,
                 \/ \E i \in Invoice : GetTrip(s, t, "add", i, {"planned"})
                 \/ GetTrip(s, t, "remove", 0, {"planned"})
                 \/ GetTrip(s, t, "dispatch", 0, {"planned"})
                 \/ GetTrip(s, t, "decide", 0, {"in_transit"})
                 \/ GetTrip(s, t, "complete", 0, {"in_transit"})
          PROVE  Loads'
      <3>1. {"add", "remove", "dispatch", "decide", "complete"} = Planning \cup Driving
        BY DEF Planning, Driving
      <3>2. \E op \in Planning \cup Driving : \E i, statuses : GetTrip(s, t, op, i, statuses)
        BY <2>2, <3>1
      <3> QED BY <3>2, QuietLoads
    <2>3. ASSUME NEW s \in Session, CountActive(s)
          PROVE  Loads'
      BY <2>3, QuietLoads
    <2>4. ASSUME NEW s \in Session,
                 \/ AddInvoice(s) \/ CompleteTrip(s)
                 \/ \E p \in StopId :
                       \/ RemoveStop(s, p)
                       \/ \E status \in StopStatus \ {"pending"} : UpdateStopStatus(s, p, status)
          PROVE  Loads'
      BY <2>4, StopLoads
    <2>5. ASSUME NEW s \in Session, DispatchTrip(s)
          PROVE  Loads'
      BY <2>5, DispatchLoads
    <2>6. ASSUME NEW i \in Invoice, ConfirmPayment(i)
          PROVE  Loads'
      BY <2>6, AwayLoads
    <2>7. ASSUME NEW s \in Session,
                 \/ AbortTask(s) \/ MarkPickedUp(s) \/ DeleteRow(s)
                 \/ \E pickup \in BOOLEAN : RebuildInvoice(s, pickup)
                 \/ \E i \in Invoice : \/ BeginSalesReturn(s, i) \/ BeginPickUp(s, i)
                                       \/ BeginRebuild(s, i) \/ BeginDelete(s, i)
          PROVE  Loads'
      BY <2>7, QuietLoads
    <2>8. ASSUME NEW b \in Batch, NEW n \in 1..MaxBack, NEW s \in Session, PostSalesReturn(s, b, n)
          PROVE  Loads'
      BY <2>8, ReturnLoads
    <2>9. ASSUME NEW b \in Batch, NEW n \in 1..MaxBack, NEW i \in Invoice, CancelSalesReturn(i, b, n)
          PROVE  Loads'
      BY <2>9, CancelLoads
    <2> QED BY <1>2, <2>1, <2>2, <2>3, <2>4, <2>5, <2>6, <2>7, <2>8, <2>9 DEF DeliveryStep
  <1> QED BY <1>1, <1>2 DEF DeliveryNext

\* What a driver carries was not credited to the customer, unless a request that had
\* loaded the trip or was returning what rides on it was in flight when it left:
\* the picking list is what was sold less what came back, line by line
\* (delivery_service.py: _net_lines_to_pick, dispatch_trip), and a return looks where
\* the goods are before it takes them back (sales_service.py: create_return).
THEOREM NothingCreditedTravels == DeliverySpec => []NothingCreditedOnTheRoad
  <1>1. Loads => NothingCreditedOnTheRoad
    BY DEF Loads
  <1> QED BY <1>1, Invariance, LoadsInit, LoadsStep, PTL DEF DeliverySpec

=============================================================================
