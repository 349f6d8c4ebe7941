----------------------------- MODULE BatchStock -----------------------------
(***************************************************************************)
(* Batches of stock under concurrent requests.                             *)
(*                                                                         *)
(* A session is one HTTP request: one SQLAlchemy AsyncSession, one         *)
(* PostgreSQL transaction at READ COMMITTED, one commit at the end.  A     *)
(* request is the list of SQL statements its handler runs against          *)
(* product_batches (module StockRequests translates the handlers); the     *)
(* actions below are the steps of those statements, interleaved with the   *)
(* steps of every other session:                                           *)
(*                                                                         *)
(*   - SELECT ... FOR UPDATE fixes the rows it will return when it starts, *)
(*     locks them one by one in its ORDER BY, waits for a row another      *)
(*     session holds, and re-evaluates its WHERE clause on the row's last  *)
(*     committed version once the lock is granted (the row stays locked    *)
(*     even when it no longer qualifies);                                  *)
(*   - an entity the session has already loaded keeps the attributes it    *)
(*     has: no query in the code asks for populate_existing;               *)
(*   - `batch.quantity += n` changes the entity; the UPDATE writes the     *)
(*     absolute value at the next flush, which takes the row lock.         *)
(***************************************************************************)
EXTENDS Integers, Sequences, FiniteSets

CONSTANTS
    Session,    \* requests in flight
    Batch,      \* ids of product_batches rows, present or yet to be inserted
    Expiry,     \* Expiry[b]: day the batch expires
    Today,      \* date.today() while the requests run
    Twin,       \* Twin[b]: the row of the same batch number in the other warehouse
    Opening,    \* Opening[b]: quantity at the start
    Present,    \* the rows that exist at the start
    Request,    \* the requests a session may carry out
    Free        \* owner of a row nobody has locked

Op == {"lock", "take", "move", "change", "receive"}

Step == [op : Op, rows : SUBSET Batch, n : Int]

ASSUME BatchAssumption ==
    /\ Batch \subseteq Nat
    /\ Expiry \in [Batch -> Int]
    /\ Today \in Int
    /\ Twin \in [Batch -> Batch]
    /\ Opening \in [Batch -> Nat]
    /\ Present \subseteq Batch
    /\ \A b \in Batch \ Present : Opening[b] = 0

ASSUME RequestAssumption ==
    /\ Request \subseteq [preload : SUBSET Batch, steps : Seq(Step)]
    /\ Free \notin Session
    /\ \A r \in Request : \A i \in 1..Len(r.steps) :
          r.steps[i].op \in {"take", "move", "receive"} => r.steps[i].n > 0

VARIABLES
    qty,      \* product_batches.quantity, as last committed
    live,     \* rows that exist, as last committed
    owner,    \* the session that holds the row lock
    booked,   \* what the lines of the committed documents say each batch holds
    pc,       \* "idle", "ready", "scan", "done", "failed"
    req,      \* the request being carried out
    at,       \* index of its current statement
    scan,     \* rows the running SELECT has yet to lock
    left,     \* quantity the running statement has yet to place
    known,    \* rows in the session's identity map
    mem,      \* mem[s][b]: quantity attribute of the loaded entity
    dirty,    \* entities changed and not yet committed
    fresh,    \* entities added by session.add: to be INSERTed
    moving,   \* transfer: goods taken from a source row and not yet put away
    entry     \* entry[s][b]: what the lines of the session's document say

database == <<qty, live, booked>>
cursor   == <<pc, req, at, scan, left>>
identity == <<known, mem, dirty, fresh, moving, entry>>
vars     == <<database, owner, cursor, identity>>

Zero == [b \in Batch |-> 0]

Empty == [preload |-> {}, steps |-> <<>>]

Init ==
    /\ qty = Opening
    /\ live = Present
    /\ booked = Opening
    /\ owner = [b \in Batch |-> Free]
    /\ pc = [s \in Session |-> "idle"]
    /\ req = [s \in Session |-> Empty]
    /\ at = [s \in Session |-> 1]
    /\ scan = [s \in Session |-> {}]
    /\ left = [s \in Session |-> 0]
    /\ known = [s \in Session |-> {}]
    /\ mem = [s \in Session |-> Zero]
    /\ dirty = [s \in Session |-> {}]
    /\ fresh = [s \in Session |-> {}]
    /\ moving = [s \in Session |-> Zero]
    /\ entry = [s \in Session |-> Zero]

-----------------------------------------------------------------------------
(* What a session sees. *)

Exists(s, b) == b \in live \/ b \in fresh[s]

\* The row as the session's own statements read it: its flushed changes, else
\* the last committed version.
Stored(s, b) == IF b \in dirty[s] THEN mem[s][b] ELSE qty[b]

\* The quantity attribute of the entity once the row has been returned.
Value(s, b) == IF b \in known[s] THEN mem[s][b] ELSE qty[b]

Current(s) == req[s].steps[at[s]]

\* stock_query.sellable()
Sellable(s, b) == Stored(s, b) > 0 /\ Expiry[b] > Today

\* The WHERE clause of each SELECT ... FOR UPDATE.
Matches(s, b) ==
    /\ Exists(s, b)
    /\ Current(s).op = "lock" => Stored(s, b) > 0
    /\ Current(s).op \in {"take", "move"} => Sellable(s, b)

\* FEFO: ORDER BY expiry_date, id
ExpiresBefore(b, c) == Expiry[b] < Expiry[c] \/ (Expiry[b] = Expiry[c] /\ b < c)

\* Fault: allocation in id order, as if ORDER BY expiry_date were dropped.
PrecedesById(op, b, c) == b < c

Precedes(op, b, c) ==
    IF op \in {"take", "move"} THEN ExpiresBefore(b, c) ELSE b < c

Foremost(op, S) == {b \in S : \A c \in S \ {b} : Precedes(op, b, c)}

Flushed(s) == \A b \in dirty[s] : owner[b] = s

\* The goods of a transfer are put away source by source, FEFO first.
NextMove(s) == Foremost("move", {b \in Batch : moving[s][b] > 0})

Settled(s) == \A b \in Batch : moving[s][b] = 0

Unflushed(s) == {b \in dirty[s] : owner[b] # s}

\* The row whose lock the session needs for its next step.
Wanted(s) ==
    IF pc[s] = "scan" /\ scan[s] # {} THEN Foremost(Current(s).op, scan[s])
    ELSE IF pc[s] = "ready" /\ Unflushed(s) # {} THEN Foremost("change", Unflushed(s))
    ELSE {}

Grantable(s, b) == owner[b] \in {Free, s}

-----------------------------------------------------------------------------
(* The end of a request, one way or the other. *)

Release(s) == owner' = [b \in Batch |-> IF owner[b] = s THEN Free ELSE owner[b]]

\* Nothing of the session's identity map survives.
Forget(s, outcome) ==
    /\ pc' = [pc EXCEPT ![s] = outcome]
    /\ req' = [req EXCEPT ![s] = Empty]
    /\ at' = [at EXCEPT ![s] = 1]
    /\ scan' = [scan EXCEPT ![s] = {}]
    /\ left' = [left EXCEPT ![s] = 0]
    /\ known' = [known EXCEPT ![s] = {}]
    /\ mem' = [mem EXCEPT ![s] = Zero]
    /\ dirty' = [dirty EXCEPT ![s] = {}]
    /\ fresh' = [fresh EXCEPT ![s] = {}]
    /\ moving' = [moving EXCEPT ![s] = Zero]
    /\ entry' = [entry EXCEPT ![s] = Zero]

\* Fault: the session is dropped without being closed, its locks stay.
CloseLeak(s, outcome) == Forget(s, outcome) /\ UNCHANGED owner

Close(s, outcome) == Release(s) /\ Forget(s, outcome)

Rollback(s) == Close(s, "failed") /\ UNCHANGED database

Commit(s) ==
    /\ pc[s] = "ready"
    /\ at[s] > Len(req[s].steps)
    /\ Settled(s)
    /\ Flushed(s)
    /\ qty' = [b \in Batch |-> IF b \in dirty[s] THEN mem[s][b] ELSE qty[b]]
    /\ live' = live \cup fresh[s]
    /\ booked' = [b \in Batch |-> booked[b] + entry[s][b]]
    /\ Close(s, "done")

-----------------------------------------------------------------------------
(* The steps of a request. *)

\* The handler starts; cancel_adjustment's get_adjustment loads the batches of
\* the document's lines without locking them.
Begin(s) ==
    /\ pc[s] = "idle"
    /\ \E r \in Request :
          /\ req' = [req EXCEPT ![s] = r]
          /\ known' = [known EXCEPT ![s] = r.preload]
          /\ mem' = [mem EXCEPT ![s] =
                        [b \in Batch |-> IF b \in r.preload THEN qty[b] ELSE 0]]
    /\ pc' = [pc EXCEPT ![s] = "ready"]
    /\ UNCHANGED <<database, owner, at, scan, left, dirty, fresh, moving, entry>>

\* A SELECT ... FOR UPDATE starts, after the autoflush that precedes every query.
Select(s) ==
    /\ pc[s] = "ready"
    /\ at[s] <= Len(req[s].steps)
    /\ Settled(s)
    /\ Flushed(s)
    /\ pc' = [pc EXCEPT ![s] = "scan"]
    /\ scan' = [scan EXCEPT ![s] = {b \in Current(s).rows : Matches(s, b)}]
    /\ left' = [left EXCEPT ![s] = Current(s).n]
    /\ UNCHANGED <<database, owner, req, at, identity>>

\* The next row of the running statement is locked.
Lock(s, b) ==
    /\ pc[s] = "scan"
    /\ b \in Wanted(s)
    /\ Grantable(s, b)
    /\ owner' = [owner EXCEPT ![b] = s]
    /\ scan' = [scan EXCEPT ![s] = @ \ {b}]
    /\ UNCHANGED <<database, pc, req, at>>

\* It is locked and nothing more: lock_batches_in_order selects ids only, and a
\* row that stopped qualifying while the session waited is dropped.
LockOnly(s, b) ==
    /\ Lock(s, b)
    /\ Current(s).op = "lock" \/ ~Matches(s, b)
    /\ UNCHANGED <<left, identity>>

\* The entity's quantity and the document's line change by d.
Post(s, b, d) ==
    /\ known' = [known EXCEPT ![s] = @ \cup {b}]
    /\ mem' = [mem EXCEPT ![s][b] = Value(s, b) + d]
    /\ dirty' = [dirty EXCEPT ![s] = @ \cup {b}]
    /\ entry' = [entry EXCEPT ![s][b] = @ + d]

Smaller(x, y) == IF x <= y THEN x ELSE y

\* fefo_allocate: take = min(batch.quantity, remaining).
TakeRow(s, b) ==
    LET take == Smaller(Value(s, b), left[s])
    IN  /\ Lock(s, b)
        /\ Current(s).op \in {"take", "move"}
        /\ Matches(s, b)
        /\ IF left[s] > 0
           THEN /\ Post(s, b, -take)
                /\ moving' = [moving EXCEPT ![s][b] =
                                IF Current(s).op = "move" THEN @ + take ELSE @]
           ELSE /\ known' = [known EXCEPT ![s] = @ \cup {b}]
                /\ mem' = [mem EXCEPT ![s][b] = Value(s, b)]
                /\ UNCHANGED <<dirty, entry, moving>>
        /\ left' = [left EXCEPT ![s] = @ - take]
        /\ UNCHANGED fresh

\* Fault: the quantity is not compared with what is taken out.
ChangeRowUnguarded(s, b) ==
    /\ Lock(s, b)
    /\ Current(s).op \in {"change", "receive"}
    /\ Matches(s, b)
    /\ Post(s, b, left[s])
    /\ left' = [left EXCEPT ![s] = 0]
    /\ UNCHANGED <<fresh, moving>>

\* get_batch_locked or add_stock_no_commit found the row: quantity += n.
ChangeRow(s, b) ==
    /\ Lock(s, b)
    /\ Current(s).op \in {"change", "receive"}
    /\ Matches(s, b)
    /\ Value(s, b) + left[s] >= 0
    /\ Post(s, b, left[s])
    /\ left' = [left EXCEPT ![s] = 0]
    /\ UNCHANGED <<fresh, moving>>

\* The handlers that take goods away refuse to go below zero.
RefuseRow(s, b) ==
    /\ pc[s] = "scan"
    /\ b \in Wanted(s)
    /\ Grantable(s, b)
    /\ Current(s).op = "change"
    /\ Matches(s, b)
    /\ Value(s, b) + left[s] < 0
    /\ Rollback(s)

\* The statement has returned all its rows.
Advance(s) ==
    /\ pc[s] = "scan"
    /\ scan[s] = {}
    /\ pc' = [pc EXCEPT ![s] = "ready"]
    /\ at' = [at EXCEPT ![s] = @ + 1]
    /\ left' = [left EXCEPT ![s] = 0]
    /\ UNCHANGED <<database, owner, req, scan>>

\* Fault: a line that could not be filled is invoiced for what there was.
FulfilledShort(s) == Advance(s) /\ UNCHANGED identity

Fulfilled(s) == Advance(s) /\ left[s] = 0 /\ UNCHANGED identity

\* add_stock_no_commit found no row: session.add(ProductBatch(...)).
Insert(s, b, n) ==
    /\ fresh' = [fresh EXCEPT ![s] = @ \cup {b}]
    /\ known' = [known EXCEPT ![s] = @ \cup {b}]
    /\ mem' = [mem EXCEPT ![s][b] = n]
    /\ dirty' = [dirty EXCEPT ![s] = @ \cup {b}]
    /\ entry' = [entry EXCEPT ![s][b] = @ + n]

ReceiveNew(s) ==
    /\ Advance(s)
    /\ left[s] > 0
    /\ Current(s).op = "receive"
    /\ \E b \in Batch : b \in Current(s).rows /\ Insert(s, b, left[s])
    /\ UNCHANGED moving

\* fefo_allocate could not fill the line, or the batch does not exist.
Short(s) ==
    /\ pc[s] = "scan"
    /\ scan[s] = {}
    /\ left[s] # 0
    /\ Current(s).op # "receive"
    /\ Rollback(s)

\* Fault: the destination row is set to the quantity moved.
PutAwayReplacing(s) ==
    /\ pc[s] = "ready"
    /\ Flushed(s)
    /\ \E b \in NextMove(s) :
          /\ IF Exists(s, Twin[b]) THEN UNCHANGED fresh
             ELSE fresh' = [fresh EXCEPT ![s] = @ \cup {Twin[b]}]
          /\ known' = [known EXCEPT ![s] = @ \cup {Twin[b]}]
          /\ mem' = [mem EXCEPT ![s][Twin[b]] = moving[s][b]]
          /\ dirty' = [dirty EXCEPT ![s] = @ \cup {Twin[b]}]
          /\ entry' = [entry EXCEPT ![s][Twin[b]] = @ + moving[s][b]]
          /\ moving' = [moving EXCEPT ![s][b] = 0]
    /\ UNCHANGED <<database, owner, cursor>>

\* transfer_stock reads the destination row without a lock and adds to it, or
\* adds a new row.
PutAway(s) ==
    /\ pc[s] = "ready"
    /\ Flushed(s)
    /\ \E b \in NextMove(s) :
          /\ IF Exists(s, Twin[b])
             THEN Post(s, Twin[b], moving[s][b]) /\ UNCHANGED fresh
             ELSE Insert(s, Twin[b], moving[s][b])
          /\ moving' = [moving EXCEPT ![s][b] = 0]
    /\ UNCHANGED <<database, owner, cursor>>

\* UPDATE or INSERT takes the row lock of an entity changed without one.
Flush(s) ==
    /\ pc[s] = "ready"
    /\ \E b \in Wanted(s) :
          /\ Grantable(s, b)
          /\ ~(b \in fresh[s] /\ b \in live)
          /\ owner' = [owner EXCEPT ![b] = s]
    /\ UNCHANGED <<database, cursor, identity>>

\* uq_batch_per_warehouse: another session inserted the same batch first.
Conflict(s) ==
    /\ pc[s] = "ready"
    /\ \E b \in Wanted(s) : Grantable(s, b) /\ b \in fresh[s] /\ b \in live
    /\ Rollback(s)

-----------------------------------------------------------------------------
(* What can end a request from outside. *)

Active(s) == pc[s] \in {"ready", "scan"}

WaitsFor(s, t) == s # t /\ \E b \in Wanted(s) : owner[b] = t

InCycle(s) ==
    \E C \in SUBSET Session :
        /\ s \in C
        /\ \A t \in C : \E u \in C : WaitsFor(t, u)
        /\ \A u \in C : \E t \in C : WaitsFor(t, u)

\* PostgreSQL breaks a cycle of waits by aborting one of its members.
DeadlockAbort(s) == InCycle(s) /\ Rollback(s)

\* A validation of the handler fails, the connection drops or the server stops.
Fail(s) == Active(s) /\ Rollback(s)

Work(s) ==
    \/ Select(s)
    \/ \E b \in Batch : LockOnly(s, b) \/ TakeRow(s, b) \/ ChangeRow(s, b) \/ RefuseRow(s, b)
    \/ Fulfilled(s) \/ ReceiveNew(s) \/ Short(s) \/ PutAway(s) \/ Flush(s) \/ Conflict(s)
    \/ Commit(s)
    \/ DeadlockAbort(s)

Terminating == (\A s \in Session : pc[s] \in {"done", "failed"}) /\ UNCHANGED vars

Next == (\E s \in Session : Begin(s) \/ Work(s) \/ Fail(s)) \/ Terminating

Spec == Init /\ [][Next]_vars

FairSpec == Spec /\ \A s \in Session : WF_vars(Work(s))

-----------------------------------------------------------------------------
(* Properties. *)

\* Every variable has its type; in particular no batch, committed or in the
\* memory of a session, is ever below zero.
TypeOK ==
    /\ qty \in [Batch -> Nat]
    /\ live \subseteq Batch
    /\ owner \in [Batch -> Session \cup {Free}]
    /\ booked \in [Batch -> Int]
    /\ pc \in [Session -> {"idle", "ready", "scan", "done", "failed"}]
    /\ req \in [Session -> Request \cup {Empty}]
    /\ at \in [Session -> Nat \ {0}]
    /\ scan \in [Session -> SUBSET Batch]
    /\ left \in [Session -> Int]
    /\ known \in [Session -> SUBSET Batch]
    /\ mem \in [Session -> [Batch -> Nat]]
    /\ dirty \in [Session -> SUBSET Batch]
    /\ fresh \in [Session -> SUBSET Batch]
    /\ moving \in [Session -> [Batch -> Nat]]
    /\ entry \in [Session -> [Batch -> Int]]

\* No update is lost: each batch holds what it held at the start plus what the
\* lines of the committed documents moved ("opening stock - units actually sold
\* = closing stock").
NoLostUpdate == qty = booked

\* No two requests ever wait for each other's rows: "one simply waits for the
\* other and neither dies".
NeitherDies == \A s \in Session : ~InCycle(s)

\* First expired, first out: while a request has taken goods from batch c, every
\* sellable batch of the same shelf that it holds and that expires before c is
\* used up.
FirstExpiredFirstOut ==
    \A s \in Session : Active(s) =>
        \A i \in 1..Len(req[s].steps) : req[s].steps[i].op \in {"take", "move"} =>
            \A b, c \in req[s].steps[i].rows :
                (/\ ExpiresBefore(b, c)
                 /\ Expiry[b] > Today
                 /\ entry[s][c] < 0
                 /\ owner[b] = s)
                => Stored(s, b) = 0

\* Every request ends: a commit, a refusal or a deadlock abort.
RequestsEnd == \A s \in Session : Active(s) ~> pc[s] \in {"done", "failed"}

=============================================================================
