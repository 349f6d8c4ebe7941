-------------------------- MODULE BatchStockProofs --------------------------
(***************************************************************************)
(* Proofs about BatchStock, for any number of sessions, batches, requests  *)
(* and quantities.                                                         *)
(***************************************************************************)
EXTENDS StockRequests, SumLemmas

-----------------------------------------------------------------------------
(* Type correctness. *)

LEMMA EmptyType == Empty \in [preload : SUBSET Batch, steps : Seq(Step)]
  BY DEF Empty

\* What Rollback and the end of Commit leave behind is typed.
LEMMA CloseType ==
  ASSUME TypeOK, NEW s \in Session, NEW outcome \in {"done", "failed"},
         Close(s, outcome), qty' \in [Batch -> Nat], live' \subseteq Batch,
         booked' \in [Batch -> Int]
  PROVE  TypeOK'
  <1>1. owner' \in [Batch -> Session \cup {Free}]
    BY DEF TypeOK, Close, Forget, Release
  <1>2. Zero \in [Batch -> Nat] /\ Zero \in [Batch -> Int]
    BY DEF Zero
  <1>3. /\ pc' \in [Session -> {"idle", "ready", "scan", "done", "failed"}]
        /\ req' \in [Session -> Request \cup {Empty}]
        /\ at' \in [Session -> Nat \ {0}]
        /\ left' \in [Session -> Int]
    BY DEF TypeOK, Close, Forget
  <1>4. /\ scan' \in [Session -> SUBSET Batch]
        /\ known' \in [Session -> SUBSET Batch]
        /\ dirty' \in [Session -> SUBSET Batch]
        /\ fresh' \in [Session -> SUBSET Batch]
    BY DEF TypeOK, Close, Forget
  <1>5. /\ mem' \in [Session -> [Batch -> Nat]]
        /\ moving' \in [Session -> [Batch -> Nat]]
        /\ entry' \in [Session -> [Batch -> Int]]
    BY <1>2 DEF TypeOK, Close, Forget
  <1> QED
    BY <1>1, <1>3, <1>4, <1>5 DEF TypeOK

\* Changing one quantity of one session keeps mem and entry typed.
LEMMA PostType ==
  ASSUME TypeOK, NEW s \in Session, NEW b \in Batch, NEW d \in Int,
         Value(s, b) + d \in Nat, Post(s, b, d)
  PROVE  /\ known' \in [Session -> SUBSET Batch]
         /\ mem' \in [Session -> [Batch -> Nat]]
         /\ dirty' \in [Session -> SUBSET Batch]
         /\ entry' \in [Session -> [Batch -> Int]]
  BY DEF TypeOK, Post

LEMMA InsertType ==
  ASSUME TypeOK, NEW s \in Session, NEW b \in Batch, NEW n \in Nat, Insert(s, b, n)
  PROVE  /\ known' \in [Session -> SUBSET Batch]
         /\ mem' \in [Session -> [Batch -> Nat]]
         /\ dirty' \in [Session -> SUBSET Batch]
         /\ fresh' \in [Session -> SUBSET Batch]
         /\ entry' \in [Session -> [Batch -> Int]]
  BY DEF TypeOK, Insert

LEMMA ValueType ==
  ASSUME TypeOK, NEW s \in Session, NEW b \in Batch
  PROVE  Value(s, b) \in Nat
  BY DEF TypeOK, Value

LEMMA LockType ==
  ASSUME TypeOK, NEW s \in Session, NEW b \in Batch, Lock(s, b)
  PROVE  /\ owner' \in [Batch -> Session \cup {Free}]
         /\ scan' \in [Session -> SUBSET Batch]
  BY DEF TypeOK, Lock

LEMMA TypeInit == Init => TypeOK
  BY BatchAssumption DEF Init, TypeOK, Zero

LEMMA RollbackType ==
  ASSUME TypeOK, NEW s \in Session, Rollback(s)
  PROVE  TypeOK'
  <1>1. qty' \in [Batch -> Nat] /\ live' \subseteq Batch /\ booked' \in [Batch -> Int]
    BY DEF TypeOK, Rollback, database
  <1> QED
    BY <1>1, CloseType DEF Rollback

LEMMA WorkType ==
  ASSUME TypeOK, NEW s \in Session, Work(s)
  PROVE  TypeOK'
  <1>1. CASE Select(s)
    <2>1. req[s] \in Request
      BY <1>1 DEF Select, TypeOK, Empty
    <2>2. Current(s) \in Step
      BY <1>1, <2>1, RequestAssumption DEF Select, TypeOK, Current
    <2>3. left' \in [Session -> Int]
      BY <1>1, <2>2 DEF Select, TypeOK, Step
    <2>4. scan' \in [Session -> SUBSET Batch]
      BY <1>1, <2>2 DEF Select, TypeOK, Step
    <2>5. pc' \in [Session -> {"idle", "ready", "scan", "done", "failed"}]
      BY <1>1 DEF Select, TypeOK
    <2> QED
      BY <1>1, <2>3, <2>4, <2>5 DEF Select, TypeOK, database, identity
  <1>2. ASSUME NEW b \in Batch, LockOnly(s, b) PROVE TypeOK'
    BY <1>2, LockType DEF LockOnly, Lock, TypeOK, database, identity
  <1>3. ASSUME NEW b \in Batch, TakeRow(s, b) PROVE TypeOK'
    <2> DEFINE take == Smaller(Value(s, b), left[s])
    <2>1. Value(s, b) \in Nat /\ left[s] \in Int
      BY ValueType DEF TypeOK
    <2>2. take \in Int /\ take <= Value(s, b) /\ (left[s] > 0 => take \in Nat)
      BY <2>1 DEF Smaller
    <2>3. left' \in [Session -> Int]
      BY <1>3, <2>2 DEF TakeRow, TypeOK
    <2>4. /\ known' \in [Session -> SUBSET Batch]
          /\ mem' \in [Session -> [Batch -> Nat]]
          /\ dirty' \in [Session -> SUBSET Batch]
          /\ entry' \in [Session -> [Batch -> Int]]
          /\ moving' \in [Session -> [Batch -> Nat]]
      <3>1. CASE left[s] > 0
        <4>1. Post(s, b, -take)
          BY <1>3, <3>1 DEF TakeRow
        <4>2. -take \in Int /\ Value(s, b) + (-take) \in Nat
          BY <2>1, <2>2
        <4>3. moving' \in [Session -> [Batch -> Nat]]
          <5> DEFINE m == IF Current(s).op = "move" THEN moving[s][b] + take
                                                    ELSE moving[s][b]
          <5>1. moving' = [moving EXCEPT ![s][b] = m]
            BY <1>3, <3>1 DEF TakeRow
          <5>2. m \in Nat
            BY <2>2, <3>1 DEF TypeOK
          <5> HIDE DEF m
          <5> QED
            BY <5>1, <5>2 DEF TypeOK
        <4> QED
          BY <4>1, <4>2, <4>3, PostType
      <3>2. CASE ~(left[s] > 0)
        <4>1. /\ known' = [known EXCEPT ![s] = @ \cup {b}]
              /\ mem' = [mem EXCEPT ![s][b] = Value(s, b)]
              /\ UNCHANGED <<dirty, entry, moving>>
          BY <1>3, <3>2 DEF TakeRow
        <4> QED
          BY <2>1, <4>1 DEF TypeOK
      <3> QED
        BY <3>1, <3>2
    <2> QED
      BY <1>3, <2>3, <2>4, LockType DEF TakeRow, Lock, TypeOK, database
  <1>4. ASSUME NEW b \in Batch, ChangeRow(s, b) PROVE TypeOK'
    <2>1. Value(s, b) + left[s] \in Nat /\ left[s] \in Int
      BY <1>4, ValueType DEF ChangeRow, TypeOK
    <2>2. left' \in [Session -> Int]
      BY <1>4 DEF ChangeRow, TypeOK
    <2> QED
      BY <1>4, <2>1, <2>2, LockType, PostType DEF ChangeRow, Lock, TypeOK, database
  <1>5. ASSUME NEW b \in Batch, RefuseRow(s, b) PROVE TypeOK'
    BY <1>5, RollbackType DEF RefuseRow
  <1>6. CASE Fulfilled(s)
    BY <1>6 DEF Fulfilled, Advance, TypeOK, database, identity
  <1>7. CASE ReceiveNew(s)
    <2>1. PICK b \in Batch : Insert(s, b, left[s])
      BY <1>7 DEF ReceiveNew
    <2>2. left[s] \in Nat
      BY <1>7 DEF ReceiveNew, TypeOK
    <2>3. /\ pc' \in [Session -> {"idle", "ready", "scan", "done", "failed"}]
          /\ at' \in [Session -> Nat \ {0}]
          /\ left' \in [Session -> Int]
      BY <1>7 DEF ReceiveNew, Advance, TypeOK
    <2> QED
      BY <1>7, <2>1, <2>2, <2>3, InsertType DEF ReceiveNew, Advance, TypeOK, database
  <1>8. CASE Short(s)
    BY <1>8, RollbackType DEF Short
  <1>9. CASE PutAway(s)
    <2>1. PICK b \in NextMove(s) :
             /\ IF Exists(s, Twin[b])
                THEN Post(s, Twin[b], moving[s][b]) /\ UNCHANGED fresh
                ELSE Insert(s, Twin[b], moving[s][b])
             /\ moving' = [moving EXCEPT ![s][b] = 0]
      BY <1>9 DEF PutAway
    <2>2. b \in Batch /\ Twin[b] \in Batch
      BY BatchAssumption DEF NextMove, Foremost
    <2>3. moving[s][b] \in Nat /\ moving' \in [Session -> [Batch -> Nat]]
      BY <2>1, <2>2 DEF TypeOK
    <2>4. /\ known' \in [Session -> SUBSET Batch]
          /\ mem' \in [Session -> [Batch -> Nat]]
          /\ dirty' \in [Session -> SUBSET Batch]
          /\ fresh' \in [Session -> SUBSET Batch]
          /\ entry' \in [Session -> [Batch -> Int]]
      <3>1. CASE Exists(s, Twin[b])
        <4>1. Value(s, Twin[b]) + moving[s][b] \in Nat
          BY <2>2, <2>3, ValueType
        <4> QED
          BY <2>1, <2>2, <2>3, <3>1, <4>1, PostType DEF TypeOK
      <3>2. CASE ~Exists(s, Twin[b])
        BY <2>1, <2>2, <2>3, <3>2, InsertType
      <3> QED
        BY <3>1, <3>2
    <2>5. UNCHANGED <<database, owner, cursor>>
      BY <1>9 DEF PutAway
    <2> QED
      BY <2>3, <2>4, <2>5 DEF TypeOK, database, cursor
  <1>10. CASE Flush(s)
    <2>1. PICK b \in Wanted(s) : owner' = [owner EXCEPT ![b] = s]
      BY <1>10 DEF Flush
    <2>2. owner' \in [Batch -> Session \cup {Free}]
      BY <2>1 DEF TypeOK
    <2>3. UNCHANGED <<database, cursor, identity>>
      BY <1>10 DEF Flush
    <2> QED
      BY <2>2, <2>3 DEF TypeOK, database, cursor, identity
  <1>11. CASE Conflict(s)
    BY <1>11, RollbackType DEF Conflict
  <1>12. CASE Commit(s)
    <2>1. /\ qty' \in [Batch -> Nat]
          /\ live' \subseteq Batch
          /\ booked' \in [Batch -> Int]
      BY <1>12 DEF Commit, TypeOK
    <2> QED
      BY <1>12, <2>1, CloseType DEF Commit
  <1>13. CASE DeadlockAbort(s)
    BY <1>13, RollbackType DEF DeadlockAbort
  <1> QED
    BY <1>1, <1>2, <1>3, <1>4, <1>5, <1>6, <1>7, <1>8, <1>9, <1>10, <1>11, <1>12,
       <1>13 DEF Work

LEMMA TypeNext == TypeOK /\ [Next]_vars => TypeOK'
  <1> SUFFICES ASSUME TypeOK, [Next]_vars PROVE TypeOK'
    OBVIOUS
  <1>1. ASSUME NEW s \in Session, Begin(s) PROVE TypeOK'
    <2>1. PICK r \in Request :
             /\ req' = [req EXCEPT ![s] = r]
             /\ known' = [known EXCEPT ![s] = r.preload]
             /\ mem' = [mem EXCEPT ![s] =
                           [b \in Batch |-> IF b \in r.preload THEN qty[b] ELSE 0]]
      BY <1>1 DEF Begin
    <2>2. r.preload \subseteq Batch
      BY RequestAssumption
    <2>3. pc' \in [Session -> {"idle", "ready", "scan", "done", "failed"}]
      BY <1>1 DEF Begin, TypeOK
    <2> QED
      BY <1>1, <2>1, <2>2, <2>3 DEF Begin, TypeOK, database
  <1>2. ASSUME NEW s \in Session, Work(s) PROVE TypeOK'
    BY <1>2, WorkType
  <1>3. ASSUME NEW s \in Session, Fail(s) PROVE TypeOK'
    BY <1>3, RollbackType DEF Fail
  <1>4. CASE UNCHANGED vars
    BY <1>4 DEF TypeOK, vars, database, cursor, identity
  <1> QED
    BY <1>1, <1>2, <1>3, <1>4 DEF Next, Terminating

\* Whatever the requests do, every variable keeps its type: no batch, in the
\* database or in the memory of a session, is ever below zero.
THEOREM TypeCorrect == Spec => []TypeOK
  BY TypeInit, TypeNext, PTL DEF Spec

-----------------------------------------------------------------------------
(***************************************************************************)
(* No lost update.  The two handlers that change a row they did not read   *)
(* under its lock are left out: transfer_stock, whose destination is read  *)
(* without one, and cancel_adjustment, which has the row in its identity   *)
(* map before it locks it.                                                 *)
(***************************************************************************)

Disciplined ==
    \A r \in Request :
        /\ r.preload = {}
        /\ \A i \in 1..Len(r.steps) : r.steps[i].op # "move"

\* What a session knows of a row: loaded rows are held, and once held the entity
\* is the committed quantity plus what the session's document says.
Coherent(s, b) ==
    /\ b \in fresh[s] => b \in dirty[s]
    /\ b \in dirty[s] => b \in known[s]
    /\ b \notin dirty[s] => entry[s][b] = 0
    /\ b \in known[s] => owner[b] = s \/ b \in fresh[s]
    /\ b \in known[s] /\ owner[b] = s => mem[s][b] = qty[b] + entry[s][b]
    /\ b \in fresh[s] /\ owner[b] # s => mem[s][b] = entry[s][b]
    /\ b \in fresh[s] /\ owner[b] = s => b \notin live
    /\ owner[b] = s => b \in live \/ b \in fresh[s]
    /\ moving[s][b] = 0

\* A running statement returns rows that exist, starts flushed, and an upsert
\* will return the row if the session has it.
Running(s) ==
    pc[s] = "scan" =>
        /\ req[s] \in Request
        /\ at[s] \in 1..Len(req[s].steps)
        /\ \A b \in scan[s] : b \in live \/ b \in fresh[s]
        /\ Flushed(s)
        /\ (Current(s).op = "receive" /\ left[s] > 0) =>
              \A b \in Current(s).rows : b \in known[s] \/ owner[b] = s => b \in scan[s]

Waiting(s) == pc[s] = "idle" => dirty[s] = {} /\ fresh[s] = {} /\ \A b \in Batch : owner[b] # s

Stocked == \A b \in Batch : b \notin live => qty[b] = 0

IInv ==
    /\ TypeOK
    /\ NoLostUpdate
    /\ Stocked
    /\ \A s \in Session : Running(s) /\ Waiting(s)
    /\ \A s \in Session, b \in Batch : Coherent(s, b)

LEMMA InvInit == Init => IInv
  <1> SUFFICES ASSUME Init PROVE IInv
    OBVIOUS
  <1>1. TypeOK
    BY TypeInit
  <1>2. NoLostUpdate /\ Stocked
    BY BatchAssumption DEF Init, NoLostUpdate, Stocked
  <1>3. \A s \in Session : Running(s) /\ Waiting(s)
    BY RequestAssumption DEF Init, Running, Waiting
  <1>4. \A s \in Session, b \in Batch : Coherent(s, b)
    BY RequestAssumption DEF Init, Coherent, Zero
  <1> QED
    BY <1>1, <1>2, <1>3, <1>4 DEF IInv

-----------------------------------------------------------------------------
(* A step of session s leaves every other session as it was. *)

Untouched(t) ==
    /\ pc'[t] = pc[t] /\ req'[t] = req[t] /\ at'[t] = at[t]
    /\ scan'[t] = scan[t] /\ left'[t] = left[t]
    /\ known'[t] = known[t] /\ mem'[t] = mem[t] /\ dirty'[t] = dirty[t]
    /\ fresh'[t] = fresh[t] /\ moving'[t] = moving[t] /\ entry'[t] = entry[t]

Aside(s) ==
    /\ \A t \in Session \ {s} : Untouched(t)
    /\ \A t \in Session \ {s} : \A b \in Batch : owner'[b] = t <=> owner[b] = t
    /\ live \subseteq live'
    /\ \A b \in Batch : owner[b] \in Session \ {s} =>
          qty'[b] = qty[b] /\ (b \in live' <=> b \in live)

Sound(s) == Running(s) /\ Waiting(s) /\ \A b \in Batch : Coherent(s, b)

LEMMA Bystander ==
  ASSUME IInv, NEW s \in Session, Aside(s), NEW t \in Session \ {s}
  PROVE  Sound(t)'
  <1>1. TypeOK /\ Running(t) /\ Waiting(t) /\ \A b \in Batch : Coherent(t, b)
    BY DEF IInv
  <1>2. Untouched(t) /\ \A b \in Batch : owner'[b] = t <=> owner[b] = t
    BY DEF Aside
  <1>3. /\ live \subseteq live'
        /\ \A b \in Batch : owner[b] = t => qty'[b] = qty[b] /\ (b \in live' <=> b \in live)
    BY DEF Aside
  <1>4. Waiting(t)'
    BY <1>1, <1>2 DEF Waiting, Untouched
  <1>5. ASSUME NEW b \in Batch PROVE Coherent(t, b)'
    BY <1>1, <1>2, <1>3 DEF Coherent, Untouched
  <1>6. Running(t)'
    <2> SUFFICES ASSUME pc'[t] = "scan" PROVE Running(t)'
      BY DEF Running
    <2>1. /\ req[t] \in Request
          /\ at[t] \in 1..Len(req[t].steps)
          /\ \A b \in scan[t] : b \in live \/ b \in fresh[t]
          /\ Flushed(t)
          /\ (Current(t).op = "receive" /\ left[t] > 0) =>
                \A b \in Current(t).rows : b \in known[t] \/ owner[b] = t => b \in scan[t]
      BY <1>1, <1>2 DEF Running, Untouched
    <2>2. Current(t)' = Current(t)
      BY <1>2 DEF Current, Untouched
    <2>3. Current(t) \in Step
      BY <2>1, RequestAssumption DEF Current
    <2>4. Current(t).rows \subseteq Batch /\ dirty[t] \subseteq Batch
      BY <2>3, <1>1 DEF Step, TypeOK
    <2> QED
      BY <2>1, <2>2, <2>4, <1>2, <1>3 DEF Running, Untouched, Flushed
  <1> QED
    BY <1>4, <1>5, <1>6 DEF Sound

LEMMA StepInv ==
  ASSUME IInv, NEW s \in Session, TypeOK', NoLostUpdate', Stocked', Aside(s), Sound(s)'
  PROVE  IInv'
  <1>1. \A t \in Session : Sound(t)'
    BY Bystander
  <1> QED
    BY <1>1 DEF IInv, Sound

LEMMA CurrentType ==
  ASSUME TypeOK, NEW s \in Session, at[s] <= Len(req[s].steps)
  PROVE  /\ req[s] \in Request
         /\ at[s] \in 1..Len(req[s].steps)
         /\ Current(s) \in Step
  <1>1. req[s] \in Request
    BY DEF TypeOK, Empty
  <1>2. Len(req[s].steps) \in Nat
    BY <1>1, RequestAssumption
  <1>3. at[s] \in 1..Len(req[s].steps)
    BY <1>2 DEF TypeOK
  <1> QED
    BY <1>1, <1>3, RequestAssumption DEF Current

-----------------------------------------------------------------------------
(* Each kind of step keeps the invariant. *)

LEMMA RollbackInv ==
  ASSUME IInv, NEW s \in Session, Rollback(s)
  PROVE  IInv'
  <1>1. TypeOK'
    BY RollbackType DEF IInv
  <1>2. qty' = qty /\ live' = live /\ booked' = booked
    BY DEF Rollback, database
  <1>3. NoLostUpdate' /\ Stocked'
    BY <1>2 DEF IInv, NoLostUpdate, Stocked
  <1>4. Aside(s)
    <2>1. \A t \in Session \ {s} : Untouched(t)
      BY DEF IInv, TypeOK, Rollback, Close, Forget, Untouched
    <2>2. \A b \in Batch : owner'[b] = IF owner[b] = s THEN Free ELSE owner[b]
      BY DEF Rollback, Close, Forget, Release
    <2> QED
      BY <1>2, <2>1, <2>2, RequestAssumption DEF Aside
  <1>5. Sound(s)'
    <2>1. pc'[s] = "failed" /\ known'[s] = {} /\ dirty'[s] = {} /\ fresh'[s] = {}
          /\ entry'[s] = Zero /\ moving'[s] = Zero
      BY DEF IInv, TypeOK, Rollback, Close, Forget
    <2>2. \A b \in Batch : owner'[b] # s
      BY RequestAssumption DEF Rollback, Close, Forget, Release
    <2> QED
      BY <2>1, <2>2 DEF Sound, Running, Waiting, Coherent, Zero
  <1> QED
    BY <1>1, <1>3, <1>4, <1>5, StepInv

LEMMA CommitInv ==
  ASSUME IInv, NEW s \in Session, Commit(s), TypeOK'
  PROVE  IInv'
  <1>1. \A b \in Batch : b \in dirty[s] => owner[b] = s
    BY DEF Commit, Flushed, IInv, TypeOK
  <1>2. \A b \in Batch : Coherent(s, b)
    BY DEF IInv
  <1>3. NoLostUpdate'
    <2> SUFFICES ASSUME NEW b \in Batch PROVE qty'[b] = booked'[b]
      BY DEF NoLostUpdate, Commit
    <2>1. qty[b] = booked[b] /\ qty[b] \in Int /\ entry[s][b] \in Int
      BY DEF IInv, NoLostUpdate, TypeOK
    <2>2. qty'[b] = (IF b \in dirty[s] THEN mem[s][b] ELSE qty[b])
          /\ booked'[b] = booked[b] + entry[s][b]
      BY DEF Commit
    <2>3. CASE b \in dirty[s]
      BY <1>1, <1>2, <2>1, <2>2, <2>3 DEF Coherent
    <2>4. CASE b \notin dirty[s]
      BY <1>2, <2>1, <2>2, <2>4 DEF Coherent
    <2> QED
      BY <2>3, <2>4
  <1>4. Stocked'
    BY <1>1, <1>2 DEF Commit, Stocked, IInv, Coherent
  <1>5. Aside(s)
    <2>1. \A t \in Session \ {s} : Untouched(t)
      BY DEF IInv, TypeOK, Commit, Close, Forget, Untouched
    <2>2. \A b \in Batch : owner'[b] = IF owner[b] = s THEN Free ELSE owner[b]
      BY DEF Commit, Close, Forget, Release
    <2>3. live' = live \cup fresh[s] /\ \A b \in Batch : b \notin dirty[s] => qty'[b] = qty[b]
      BY DEF Commit
    <2>4. \A b \in Batch : owner[b] \in Session \ {s} => b \notin dirty[s] /\ b \notin fresh[s]
      BY <1>1, <1>2 DEF Coherent
    <2> QED
      BY <2>1, <2>2, <2>3, <2>4, RequestAssumption DEF Aside
  <1>6. Sound(s)'
    <2>1. pc'[s] = "done" /\ known'[s] = {} /\ dirty'[s] = {} /\ fresh'[s] = {}
          /\ entry'[s] = Zero /\ moving'[s] = Zero
      BY DEF IInv, TypeOK, Commit, Close, Forget
    <2>2. \A b \in Batch : owner'[b] # s
      BY RequestAssumption DEF Commit, Close, Forget, Release
    <2> QED
      BY <2>1, <2>2 DEF Sound, Running, Waiting, Coherent, Zero
  <1> QED
    BY <1>3, <1>4, <1>5, <1>6, StepInv

LEMMA BeginInv ==
  ASSUME IInv, Disciplined, NEW s \in Session, Begin(s), TypeOK'
  PROVE  IInv'
  <1>1. known'[s] = {} /\ pc'[s] = "ready" /\ pc[s] = "idle"
    BY DEF Begin, Disciplined, IInv, TypeOK
  <1>2. UNCHANGED <<qty, live, booked, owner, at, scan, left, dirty, fresh, moving, entry>>
    BY DEF Begin, database
  <1>3. NoLostUpdate' /\ Stocked'
    BY <1>2 DEF IInv, NoLostUpdate, Stocked
  <1>4. Aside(s)
    BY <1>2 DEF Begin, IInv, TypeOK, Aside, Untouched
  <1>5. dirty[s] = {} /\ fresh[s] = {} /\ \A b \in Batch : owner[b] # s
    BY <1>1 DEF IInv, Waiting
  <1>6. Sound(s)'
    BY <1>1, <1>2, <1>5 DEF Sound, Running, Waiting, Coherent, IInv
  <1> QED
    BY <1>3, <1>4, <1>6, StepInv

LEMMA SelectInv ==
  ASSUME IInv, NEW s \in Session, Select(s), TypeOK'
  PROVE  IInv'
  <1>1. UNCHANGED <<qty, live, booked, owner, req, at, known, mem, dirty, fresh, moving, entry>>
    BY DEF Select, database, identity
  <1>2. NoLostUpdate' /\ Stocked'
    BY <1>1 DEF IInv, NoLostUpdate, Stocked
  <1>3. Aside(s)
    BY <1>1 DEF Select, IInv, TypeOK, Aside, Untouched
  <1>4. /\ req[s] \in Request
        /\ at[s] \in 1..Len(req[s].steps)
        /\ Current(s) \in Step
    BY CurrentType DEF Select, IInv
  <1>5. scan'[s] = {b \in Current(s).rows : Matches(s, b)} /\ pc'[s] = "scan" /\ Flushed(s)
    BY DEF Select, IInv, TypeOK
  <1>6. Current(s)' = Current(s) /\ Current(s).rows \subseteq Batch
    BY <1>1, <1>4 DEF Current, Step
  <1>7. \A b \in scan'[s] : b \in live \/ b \in fresh[s]
    BY <1>5 DEF Matches, Exists
  <1>8. Current(s).op = "receive" =>
          \A b \in Current(s).rows : b \in known[s] \/ owner[b] = s => b \in scan'[s]
    <2> SUFFICES ASSUME Current(s).op = "receive", NEW b \in Current(s).rows,
                        b \in known[s] \/ owner[b] = s
                 PROVE  b \in scan'[s]
      OBVIOUS
    <2>1. b \in Batch /\ Coherent(s, b)
      BY <1>6 DEF IInv
    <2>2. Exists(s, b)
      BY <2>1 DEF Coherent, Exists
    <2> QED
      BY <1>5, <2>2 DEF Matches
  <1>9. Running(s)'
    BY <1>1, <1>4, <1>5, <1>6, <1>7, <1>8 DEF Running, Flushed
  <1>10. Waiting(s)' /\ \A b \in Batch : Coherent(s, b)'
    BY <1>1, <1>5 DEF IInv, Waiting, Coherent
  <1> QED
    BY <1>2, <1>3, <1>9, <1>10, StepInv DEF Sound

\* What locking the next row of the running statement means for the session.
LEMMA LockFacts ==
  ASSUME IInv, NEW s \in Session, NEW b \in Batch, Lock(s, b)
  PROVE  /\ UNCHANGED <<qty, live, booked, pc, req, at>>
         /\ pc[s] = "scan" /\ b \in scan[s] /\ owner' = [owner EXCEPT ![b] = s]
         /\ owner[b] = Free \/ owner[b] = s
         /\ scan'[s] = scan[s] \ {b}
         /\ \A t \in Session \ {s} : scan'[t] = scan[t]
         /\ b \in live \/ b \in fresh[s]
         /\ owner[b] # s => b \notin known[s] /\ b \notin dirty[s] /\ b \notin fresh[s]
         /\ Value(s, b) = qty[b] + entry[s][b]
         /\ Current(s) \in Step
         /\ Current(s)' = Current(s)
  <1>1. UNCHANGED <<qty, live, booked, pc, req, at>>
    BY DEF Lock, database
  <1>2. pc[s] = "scan" /\ b \in scan[s] /\ owner' = [owner EXCEPT ![b] = s]
    BY DEF Lock, Wanted, Foremost
  <1>3. owner[b] = Free \/ owner[b] = s
    BY DEF Lock, Grantable
  <1>4. scan'[s] = scan[s] \ {b} /\ \A t \in Session \ {s} : scan'[t] = scan[t]
    BY DEF Lock, IInv, TypeOK
  <1>5. Running(s) /\ Coherent(s, b)
    BY DEF IInv
  <1>6. /\ req[s] \in Request
        /\ at[s] \in 1..Len(req[s].steps)
        /\ b \in live \/ b \in fresh[s]
        /\ Flushed(s)
    BY <1>2, <1>5 DEF Running
  <1>7. owner[b] # s => b \notin known[s] /\ b \notin dirty[s] /\ b \notin fresh[s]
    BY <1>5, <1>6 DEF Coherent, Flushed
  <1>8. Value(s, b) = qty[b] + entry[s][b]
    <2>1. qty[b] \in Int /\ entry[s][b] \in Int
      BY DEF IInv, TypeOK
    <2>2. CASE b \in known[s]
      BY <1>5, <1>7, <2>2 DEF Coherent, Value
    <2>3. CASE b \notin known[s]
      BY <1>5, <2>1, <2>3 DEF Coherent, Value
    <2> QED
      BY <2>2, <2>3
  <1>9. Current(s) \in Step
    BY <1>6, RequestAssumption DEF Current
  <1>10. Current(s)' = Current(s)
    BY <1>1 DEF Current
  <1> QED
    BY <1>1, <1>2, <1>3, <1>4, <1>6, <1>7, <1>8, <1>9, <1>10

\* The part of the step the row operations share.
LEMMA RowAside ==
  ASSUME IInv, NEW s \in Session, NEW b \in Batch, Lock(s, b),
         \A t \in Session \ {s} :
            /\ left'[t] = left[t] /\ known'[t] = known[t] /\ mem'[t] = mem[t]
            /\ dirty'[t] = dirty[t] /\ fresh'[t] = fresh[t]
            /\ moving'[t] = moving[t] /\ entry'[t] = entry[t]
  PROVE  NoLostUpdate' /\ Stocked' /\ Aside(s)
  <1>1. UNCHANGED <<qty, live, booked, pc, req, at>>
    BY LockFacts
  <1>2. NoLostUpdate' /\ Stocked'
    BY <1>1 DEF IInv, NoLostUpdate, Stocked
  <1>3. \A t \in Session \ {s} : Untouched(t)
    BY <1>1, LockFacts DEF Untouched
  <1>4. \A t \in Session \ {s} : \A c \in Batch : owner'[c] = t <=> owner[c] = t
    <2>1. /\ owner' = [owner EXCEPT ![b] = s]
          /\ owner[b] = Free \/ owner[b] = s
          /\ owner \in [Batch -> Session \cup {Free}]
      BY LockFacts DEF IInv, TypeOK
    <2> QED
      BY <2>1, RequestAssumption
  <1> QED
    BY <1>1, <1>2, <1>3, <1>4 DEF Aside

LEMMA LockOnlyInv ==
  ASSUME IInv, NEW s \in Session, NEW b \in Batch, LockOnly(s, b), TypeOK'
  PROVE  IInv'
  <1>1. Lock(s, b) /\ UNCHANGED <<left, known, mem, dirty, fresh, moving, entry>>
    BY DEF LockOnly, identity
  <1>2. NoLostUpdate' /\ Stocked' /\ Aside(s)
    BY <1>1, RowAside
  <1>3. Current(s).op # "receive"
    <2>1. Exists(s, b)
      BY <1>1, LockFacts DEF Exists
    <2> QED
      BY <2>1 DEF LockOnly, Matches
  <1>4. Running(s)'
    <2>1. Running(s) /\ pc[s] = "scan"
      BY <1>1, LockFacts DEF IInv
    <2>2. Flushed(s)'
      <3>1. /\ \A c \in dirty[s] : owner[c] = s
            /\ dirty[s] \subseteq Batch
            /\ owner \in [Batch -> Session \cup {Free}]
        BY <2>1 DEF Running, Flushed, IInv, TypeOK
      <3>2. owner' = [owner EXCEPT ![b] = s] /\ dirty' = dirty
        BY <1>1, LockFacts
      <3> QED
        BY <3>1, <3>2 DEF Flushed
    <2> QED
      BY <1>1, <1>3, <2>1, <2>2, LockFacts DEF Running
  <1>5. Waiting(s)'
    BY <1>1, LockFacts DEF Waiting
  <1>6. ASSUME NEW c \in Batch PROVE Coherent(s, c)'
    <2>1. Coherent(s, c) /\ owner \in [Batch -> Session \cup {Free}]
      BY DEF IInv, TypeOK
    <2>2. CASE c = b
      BY <1>1, <2>1, <2>2, LockFacts DEF Coherent
    <2>3. CASE c # b
      BY <1>1, <2>1, <2>3, LockFacts DEF Coherent
    <2> QED
      BY <2>2, <2>3
  <1> QED
    BY <1>2, <1>4, <1>5, <1>6, StepInv DEF Sound

\* Adding d to a row under its lock, in the entity and in the document alike.
LEMMA PostInv ==
  ASSUME IInv, NEW s \in Session, NEW b \in Batch, NEW d \in Int, TypeOK',
         Lock(s, b), Post(s, b, d), UNCHANGED fresh,
         \A t \in Session \ {s} : left'[t] = left[t] /\ moving'[t] = moving[t],
         moving'[s] = moving[s],
         Current(s).op = "receive" => ~(left'[s] > 0)
  PROVE  IInv'
  <1>1. /\ known' = [known EXCEPT ![s] = @ \cup {b}]
        /\ mem' = [mem EXCEPT ![s][b] = Value(s, b) + d]
        /\ dirty' = [dirty EXCEPT ![s] = @ \cup {b}]
        /\ entry' = [entry EXCEPT ![s][b] = @ + d]
    BY DEF Post
  <1>2. TypeOK
    BY DEF IInv
  <1>3. /\ known'[s] = known[s] \cup {b} /\ dirty'[s] = dirty[s] \cup {b}
        /\ mem'[s][b] = Value(s, b) + d /\ entry'[s][b] = entry[s][b] + d
        /\ \A c \in Batch \ {b} : mem'[s][c] = mem[s][c] /\ entry'[s][c] = entry[s][c]
    BY <1>1, <1>2 DEF TypeOK
  <1>4. NoLostUpdate' /\ Stocked' /\ Aside(s)
    <2>1. \A t \in Session \ {s} :
             /\ known'[t] = known[t] /\ mem'[t] = mem[t]
             /\ dirty'[t] = dirty[t] /\ fresh'[t] = fresh[t] /\ entry'[t] = entry[t]
      BY <1>1, <1>2 DEF TypeOK
    <2> QED
      BY <2>1, RowAside
  <1>5. Running(s)'
    <2>1. Running(s) /\ pc[s] = "scan"
      BY LockFacts DEF IInv
    <2>2. Flushed(s)'
      BY <1>2, <1>3, <2>1, LockFacts DEF Running, Flushed, TypeOK
    <2> QED
      BY <2>1, <2>2, LockFacts DEF Running
  <1>6. Waiting(s)'
    BY LockFacts DEF Waiting
  <1>7. ASSUME NEW c \in Batch PROVE Coherent(s, c)'
    <2>1. Coherent(s, c) /\ owner' = [owner EXCEPT ![b] = s]
      BY LockFacts DEF IInv
    <2>2. CASE c = b
      <3>1. owner'[b] = s /\ (b \in live \/ b \in fresh[s]) /\ live' = live /\ qty' = qty
        BY <1>2, <2>1, LockFacts DEF TypeOK
      <3>2. mem'[s][b] = qty[b] + entry'[s][b]
        <4>1. Value(s, b) = qty[b] + entry[s][b]
          BY LockFacts
        <4>2. qty[b] \in Int /\ entry[s][b] \in Int
          BY <1>2 DEF TypeOK
        <4> QED
          BY <1>3, <4>1, <4>2
      <3>3. b \in fresh[s] => b \notin live
        BY <2>1, <2>2, LockFacts DEF Coherent
      <3> QED
        BY <1>3, <2>1, <2>2, <3>1, <3>2, <3>3 DEF Coherent
    <2>3. CASE c # b
      <3>1. owner'[c] = owner[c] /\ live' = live /\ qty' = qty
        BY <1>2, <2>1, <2>3, LockFacts DEF TypeOK
      <3> QED
        BY <1>3, <2>1, <2>3, <3>1 DEF Coherent
    <2> QED
      BY <2>2, <2>3
  <1> QED
    BY <1>4, <1>5, <1>6, <1>7, StepInv DEF Sound

LEMMA TakeRowInv ==
  ASSUME IInv, Disciplined, NEW s \in Session, NEW b \in Batch, TakeRow(s, b), TypeOK'
  PROVE  IInv'
  <1> DEFINE take == Smaller(Value(s, b), left[s])
  <1>1. Lock(s, b) /\ fresh' = fresh /\ left' = [left EXCEPT ![s] = @ - take]
    BY DEF TakeRow
  <1>2. TypeOK
    BY DEF IInv
  <1>3. Current(s).op = "take"
    <2>1. req[s] \in Request /\ at[s] \in 1..Len(req[s].steps)
      BY <1>1, LockFacts DEF IInv, Running
    <2> QED
      BY <2>1 DEF TakeRow, Disciplined, Current
  <1>4. CASE left[s] > 0
    <2>1. Post(s, b, -take) /\ moving' = [moving EXCEPT ![s][b] = moving[s][b]]
      BY <1>3, <1>4 DEF TakeRow
    <2>2. -take \in Int
      BY <1>2, ValueType DEF Smaller, TypeOK
    <2>3. moving' = moving
      BY <1>2, <2>1 DEF TypeOK
    <2>4. \A t \in Session \ {s} : left'[t] = left[t]
      BY <1>1, <1>2 DEF TypeOK
    <2> HIDE DEF take
    <2> QED
      BY <1>1, <1>3, <2>1, <2>2, <2>3, <2>4, PostInv
  <1>5. CASE ~(left[s] > 0)
    <2>1. /\ known' = [known EXCEPT ![s] = @ \cup {b}]
          /\ mem' = [mem EXCEPT ![s][b] = Value(s, b)]
          /\ dirty' = dirty /\ entry' = entry /\ moving' = moving
      BY <1>5 DEF TakeRow
    <2>2. /\ known'[s] = known[s] \cup {b}
          /\ mem'[s][b] = Value(s, b)
          /\ \A c \in Batch \ {b} : mem'[s][c] = mem[s][c]
      BY <1>2, <2>1 DEF TypeOK
    <2>3. \A t \in Session \ {s} :
             left'[t] = left[t] /\ known'[t] = known[t] /\ mem'[t] = mem[t]
      BY <1>1, <1>2, <2>1 DEF TypeOK
    <2>4. NoLostUpdate' /\ Stocked' /\ Aside(s)
      BY <1>1, <2>1, <2>3, RowAside
    <2>5. Running(s)'
      <3>1. Running(s) /\ pc[s] = "scan"
        BY <1>1, LockFacts DEF IInv
      <3>2. Flushed(s)'
        BY <1>1, <1>2, <2>1, <3>1, LockFacts DEF Running, Flushed, TypeOK
      <3> QED
        BY <1>1, <1>3, <3>1, <3>2, LockFacts DEF Running
    <2>6. Waiting(s)'
      BY <1>1, LockFacts DEF Waiting
    <2>7. ASSUME NEW c \in Batch PROVE Coherent(s, c)'
      <3>1. Coherent(s, c) /\ owner' = [owner EXCEPT ![b] = s] /\ live' = live /\ qty' = qty
        BY <1>1, LockFacts DEF IInv
      <3>2. CASE c = b
        <4>1. owner'[b] = s /\ (b \in live \/ b \in fresh[s])
          BY <1>1, <1>2, <3>1, LockFacts DEF TypeOK
        <4>2. owner[b] # s => b \notin known[s] /\ b \notin dirty[s] /\ b \notin fresh[s]
          BY <1>1, LockFacts
        <4>3. mem'[s][b] = qty[b] + entry[s][b]
          BY <1>1, <2>2, LockFacts
        <4> QED
          BY <1>1, <2>1, <2>2, <3>1, <3>2, <4>1, <4>2, <4>3 DEF Coherent
      <3>3. CASE c # b
        <4>1. owner'[c] = owner[c]
          BY <1>2, <3>1, <3>3 DEF TypeOK
        <4> QED
          BY <1>1, <2>1, <2>2, <3>1, <3>3, <4>1 DEF Coherent
      <3> QED
        BY <3>2, <3>3
    <2> QED
      BY <2>4, <2>5, <2>6, <2>7, StepInv DEF Sound
  <1> QED
    BY <1>4, <1>5

LEMMA ChangeRowInv ==
  ASSUME IInv, NEW s \in Session, NEW b \in Batch, ChangeRow(s, b), TypeOK'
  PROVE  IInv'
  <1>1. /\ Lock(s, b) /\ Post(s, b, left[s])
        /\ fresh' = fresh /\ moving' = moving
        /\ left' = [left EXCEPT ![s] = 0]
    BY DEF ChangeRow
  <1>2. left[s] \in Int /\ left'[s] = 0 /\ \A t \in Session \ {s} : left'[t] = left[t]
    BY <1>1 DEF IInv, TypeOK
  <1> QED
    BY <1>1, <1>2, PostInv

\* The end of a statement changes the cursor only.
LEMMA FulfilledInv ==
  ASSUME IInv, NEW s \in Session, Fulfilled(s), TypeOK'
  PROVE  IInv'
  <1>1. UNCHANGED <<qty, live, booked, owner, req, scan, known, mem, dirty, fresh, moving, entry>>
    BY DEF Fulfilled, Advance, database, identity
  <1>2. NoLostUpdate' /\ Stocked'
    BY <1>1 DEF IInv, NoLostUpdate, Stocked
  <1>3. Aside(s)
    BY <1>1 DEF Fulfilled, Advance, IInv, TypeOK, Aside, Untouched
  <1>4. pc'[s] = "ready"
    BY DEF Fulfilled, Advance, IInv, TypeOK
  <1>5. Sound(s)'
    BY <1>1, <1>4 DEF Sound, Running, Waiting, Coherent, IInv
  <1> QED
    BY <1>2, <1>3, <1>5, StepInv

LEMMA ReceiveNewInv ==
  ASSUME IInv, NEW s \in Session, ReceiveNew(s), TypeOK'
  PROVE  IInv'
  <1>1. PICK b \in Batch : b \in Current(s).rows /\ Insert(s, b, left[s])
    BY DEF ReceiveNew
  <1>2. UNCHANGED <<qty, live, booked, owner, req, scan, moving>>
    BY DEF ReceiveNew, Advance, database
  <1>3. TypeOK /\ pc[s] = "scan" /\ scan[s] = {} /\ left[s] > 0 /\ Current(s).op = "receive"
    BY DEF ReceiveNew, Advance, IInv
  <1>4. b \notin known[s] /\ owner[b] # s
    BY <1>1, <1>3 DEF IInv, Running
  <1>5. entry[s][b] = 0
    BY <1>4 DEF IInv, Coherent
  <1>6. /\ fresh' = [fresh EXCEPT ![s] = @ \cup {b}]
        /\ known' = [known EXCEPT ![s] = @ \cup {b}]
        /\ mem' = [mem EXCEPT ![s][b] = left[s]]
        /\ dirty' = [dirty EXCEPT ![s] = @ \cup {b}]
        /\ entry' = [entry EXCEPT ![s][b] = @ + left[s]]
    BY <1>1 DEF Insert
  <1>7. /\ fresh'[s] = fresh[s] \cup {b} /\ known'[s] = known[s] \cup {b}
        /\ dirty'[s] = dirty[s] \cup {b}
        /\ mem'[s][b] = left[s] /\ entry'[s][b] = left[s]
        /\ \A c \in Batch \ {b} : mem'[s][c] = mem[s][c] /\ entry'[s][c] = entry[s][c]
    BY <1>3, <1>5, <1>6 DEF TypeOK
  <1>8. pc'[s] = "ready"
    BY <1>3 DEF ReceiveNew, Advance, TypeOK
  <1>9. Aside(s)
    <2>1. \A t \in Session \ {s} : Untouched(t)
      BY <1>2, <1>3, <1>6 DEF ReceiveNew, Advance, TypeOK, Untouched
    <2> QED
      BY <1>2, <2>1 DEF Aside
  <1>10. NoLostUpdate' /\ Stocked'
    BY <1>2 DEF IInv, NoLostUpdate, Stocked
  <1>11. ASSUME NEW c \in Batch PROVE Coherent(s, c)'
    <2>1. Coherent(s, c)
      BY DEF IInv
    <2>2. CASE c = b
      BY <1>2, <1>4, <1>7, <2>1, <2>2 DEF Coherent
    <2>3. CASE c # b
      BY <1>2, <1>7, <2>1, <2>3 DEF Coherent
    <2> QED
      BY <2>2, <2>3
  <1>12. Running(s)' /\ Waiting(s)'
    BY <1>8 DEF Running, Waiting
  <1> QED
    BY <1>9, <1>10, <1>11, <1>12, StepInv DEF Sound

LEMMA FlushInv ==
  ASSUME IInv, NEW s \in Session, Flush(s), TypeOK'
  PROVE  IInv'
  <1>1. PICK b \in Wanted(s) : /\ Grantable(s, b)
                               /\ ~(b \in fresh[s] /\ b \in live)
                               /\ owner' = [owner EXCEPT ![b] = s]
    BY DEF Flush
  <1>2. TypeOK /\ pc[s] = "ready"
    BY DEF Flush, IInv
  <1>3. b \in Batch /\ b \in dirty[s] /\ owner[b] = Free
    BY <1>1, <1>2 DEF Wanted, Foremost, Unflushed, Grantable, TypeOK
  <1>4. UNCHANGED <<qty, live, booked, pc, req, at, scan, left, known, mem, dirty, fresh, moving, entry>>
    BY DEF Flush, database, cursor, identity
  <1>5. NoLostUpdate' /\ Stocked'
    BY <1>4 DEF IInv, NoLostUpdate, Stocked
  <1>6. Aside(s)
    <2>1. \A t \in Session \ {s} : \A c \in Batch : owner'[c] = t <=> owner[c] = t
      <3>1. owner \in [Batch -> Session \cup {Free}]
        BY <1>2 DEF TypeOK
      <3> QED
        BY <1>1, <1>3, <3>1, RequestAssumption
    <2> QED
      BY <1>4, <2>1 DEF Aside, Untouched
  <1>7. Running(s)' /\ Waiting(s)'
    BY <1>2, <1>4 DEF Running, Waiting
  <1>8. ASSUME NEW c \in Batch PROVE Coherent(s, c)'
    <2>1. Coherent(s, c)
      BY DEF IInv
    <2>2. CASE c = b
      <3>1. owner'[b] = s /\ b \in known[s] /\ b \in fresh[s] /\ b \notin live
        BY <1>1, <1>2, <1>3, <2>1, <2>2, RequestAssumption DEF Coherent, TypeOK
      <3>2. qty[b] = 0 /\ mem[s][b] = entry[s][b] /\ entry[s][b] \in Int
        BY <1>2, <1>3, <2>1, <2>2, <3>1, RequestAssumption DEF Coherent, IInv, Stocked, TypeOK
      <3> QED
        BY <1>3, <1>4, <2>1, <2>2, <3>1, <3>2 DEF Coherent
    <2>3. CASE c # b
      BY <1>1, <1>2, <1>4, <2>1, <2>3 DEF Coherent, TypeOK
    <2> QED
      BY <2>2, <2>3
  <1> QED
    BY <1>5, <1>6, <1>7, <1>8, StepInv DEF Sound

LEMMA WorkInv ==
  ASSUME IInv, Disciplined, NEW s \in Session, Work(s)
  PROVE  IInv'
  <1>1. TypeOK /\ TypeOK'
    BY WorkType DEF IInv
  <1>2. ~PutAway(s)
    <2>1. \A b \in Batch : moving[s][b] = 0
      BY DEF IInv, Coherent
    <2> QED
      BY <2>1 DEF PutAway, NextMove, Foremost
  <1>3. CASE \E b \in Batch : LockOnly(s, b) \/ TakeRow(s, b) \/ ChangeRow(s, b) \/ RefuseRow(s, b)
    BY <1>1, <1>3, LockOnlyInv, TakeRowInv, ChangeRowInv, RollbackInv DEF RefuseRow
  <1>4. CASE Select(s) \/ Fulfilled(s) \/ ReceiveNew(s) \/ Flush(s) \/ Commit(s)
    BY <1>1, <1>4, SelectInv, FulfilledInv, ReceiveNewInv, FlushInv, CommitInv
  <1>5. CASE Short(s) \/ Conflict(s) \/ DeadlockAbort(s)
    BY <1>5, RollbackInv DEF Short, Conflict, DeadlockAbort
  <1> QED
    BY <1>2, <1>3, <1>4, <1>5 DEF Work

LEMMA InvNext == Disciplined /\ IInv /\ [Next]_vars => IInv'
  <1> SUFFICES ASSUME Disciplined, IInv, [Next]_vars PROVE IInv'
    OBVIOUS
  <1>1. TypeOK'
    BY TypeNext DEF IInv
  <1>2. ASSUME NEW s \in Session, Begin(s) PROVE IInv'
    BY <1>1, <1>2, BeginInv
  <1>3. ASSUME NEW s \in Session, Work(s) PROVE IInv'
    BY <1>3, WorkInv
  <1>4. ASSUME NEW s \in Session, Fail(s) PROVE IInv'
    BY <1>4, RollbackInv DEF Fail
  <1>5. CASE UNCHANGED vars
    <2>1. UNCHANGED <<qty, live, booked, owner, pc, req, at, scan, left,
                      known, mem, dirty, fresh, moving, entry>>
      BY <1>5 DEF vars, database, cursor, identity
    <2> QED
      BY <1>1, <2>1 DEF IInv, NoLostUpdate, Stocked, Running, Waiting, Coherent,
                        Flushed, Current
  <1> QED
    BY <1>2, <1>3, <1>4, <1>5 DEF Next, Terminating

\* As long as no request is a transfer or a cancelled write-off, every batch
\* holds exactly what the committed documents say, in every interleaving of any
\* number of sales, returns, receipts, counts and corrections.
THEOREM NothingLost ==
  ASSUME Disciplined
  PROVE  Spec => []NoLostUpdate
  <1>1. IInv /\ [Next]_vars => IInv'
    BY Disciplined, InvNext
  <1>2. IInv => NoLostUpdate
    BY DEF IInv
  <1> QED
    BY InvInit, <1>1, <1>2, PTL DEF Spec

-----------------------------------------------------------------------------
(***************************************************************************)
(* Requests that take goods away: invoices, whose lock pass comes before   *)
(* their lines, and write-offs, which lock what they take.  They lock the  *)
(* rows in one order, that of place (by shelf, then by id), and a line is  *)
(* filled from rows the pass has been over.  Nobody restocks a shelf: a    *)
(* row the pass skipped because it was empty stays empty.                  *)
(***************************************************************************)

LocksFirst(r) ==
    \A i \in 1..Len(r.steps) : r.steps[i].op = "take" =>
        /\ \A j \in 1..Len(r.steps) : r.steps[j].op = "lock" => j < i
        /\ \A b \in r.steps[i].rows :
              \E j \in 1..Len(r.steps) : r.steps[j].op = "lock" /\ b \in r.steps[j].rows
        /\ \A j \in 1..Len(r.steps) : r.steps[j].op = "take" =>
              \A b \in r.steps[i].rows : b \in r.steps[j].rows => r.steps[j].rows = r.steps[i].rows

LocksUpward(place, r) ==
    \A i, j \in 1..Len(r.steps) : r.steps[i].op # "take" /\ r.steps[j].op # "take" =>
        \A b \in r.steps[i].rows, c \in r.steps[j].rows :
            i < j \/ (i = j /\ b < c) => place[b] < place[c]

TakesAway(place) ==
    \A r \in Request :
        /\ r.preload = {}
        /\ \/ \A i \in 1..Len(r.steps) : r.steps[i].op \in {"lock", "take"}
           \/ \A i \in 1..Len(r.steps) : r.steps[i].op = "change" /\ r.steps[i].n <= 0
        /\ LocksFirst(r)
        /\ LocksUpward(place, r)

\* A statement that goes over rows in the order of their ids.
Passes(s, i) == i \in 1..Len(req[s].steps) /\ req[s].steps[i].op # "take"

\* The session locked row b in an earlier pass, or in this one before what is left.
Earned(place, s, b) ==
    \E i \in 1..at[s] :
        /\ Passes(s, i) /\ b \in req[s].steps[i].rows
        /\ i = at[s] => /\ pc[s] = "scan"
                        /\ \A c \in scan[s] : place[b] < place[c]

\* What a session that takes goods away holds, and what it has left empty.
Holds(place, s) ==
    /\ req[s] \in Request
    /\ fresh[s] = {}
    /\ \A b \in Batch : entry[s][b] <= 0
    /\ \A b \in Batch : entry[s][b] < 0 =>
          \E i \in 1..at[s] : i \in 1..Len(req[s].steps) /\ req[s].steps[i].op # "lock"
    /\ \A b \in Batch : owner[b] = s => Earned(place, s, b)
    /\ \A i \in 1..Len(req[s].steps) : i < at[s] /\ req[s].steps[i].op = "lock" =>
          \A b \in req[s].steps[i].rows : owner[b] = s \/ qty[b] = 0

Passing(s) ==
    /\ scan[s] \subseteq Current(s).rows
    /\ Current(s).op = "lock" =>
          \A b \in Current(s).rows : b \in scan[s] \/ owner[b] = s \/ qty[b] = 0
    /\ Current(s).op = "take" => \A b \in scan[s] : owner[b] = s
    /\ Current(s).op = "change" => left[s] <= 0

\* First expired, first out, of one session; and while a line is being filled,
\* what the session has been over and holds is used up.
UsedUp(s) ==
    \A i \in 1..Len(req[s].steps) : req[s].steps[i].op = "take" =>
        \A b, c \in req[s].steps[i].rows :
            ExpiresBefore(b, c) /\ Expiry[b] > Today /\ entry[s][c] < 0 /\ owner[b] = s
            => Stored(s, b) = 0

Filling(s) ==
    Current(s).op = "take" /\ left[s] > 0 =>
        \A b \in Current(s).rows :
            Expiry[b] > Today /\ owner[b] = s /\ b \notin scan[s] => Stored(s, b) = 0

Orderly(place, s) ==
    /\ pc[s] = "idle" => at[s] = 1
    /\ Active(s) => Holds(place, s) /\ UsedUp(s)
    /\ pc[s] = "scan" => Passing(s) /\ Filling(s)

LEMMA TakesOnly ==
  ASSUME NEW place, TakesAway(place)
  PROVE  Disciplined
  BY DEF TakesAway, Disciplined

\* Nothing a session that takes goods away has changed waits to be flushed.
LEMMA DirtyHeld ==
  ASSUME IInv, NEW s \in Session, fresh[s] = {}
  PROVE  /\ \A b \in dirty[s] : b \in Batch /\ owner[b] = s
         /\ Unflushed(s) = {}
         /\ \A b \in Batch : Stored(s, b) \in Nat
         /\ \A b \in Batch : owner[b] = s \/ Stored(s, b) = qty[b]
  <1>1. TypeOK /\ dirty[s] \subseteq Batch /\ \A b \in Batch : Coherent(s, b)
    BY DEF IInv, TypeOK
  <1>2. \A b \in dirty[s] : b \in Batch /\ owner[b] = s
    BY <1>1 DEF Coherent
  <1> QED
    BY <1>1, <1>2 DEF Unflushed, Stored, TypeOK

LEMMA OrderFacts ==
  ASSUME IInv, NEW place, NEW s \in Session, Orderly(place, s), pc[s] = "scan"
  PROVE  /\ Holds(place, s) /\ UsedUp(s) /\ Passing(s) /\ Filling(s)
         /\ at[s] \in 1..Len(req[s].steps) /\ Len(req[s].steps) \in Nat
         /\ Current(s) = req[s].steps[at[s]] /\ Current(s) \in Step
  <1>1. at[s] \in 1..Len(req[s].steps) /\ req[s] \in Request
    BY DEF IInv, Running
  <1>2. Current(s) \in Step /\ Len(req[s].steps) \in Nat
    BY <1>1, RequestAssumption DEF Current
  <1> QED
    BY <1>1, <1>2 DEF Orderly, Active, Current

LEMMA StepRows ==
  \A r \in Request : \A i \in 1..Len(r.steps) :
     r.steps[i] \in Step /\ r.steps[i].rows \subseteq Batch
  <1>1. \A r \in Request : \A i \in 1..Len(r.steps) : r.steps[i] \in Step
    BY RequestAssumption
  <1> QED
    BY <1>1 DEF Step

\* The steps such a request never takes.
LEMMA NeverTaken ==
  ASSUME IInv, NEW place, TakesAway(place), NEW s \in Session, Orderly(place, s)
  PROVE  ~ReceiveNew(s) /\ ~PutAway(s) /\ ~Flush(s) /\ ~Conflict(s)
  <1>1. ~PutAway(s)
    <2>1. \A b \in Batch : moving[s][b] = 0
      BY DEF IInv, Coherent
    <2> QED
      BY <2>1 DEF PutAway, NextMove, Foremost
  <1>2. ~ReceiveNew(s)
    <2> SUFFICES ASSUME ReceiveNew(s) PROVE FALSE
      OBVIOUS
    <2>1. pc[s] = "scan" /\ Current(s).op = "receive"
      BY DEF ReceiveNew, Advance
    <2>2. req[s] \in Request /\ at[s] \in 1..Len(req[s].steps)
      BY <2>1 DEF IInv, Running
    <2> QED
      BY <2>1, <2>2 DEF TakesAway, Current
  <1>3. pc[s] = "ready" => Wanted(s) = {}
    BY DirtyHeld DEF Orderly, Active, Holds, Wanted
  <1> QED
    BY <1>1, <1>2, <1>3 DEF Flush, Conflict

-----------------------------------------------------------------------------
(* The other sessions. *)

\* A step of s leaves the others alone, and what is empty stays empty.
Apart(s) ==
    /\ Aside(s)
    /\ \A b \in Batch : qty[b] = 0 => qty'[b] = 0

LEMMA EndApart ==
  ASSUME IInv, NEW s \in Session, Rollback(s)
  PROVE  Apart(s)
  <1>1. \A t \in Session \ {s} : Untouched(t)
    BY DEF IInv, TypeOK, Rollback, Close, Forget, Untouched
  <1>2. \A b \in Batch : owner'[b] = IF owner[b] = s THEN Free ELSE owner[b]
    BY DEF Rollback, Close, Forget, Release
  <1>3. qty' = qty /\ live' = live
    BY DEF Rollback, database
  <1> QED
    BY <1>1, <1>2, <1>3, RequestAssumption DEF Aside, Apart

LEMMA CommitApart ==
  ASSUME IInv, NEW place, TakesAway(place), NEW s \in Session, Orderly(place, s), Commit(s)
  PROVE  Apart(s)
  <1>1. fresh[s] = {} /\ \A b \in Batch : entry[s][b] <= 0
    BY DEF Commit, Orderly, Active, Holds
  <1>2. \A b \in dirty[s] : b \in Batch /\ owner[b] = s
    BY <1>1, DirtyHeld
  <1>3. \A b \in Batch : Coherent(s, b)
    BY DEF IInv
  <1>4. \A t \in Session \ {s} : Untouched(t)
    BY DEF IInv, TypeOK, Commit, Close, Forget, Untouched
  <1>5. \A b \in Batch : owner'[b] = IF owner[b] = s THEN Free ELSE owner[b]
    BY DEF Commit, Close, Forget, Release
  <1>6. /\ live' = live
        /\ \A b \in Batch : qty'[b] = IF b \in dirty[s] THEN mem[s][b] ELSE qty[b]
    BY <1>1 DEF Commit
  <1>7. ASSUME NEW b \in Batch, qty[b] = 0 PROVE qty'[b] = 0
    <2>1. mem[s][b] \in Nat /\ entry[s][b] \in Int
      BY DEF IInv, TypeOK
    <2>2. b \in dirty[s] => mem[s][b] = qty[b] + entry[s][b]
      BY <1>2, <1>3 DEF Coherent
    <2> QED
      BY <1>1, <1>6, <1>7, <2>1, <2>2
  <1> QED
    BY <1>2, <1>4, <1>5, <1>6, <1>7, RequestAssumption DEF Aside, Apart

LEMMA RowApart ==
  ASSUME IInv, NEW s \in Session, NEW b \in Batch,
         LockOnly(s, b) \/ TakeRow(s, b) \/ ChangeRow(s, b)
  PROVE  Apart(s)
  <1>1. Lock(s, b) /\ UNCHANGED qty
    BY DEF LockOnly, TakeRow, ChangeRow, Lock, database
  <1>2. \A t \in Session \ {s} :
           /\ left'[t] = left[t] /\ known'[t] = known[t] /\ mem'[t] = mem[t]
           /\ dirty'[t] = dirty[t] /\ fresh'[t] = fresh[t]
           /\ moving'[t] = moving[t] /\ entry'[t] = entry[t]
    BY DEF LockOnly, TakeRow, ChangeRow, Post, identity, IInv, TypeOK
  <1>3. Aside(s)
    BY <1>1, <1>2, RowAside
  <1> QED
    BY <1>1, <1>3 DEF Apart

LEMMA CursorApart ==
  ASSUME IInv, NEW s \in Session, Begin(s) \/ Select(s) \/ Fulfilled(s)
  PROVE  Apart(s)
  <1>1. UNCHANGED <<qty, live, owner>>
    BY DEF Begin, Select, Fulfilled, Advance, database
  <1>2. \A t \in Session \ {s} : Untouched(t)
    BY DEF Begin, Select, Fulfilled, Advance, identity, IInv, TypeOK, Untouched
  <1> QED
    BY <1>1, <1>2 DEF Aside, Apart

LEMMA OthersOrderly ==
  ASSUME IInv, NEW place, NEW s \in Session, Apart(s), NEW t \in Session \ {s},
         Orderly(place, t)
  PROVE  Orderly(place, t)'
  <1>1. /\ pc'[t] = pc[t] /\ req'[t] = req[t] /\ at'[t] = at[t]
        /\ scan'[t] = scan[t] /\ left'[t] = left[t] /\ mem'[t] = mem[t]
        /\ dirty'[t] = dirty[t] /\ fresh'[t] = fresh[t] /\ entry'[t] = entry[t]
    BY DEF Apart, Aside, Untouched
  <1>2. /\ \A b \in Batch : owner'[b] = t <=> owner[b] = t
        /\ \A b \in Batch : owner[b] = t => qty'[b] = qty[b]
        /\ \A b \in Batch : qty[b] = 0 => qty'[b] = 0
    BY DEF Apart, Aside
  <1>3. \A b \in Batch : owner[b] = t => Stored(t, b)' = Stored(t, b)
    BY <1>1, <1>2 DEF Stored
  <1>5. \A r \in Request : \A i \in 1..Len(r.steps) : r.steps[i].rows \subseteq Batch
    BY StepRows
  <1>6. ASSUME Holds(place, t) PROVE Holds(place, t)'
    BY <1>1, <1>2, <1>5, <1>6 DEF Holds, Earned, Passes
  <1>7. ASSUME Holds(place, t), UsedUp(t) PROVE UsedUp(t)'
    BY <1>1, <1>2, <1>3, <1>5, <1>7 DEF Holds, UsedUp
  <1>8. ASSUME pc[t] = "scan", Passing(t), Filling(t) PROVE Passing(t)' /\ Filling(t)'
    <2>1. Current(t)' = Current(t)
      BY <1>1 DEF Current
    <2>2. Current(t).rows \subseteq Batch
      BY <1>5, <1>8 DEF IInv, Running, Current
    <2>3. Passing(t)'
      BY <1>1, <1>2, <1>8, <2>1, <2>2 DEF Passing
    <2>4. Filling(t)'
      BY <1>1, <1>2, <1>3, <1>8, <2>1, <2>2 DEF Filling
    <2> QED
      BY <2>3, <2>4
  <1> QED
    BY <1>1, <1>6, <1>7, <1>8 DEF Orderly, Active

-----------------------------------------------------------------------------
(* The session itself. *)

LEMMA EndOrderly ==
  ASSUME TypeOK, NEW place, NEW s \in Session, Rollback(s) \/ Commit(s)
  PROVE  Orderly(place, s)'
  <1>1. pc'[s] \in {"done", "failed"}
    BY DEF Rollback, Commit, Close, Forget, TypeOK
  <1> QED
    BY <1>1 DEF Orderly, Active

LEMMA BeginOrderly ==
  ASSUME IInv, NEW place, NEW s \in Session, Orderly(place, s), Begin(s)
  PROVE  Orderly(place, s)'
  <1>1. PICK r \in Request : req' = [req EXCEPT ![s] = r]
    BY DEF Begin
  <1>2. /\ req'[s] \in Request /\ pc'[s] = "ready" /\ pc[s] = "idle"
        /\ UNCHANGED <<qty, owner, at, fresh, dirty, entry>>
    BY <1>1 DEF Begin, database, IInv, TypeOK
  <1>3. at[s] = 1 /\ fresh[s] = {} /\ dirty[s] = {} /\ \A b \in Batch : owner[b] # s
    BY <1>2 DEF Orderly, IInv, Waiting
  <1>4. \A b \in Batch : entry[s][b] = 0
    BY <1>3 DEF IInv, Coherent
  <1>5. Holds(place, s)'
    BY <1>2, <1>3, <1>4 DEF Holds
  <1>6. UsedUp(s)'
    <2>1. \A i \in 1..Len(req'[s].steps) : req'[s].steps[i].rows \subseteq Batch
      BY <1>2, StepRows
    <2> QED
      BY <1>2, <1>4, <2>1 DEF UsedUp
  <1> QED
    BY <1>2, <1>5, <1>6 DEF Orderly

LEMMA SelectOrderly ==
  ASSUME IInv, NEW place, TakesAway(place), NEW s \in Session, Orderly(place, s), Select(s)
  PROVE  Orderly(place, s)'
  <1>1. UNCHANGED <<qty, live, owner, req, at, mem, dirty, fresh, entry>>
    BY DEF Select, database, identity
  <1>2. /\ req[s] \in Request
        /\ at[s] \in 1..Len(req[s].steps)
        /\ Current(s) \in Step
    BY CurrentType DEF Select, IInv
  <1>3. /\ pc[s] = "ready" /\ pc'[s] = "scan" /\ left'[s] = Current(s).n
        /\ scan'[s] = {b \in Current(s).rows : Matches(s, b)}
    BY DEF Select, IInv, TypeOK
  <1>4. Current(s)' = Current(s) /\ Current(s) = req[s].steps[at[s]] /\ Current(s).rows \subseteq Batch
    BY <1>1, <1>2 DEF Current, Step
  <1>5. Holds(place, s) /\ UsedUp(s)
    BY <1>3 DEF Orderly, Active
  <1>6. /\ fresh[s] = {}
        /\ \A b \in Batch : Stored(s, b) \in Nat
        /\ \A b \in Batch : owner[b] = s \/ Stored(s, b) = qty[b]
    BY <1>5, DirtyHeld DEF Holds
  <1>7. \A b \in Batch : Stored(s, b)' = Stored(s, b)
    BY <1>1 DEF Stored
  <1>8. Holds(place, s)'
    BY <1>1, <1>3, <1>5 DEF Holds, Earned, Passes
  <1>9. UsedUp(s)'
    <2>1. \A i \in 1..Len(req[s].steps) : req[s].steps[i].rows \subseteq Batch
      BY <1>2, StepRows
    <2> QED
      BY <1>1, <1>5, <1>7, <2>1 DEF UsedUp
  <1>10. Passing(s)'
    <2>1. ASSUME Current(s).op = "lock", NEW b \in Current(s).rows
          PROVE  b \in scan'[s] \/ owner[b] = s \/ qty[b] = 0
      <3>1. Exists(s, b) /\ Stored(s, b) > 0 => b \in scan'[s]
        BY <1>3, <2>1 DEF Matches
      <3>2. ~Exists(s, b) => qty[b] = 0
        BY <1>4 DEF Exists, IInv, Stocked
      <3>3. b \in Batch /\ Stored(s, b) \in Nat /\ (owner[b] = s \/ Stored(s, b) = qty[b])
        BY <1>4, <1>6
      <3> QED
        BY <3>1, <3>2, <3>3
    <2>2. ASSUME Current(s).op = "take", NEW b \in scan'[s]
          PROVE  owner[b] = s
      <3>1. b \in Current(s).rows /\ Stored(s, b) > 0 /\ b \in Batch
        BY <1>3, <1>4, <2>2 DEF Matches, Sellable
      <3>2. LocksFirst(req[s])
        BY <1>2 DEF TakesAway
      <3>3. PICK j \in 1..Len(req[s].steps) :
               req[s].steps[j].op = "lock" /\ b \in req[s].steps[j].rows /\ j < at[s]
        BY <1>2, <1>4, <2>2, <3>1, <3>2 DEF LocksFirst
      <3>4. owner[b] = s \/ qty[b] = 0
        BY <1>5, <3>3 DEF Holds
      <3> QED
        BY <1>6, <3>1, <3>4
    <2>3. Current(s).op = "change" => left'[s] <= 0
      BY <1>2, <1>3, <1>4 DEF TakesAway
    <2>4. scan'[s] \subseteq Current(s).rows
      BY <1>3
    <2> QED
      BY <1>1, <1>4, <2>1, <2>2, <2>3, <2>4 DEF Passing
  <1>11. Filling(s)'
    <2> SUFFICES ASSUME Current(s).op = "take", NEW b \in Current(s).rows,
                        Expiry[b] > Today, owner[b] = s, b \notin scan'[s]
                 PROVE  Stored(s, b) = 0
      BY <1>1, <1>4, <1>7 DEF Filling
    <2>1. b \in Batch /\ Exists(s, b)
      BY <1>4 DEF IInv, Coherent, Exists
    <2>2. ~(Stored(s, b) > 0)
      BY <1>3, <2>1 DEF Matches, Sellable
    <2> QED
      BY <1>6, <2>1, <2>2
  <1> QED
    BY <1>3, <1>8, <1>9, <1>10, <1>11 DEF Orderly

\* Locking the next row of a running statement, whatever becomes of its entity.
LEMMA RowHolds ==
  ASSUME IInv, NEW place, TakesAway(place), NEW s \in Session, Orderly(place, s),
         NEW b \in Batch, Lock(s, b), fresh' = fresh,
         \A c \in Batch : entry'[s][c] <= 0,
         \A c \in Batch : entry'[s][c] < 0 => entry[s][c] < 0 \/ Current(s).op # "lock",
         Current(s).op = "change" => left'[s] <= 0
  PROVE  Holds(place, s)' /\ Passing(s)'
  <1>1. /\ UNCHANGED <<qty, live, pc, req, at>>
        /\ pc[s] = "scan" /\ b \in scan[s] /\ owner' = [owner EXCEPT ![b] = s]
        /\ scan'[s] = scan[s] \ {b}
        /\ Current(s)' = Current(s)
    BY LockFacts
  <1>2. /\ Holds(place, s) /\ Passing(s)
        /\ at[s] \in 1..Len(req[s].steps) /\ Len(req[s].steps) \in Nat
        /\ Current(s) = req[s].steps[at[s]] /\ req[s] \in Request
    BY <1>1, OrderFacts DEF Holds
  <1>3. owner'[b] = s /\ \A c \in Batch : c # b => owner'[c] = owner[c]
    BY <1>1 DEF IInv, TypeOK
  <1>4. \A i \in 1..Len(req[s].steps) : req[s].steps[i].rows \subseteq Batch
    BY <1>2, StepRows
  <1>5. b \in Foremost(Current(s).op, scan[s])
    BY <1>1 DEF Lock, Wanted
  <1>6. Earned(place, s, b)'
    <2>1. CASE Current(s).op = "take"
      <3>1. Earned(place, s, b)
        BY <1>1, <1>2, <2>1 DEF Passing, Holds
      <3> QED
        BY <1>1, <1>2, <2>1, <3>1 DEF Earned, Passes
    <2>2. CASE Current(s).op # "take"
      <3>1. \A c \in scan'[s] : place[b] < place[c]
        <4> SUFFICES ASSUME NEW c \in scan'[s] PROVE place[b] < place[c]
          OBVIOUS
        <4>1. b < c
          <5>1. Precedes(Current(s).op, b, c)
            BY <1>1, <1>5 DEF Foremost
          <5>2. Current(s).op # "move"
            BY <1>2 DEF TakesAway
          <5> QED
            BY <2>2, <5>1, <5>2 DEF Precedes
        <4>2. b \in Current(s).rows /\ c \in Current(s).rows
          BY <1>1, <1>2 DEF Passing
        <4>3. LocksUpward(place, req[s])
          BY <1>2 DEF TakesAway
        <4> QED
          BY <1>2, <2>2, <4>1, <4>2, <4>3 DEF LocksUpward
      <3>2. Passes(s, at[s]) /\ b \in Current(s).rows
        BY <1>1, <1>2, <2>2 DEF Passing, Passes
      <3>3. Passes(s, at[s])' /\ b \in req'[s].steps[at'[s]].rows /\ at'[s] \in 1..at'[s]
        BY <1>1, <1>2, <3>2 DEF Passes
      <3> QED
        BY <1>1, <3>1, <3>3 DEF Earned
    <2> QED
      BY <2>1, <2>2
  <1>7. ASSUME NEW c \in Batch, owner'[c] = s PROVE Earned(place, s, c)'
    <2>1. CASE c = b
      BY <1>6, <2>1
    <2>2. CASE c # b
      <3>1. Earned(place, s, c)
        BY <1>2, <1>3, <1>7, <2>2 DEF Holds
      <3> QED
        BY <1>1, <3>1 DEF Earned, Passes
    <2> QED
      BY <2>1, <2>2
  <1>8. Holds(place, s)'
    <2>1. \A c \in Batch : entry'[s][c] < 0 =>
             \E i \in 1..at[s] : i \in 1..Len(req[s].steps) /\ req[s].steps[i].op # "lock"
      <3>1. at[s] \in 1..at[s]
        BY <1>2
      <3> QED
        BY <1>2, <3>1 DEF Holds
    <2>2. \A i \in 1..Len(req[s].steps) : i < at[s] /\ req[s].steps[i].op = "lock" =>
             \A c \in req[s].steps[i].rows : owner'[c] = s \/ qty[c] = 0
      BY <1>2, <1>3, <1>4 DEF Holds
    <2>3. req[s] \in Request /\ fresh[s] = {}
      BY <1>2 DEF Holds
    <2> QED
      BY <1>1, <1>7, <2>1, <2>2, <2>3 DEF Holds
  <1>9. Passing(s)'
    <2>1. scan'[s] \subseteq Current(s).rows /\ Current(s).rows \subseteq Batch
      BY <1>1, <1>2, <1>4 DEF Passing
    <2> QED
      BY <1>1, <1>2, <1>3, <2>1 DEF Passing
  <1> QED
    BY <1>8, <1>9

\* First expired, first out has nothing to say before the first line, nor of a
\* request without lines.
LEMMA NoneTaken ==
  ASSUME IInv, NEW place, TakesAway(place), NEW s \in Session, Holds(place, s),
         at[s] \in 1..Len(req[s].steps), Len(req[s].steps) \in Nat,
         req[s].steps[at[s]].op # "take"
  PROVE  \A i \in 1..Len(req[s].steps) : req[s].steps[i].op = "take" =>
            \A c \in req[s].steps[i].rows : entry[s][c] >= 0
  <1> SUFFICES ASSUME NEW i \in 1..Len(req[s].steps), req[s].steps[i].op = "take",
                      NEW c \in req[s].steps[i].rows
               PROVE  entry[s][c] >= 0
    OBVIOUS
  <1>1. req[s] \in Request /\ c \in Batch /\ entry[s][c] \in Int
    BY StepRows DEF Holds, IInv, TypeOK
  <1>2. LocksFirst(req[s]) /\ \A k \in 1..Len(req[s].steps) : req[s].steps[k].op \in {"lock", "take"}
    BY <1>1 DEF TakesAway
  <1>3. ASSUME entry[s][c] < 0 PROVE FALSE
    <2>1. PICK k \in 1..at[s] : k \in 1..Len(req[s].steps) /\ req[s].steps[k].op # "lock"
      BY <1>1, <1>3 DEF Holds
    <2>2. at[s] < k
      BY <1>2, <2>1 DEF LocksFirst
    <2> QED
      BY <2>1, <2>2
  <1> QED
    BY <1>1, <1>3

LEMMA LockOnlyOrderly ==
  ASSUME IInv, TypeOK', NEW place, TakesAway(place), NEW s \in Session, Orderly(place, s),
         NEW b \in Batch, LockOnly(s, b)
  PROVE  Orderly(place, s)'
  <1>1. Lock(s, b) /\ UNCHANGED <<left, known, mem, dirty, fresh, moving, entry>>
    BY DEF LockOnly, identity
  <1>2. /\ UNCHANGED <<qty, live, pc, req, at>>
        /\ pc[s] = "scan" /\ b \in scan[s] /\ owner' = [owner EXCEPT ![b] = s]
        /\ scan'[s] = scan[s] \ {b}
        /\ Current(s)' = Current(s)
        /\ b \in live \/ b \in fresh[s]
    BY <1>1, LockFacts
  <1>3. /\ Holds(place, s) /\ UsedUp(s) /\ Passing(s) /\ Filling(s)
        /\ at[s] \in 1..Len(req[s].steps) /\ Len(req[s].steps) \in Nat
        /\ Current(s) = req[s].steps[at[s]]
    BY <1>2, OrderFacts
  <1>4. Holds(place, s)' /\ Passing(s)'
    BY <1>1, <1>3, RowHolds DEF Holds, Passing
  <1>5. \A c \in Batch : Stored(s, c)' = Stored(s, c) /\ Stored(s, c) \in Nat
    BY <1>1, <1>2, <1>3, DirtyHeld DEF Stored, Holds
  <1>6. \A i \in 1..Len(req[s].steps) : req[s].steps[i].rows \subseteq Batch
    BY <1>3, StepRows DEF Holds
  <1>7. CASE Current(s).op = "take"
    <2>1. owner' = owner
      BY <1>2, <1>3, <1>7 DEF Passing, IInv, TypeOK
    <2>2. UsedUp(s)'
      BY <1>1, <1>2, <1>3, <1>5, <1>6, <2>1 DEF UsedUp
    <2>3. ~Sellable(s, b)
      BY <1>2, <1>7 DEF LockOnly, Matches, Exists
    <2>4. Expiry[b] > Today => Stored(s, b) = 0
      BY <1>5, <2>3 DEF Sellable
    <2>5. Filling(s)'
      BY <1>1, <1>2, <1>3, <1>5, <1>6, <2>1, <2>4 DEF Filling
    <2> QED
      BY <1>2, <1>4, <2>2, <2>5 DEF Orderly
  <1>8. CASE Current(s).op # "take"
    <2>1. \A i \in 1..Len(req[s].steps) : req[s].steps[i].op = "take" =>
             \A c \in req[s].steps[i].rows : entry[s][c] >= 0 /\ entry[s][c] \in Int
      <3>1. \A i \in 1..Len(req[s].steps) : req[s].steps[i].op = "take" =>
               \A c \in req[s].steps[i].rows : entry[s][c] >= 0
        BY <1>3, <1>8, NoneTaken
      <3>2. \A c \in Batch : entry[s][c] \in Int
        BY DEF IInv, TypeOK
      <3> QED
        BY <1>6, <3>1, <3>2
    <2>2. UsedUp(s)'
      BY <1>1, <1>2, <2>1 DEF UsedUp
    <2>3. Filling(s)'
      BY <1>2, <1>8 DEF Filling
    <2> QED
      BY <1>2, <1>4, <2>2, <2>3 DEF Orderly
  <1> QED
    BY <1>7, <1>8

LEMMA ChangeRowOrderly ==
  ASSUME IInv, TypeOK', NEW place, TakesAway(place), NEW s \in Session, Orderly(place, s),
         NEW b \in Batch, ChangeRow(s, b)
  PROVE  Orderly(place, s)'
  <1>1. /\ Lock(s, b) /\ Post(s, b, left[s]) /\ fresh' = fresh
        /\ left' = [left EXCEPT ![s] = 0] /\ Current(s).op \in {"change", "receive"}
    BY DEF ChangeRow
  <1>2. /\ UNCHANGED <<pc, req, at>>
        /\ pc[s] = "scan" /\ Current(s)' = Current(s)
    BY <1>1, LockFacts
  <1>3. /\ Holds(place, s) /\ Passing(s) /\ req[s] \in Request
        /\ at[s] \in 1..Len(req[s].steps)
        /\ Current(s) = req[s].steps[at[s]]
    BY <1>2, OrderFacts DEF Holds
  <1>4. /\ Current(s).op = "change"
        /\ \A i \in 1..Len(req[s].steps) : req[s].steps[i].op = "change"
    BY <1>1, <1>3 DEF TakesAway
  <1>5. left[s] \in Int /\ left[s] <= 0 /\ left'[s] = 0
    BY <1>1, <1>3, <1>4 DEF Passing, IInv, TypeOK
  <1>6. \A c \in Batch : entry'[s][c] <= 0
    <2>1. entry' = [entry EXCEPT ![s][b] = entry[s][b] + left[s]]
      BY <1>1 DEF Post
    <2>2. \A c \in Batch : entry[s][c] \in Int /\ entry[s][c] <= 0
      BY <1>3 DEF Holds, IInv, TypeOK
    <2>3. \A c \in Batch : entry'[s][c] = IF c = b THEN entry[s][b] + left[s] ELSE entry[s][c]
      BY <2>1 DEF IInv, TypeOK
    <2> QED
      BY <1>5, <2>2, <2>3
  <1>7. Holds(place, s)' /\ Passing(s)'
    BY <1>1, <1>4, <1>5, <1>6, RowHolds
  <1>8. UsedUp(s)' /\ Filling(s)'
    BY <1>2, <1>4 DEF UsedUp, Filling
  <1> QED
    BY <1>2, <1>7, <1>8 DEF Orderly

LEMMA TakeRowOrderly ==
  ASSUME IInv, TypeOK', NEW place, TakesAway(place), NEW s \in Session, Orderly(place, s),
         NEW b \in Batch, TakeRow(s, b)
  PROVE  Orderly(place, s)'
  <1> DEFINE take == Smaller(Value(s, b), left[s])
  <1>1. /\ Lock(s, b) /\ fresh' = fresh /\ Matches(s, b)
        /\ left' = [left EXCEPT ![s] = @ - take]
        /\ Current(s).op \in {"take", "move"}
    BY DEF TakeRow
  <1>2. /\ UNCHANGED <<qty, live, pc, req, at>>
        /\ pc[s] = "scan" /\ b \in scan[s] /\ owner' = [owner EXCEPT ![b] = s]
        /\ scan'[s] = scan[s] \ {b}
        /\ Current(s)' = Current(s)
    BY <1>1, LockFacts
  <1>3. /\ Holds(place, s) /\ UsedUp(s) /\ Passing(s) /\ Filling(s)
        /\ at[s] \in 1..Len(req[s].steps) /\ Len(req[s].steps) \in Nat
        /\ Current(s) = req[s].steps[at[s]] /\ req[s] \in Request
    BY <1>2, OrderFacts DEF Holds
  <1>4. Current(s).op = "take" /\ LocksFirst(req[s])
    BY <1>1, <1>3 DEF TakesAway
  <1>5. owner[b] = s /\ owner' = owner
    BY <1>2, <1>3, <1>4 DEF Passing, IInv, TypeOK
  <1>6. \A i \in 1..Len(req[s].steps) : req[s].steps[i].rows \subseteq Batch
    BY <1>3, StepRows
  <1>7. /\ \A c \in dirty[s] : c \in Batch /\ owner[c] = s
        /\ \A c \in Batch : Stored(s, c) \in Nat
    BY <1>3, DirtyHeld DEF Holds
  <1>8. Stored(s, b) > 0 /\ Expiry[b] > Today
    BY <1>1, <1>4 DEF Matches, Sellable
  \* The entity, loaded or not, holds what the session's statements read.
  <1>9. Value(s, b) = Stored(s, b)
    <2>1. Coherent(s, b) /\ entry[s][b] \in Int /\ qty[b] \in Int
      BY DEF IInv, TypeOK
    <2> QED
      BY <1>5, <2>1 DEF Coherent, Value, Stored
  <1>10. left[s] \in Int /\ left'[s] = left[s] - take
    BY <1>1 DEF IInv, TypeOK
  <1>11. \A c \in Batch : entry[s][c] \in Int /\ entry[s][c] <= 0
    BY <1>3 DEF Holds, IInv, TypeOK
  <1>12. CASE left[s] > 0
    <2>1. take \in Nat /\ take > 0 /\ take <= Stored(s, b) /\ take <= left[s]
          /\ (take < left[s] => take = Stored(s, b))
      BY <1>7, <1>8, <1>9, <1>10, <1>12 DEF Smaller
    <2>2. Post(s, b, -take)
      BY <1>12 DEF TakeRow
    <2> HIDE DEF take
    <2>3. /\ \A c \in Batch : entry'[s][c] = IF c = b THEN entry[s][b] - take ELSE entry[s][c]
          /\ \A c \in Batch : c # b => (c \in dirty'[s] <=> c \in dirty[s]) /\ mem'[s][c] = mem[s][c]
          /\ b \in dirty'[s] /\ mem'[s][b] = Stored(s, b) - take
      <3>1. /\ mem' = [mem EXCEPT ![s][b] = Value(s, b) + (-take)]
            /\ dirty' = [dirty EXCEPT ![s] = @ \cup {b}]
            /\ entry' = [entry EXCEPT ![s][b] = @ + (-take)]
        BY <2>2 DEF Post
      <3>2. entry'[s] = [entry[s] EXCEPT ![b] = entry[s][b] + (-take)]
            /\ mem'[s] = [mem[s] EXCEPT ![b] = Value(s, b) + (-take)]
            /\ dirty'[s] = dirty[s] \cup {b}
        BY <3>1 DEF IInv, TypeOK
      <3>3. entry[s] \in [Batch -> Int] /\ mem[s] \in [Batch -> Nat]
        BY DEF IInv, TypeOK
      <3> QED
        BY <1>7, <1>9, <1>11, <2>1, <3>2, <3>3
    <2>4. \A c \in Batch : entry'[s][c] <= 0
      BY <1>11, <2>1, <2>3
    <2>5. Holds(place, s)' /\ Passing(s)'
      BY <1>1, <1>4, <2>4, RowHolds
    <2>6. \A c \in Batch : c # b => Stored(s, c)' = Stored(s, c)
      BY <1>2, <2>3 DEF Stored
    <2>7. Stored(s, b)' = Stored(s, b) - take
      BY <2>3 DEF Stored
    <2>8. Filling(s)'
      <3> SUFFICES ASSUME left'[s] > 0, NEW c \in Current(s).rows, Expiry[c] > Today,
                          owner[c] = s, c \notin scan'[s]
                   PROVE  Stored(s, c)' = 0
        BY <1>2, <1>5 DEF Filling
      <3>1. c \in Batch
        BY <1>3, <1>6
      <3>2. CASE c = b
        BY <1>7, <1>10, <2>1, <2>7, <3>2
      <3>3. CASE c # b
        BY <1>2, <1>3, <1>4, <1>12, <2>6, <3>1, <3>3 DEF Filling
      <3> QED
        BY <3>2, <3>3
    <2>9. UsedUp(s)'
      <3> SUFFICES ASSUME NEW i \in 1..Len(req[s].steps), req[s].steps[i].op = "take",
                          NEW d \in req[s].steps[i].rows, NEW c \in req[s].steps[i].rows,
                          ExpiresBefore(d, c), Expiry[d] > Today, entry'[s][c] < 0,
                          owner[d] = s
                   PROVE  Stored(s, d)' = 0
        BY <1>2, <1>5 DEF UsedUp
      <3>1. d \in Batch /\ c \in Batch /\ Batch \subseteq Nat
            /\ Expiry[d] \in Int /\ Expiry[c] \in Int
        BY <1>6, BatchAssumption
      <3>2. d # c
        BY <3>1 DEF ExpiresBefore
      <3>3. CASE c = b
        <4>1. d \in Current(s).rows
          <5>1. b \in Current(s).rows
            BY <1>2, <1>3 DEF Passing
          <5>2. Current(s).rows = req[s].steps[i].rows
            BY <1>3, <1>4, <3>3, <5>1 DEF LocksFirst
          <5> QED
            BY <5>2
        <4>2. d \notin scan[s]
          <5>1. b \in Foremost(Current(s).op, scan[s])
            BY <1>1, <1>2 DEF Lock, Wanted
          <5>2. d \in scan[s] => ExpiresBefore(b, d)
            BY <1>4, <3>2, <3>3, <5>1 DEF Foremost, Precedes
          <5> QED
            BY <3>1, <3>3, <5>2 DEF ExpiresBefore
        <4>3. Stored(s, d) = 0
          BY <1>3, <1>4, <1>12, <4>1, <4>2 DEF Filling
        <4> QED
          BY <2>6, <3>1, <3>2, <3>3, <4>3
      <3>4. CASE c # b
        <4>1. Stored(s, d) = 0
          BY <1>3, <2>3, <3>1, <3>4 DEF UsedUp
        <4>2. d # b
          BY <1>8, <4>1
        <4> QED
          BY <2>6, <3>1, <4>1, <4>2
      <3> QED
        BY <3>3, <3>4
    <2> QED
      BY <1>2, <2>5, <2>8, <2>9 DEF Orderly
  <1>13. CASE ~(left[s] > 0)
    <2>1. /\ mem' = [mem EXCEPT ![s][b] = Value(s, b)]
          /\ dirty' = dirty /\ entry' = entry
      BY <1>13 DEF TakeRow
    <2>2. left'[s] <= 0
      BY <1>7, <1>8, <1>9, <1>10, <1>13 DEF Smaller
    <2>3. \A c \in Batch : Stored(s, c)' = Stored(s, c)
      <3>1. \A c \in Batch : mem'[s][c] = IF c = b THEN Value(s, b) ELSE mem[s][c]
        BY <2>1 DEF IInv, TypeOK
      <3> QED
        BY <1>2, <1>9, <2>1, <3>1 DEF Stored
    <2>4. Holds(place, s)' /\ Passing(s)'
      BY <1>1, <1>4, <1>11, <2>1, RowHolds
    <2>5. UsedUp(s)'
      BY <1>2, <1>3, <1>5, <1>6, <2>1, <2>3 DEF UsedUp
    <2>6. Filling(s)'
      <3>1. left'[s] \in Int
        BY DEF TypeOK
      <3> QED
        BY <2>2, <3>1 DEF Filling
    <2> QED
      BY <1>2, <2>4, <2>5, <2>6 DEF Orderly
  <1> QED
    BY <1>12, <1>13

LEMMA FulfilledOrderly ==
  ASSUME IInv, NEW place, NEW s \in Session, Orderly(place, s), Fulfilled(s)
  PROVE  Orderly(place, s)'
  <1>1. /\ UNCHANGED <<qty, owner, req, scan, mem, dirty, fresh, entry>>
        /\ pc[s] = "scan" /\ scan[s] = {}
    BY DEF Fulfilled, Advance, database, identity
  <1>2. pc'[s] = "ready" /\ at'[s] = at[s] + 1
    BY DEF Fulfilled, Advance, IInv, TypeOK
  <1>3. /\ Holds(place, s) /\ UsedUp(s) /\ Passing(s)
        /\ at[s] \in 1..Len(req[s].steps) /\ Len(req[s].steps) \in Nat
        /\ Current(s) = req[s].steps[at[s]] /\ req[s] \in Request
    BY <1>1, OrderFacts DEF Holds
  <1>4. \A i \in 1..Len(req[s].steps) : req[s].steps[i].rows \subseteq Batch
    BY <1>3, StepRows
  <1>5. 1..at[s] \subseteq 1..at'[s] /\ \A i \in 1..at[s] : i # at'[s]
    BY <1>2, <1>3
  <1>6. Holds(place, s)'
    <2>1. \A b \in Batch : owner[b] = s => Earned(place, s, b)'
      BY <1>1, <1>3, <1>5 DEF Holds, Earned, Passes
    <2>2. \A b \in Batch : entry[s][b] < 0 =>
             \E i \in 1..at'[s] : i \in 1..Len(req[s].steps) /\ req[s].steps[i].op # "lock"
      BY <1>3, <1>5 DEF Holds
    <2>3. \A i \in 1..Len(req[s].steps) : i < at'[s] /\ req[s].steps[i].op = "lock" =>
             \A b \in req[s].steps[i].rows : owner[b] = s \/ qty[b] = 0
      <3> SUFFICES ASSUME NEW i \in 1..Len(req[s].steps), i < at'[s],
                          req[s].steps[i].op = "lock", NEW b \in req[s].steps[i].rows
                   PROVE  owner[b] = s \/ qty[b] = 0
        OBVIOUS
      <3>1. i < at[s] \/ i = at[s]
        BY <1>2, <1>3
      <3>2. CASE i < at[s]
        BY <1>3, <3>2 DEF Holds
      <3>3. CASE i = at[s]
        BY <1>1, <1>3, <3>3 DEF Passing
      <3> QED
        BY <3>1, <3>2, <3>3
    <2> QED
      BY <1>1, <1>3, <2>1, <2>2, <2>3 DEF Holds
  <1>7. UsedUp(s)'
    BY <1>1, <1>3 DEF UsedUp, Stored
  <1> QED
    BY <1>2, <1>6, <1>7 DEF Orderly

-----------------------------------------------------------------------------
(* All of them. *)

TakesInv(place) == IInv /\ \A s \in Session : Orderly(place, s)

LEMMA TakesInit ==
  ASSUME NEW place
  PROVE  Init => TakesInv(place)
  <1> SUFFICES ASSUME Init PROVE TakesInv(place)
    OBVIOUS
  <1>1. \A s \in Session : pc[s] = "idle" /\ at[s] = 1
    BY DEF Init
  <1> QED
    BY <1>1, InvInit DEF TakesInv, Orderly, Active

LEMMA StepOrderly ==
  ASSUME NEW place, TakesAway(place), TakesInv(place), IInv', NEW s \in Session,
         Begin(s) \/ Work(s) \/ Fail(s)
  PROVE  Orderly(place, s)' /\ Apart(s)
  <1>1. IInv /\ TypeOK /\ TypeOK' /\ Orderly(place, s)
    BY DEF TakesInv, IInv
  <1>2. CASE Rollback(s)
    BY <1>1, <1>2, EndOrderly, EndApart
  <1>3. CASE Commit(s)
    BY <1>1, <1>3, EndOrderly, CommitApart
  <1>4. CASE Begin(s)
    BY <1>1, <1>4, BeginOrderly, CursorApart
  <1>5. CASE Select(s)
    BY <1>1, <1>5, SelectOrderly, CursorApart
  <1>6. CASE Fulfilled(s)
    BY <1>1, <1>6, FulfilledOrderly, CursorApart
  <1>7. ASSUME NEW b \in Batch, LockOnly(s, b) \/ TakeRow(s, b) \/ ChangeRow(s, b)
        PROVE  Orderly(place, s)' /\ Apart(s)
    <2>1. Apart(s)
      BY <1>1, <1>7, RowApart
    <2>2. CASE LockOnly(s, b)
      BY <1>1, <2>1, <2>2, LockOnlyOrderly
    <2>3. CASE TakeRow(s, b)
      BY <1>1, <2>1, <2>3, TakeRowOrderly
    <2>4. CASE ChangeRow(s, b)
      BY <1>1, <2>1, <2>4, ChangeRowOrderly
    <2> QED
      BY <1>7, <2>2, <2>3, <2>4
  <1>8. ~ReceiveNew(s) /\ ~PutAway(s) /\ ~Flush(s) /\ ~Conflict(s)
    BY <1>1, NeverTaken
  <1> QED
    BY <1>2, <1>3, <1>4, <1>5, <1>6, <1>7, <1>8
    DEF Work, Fail, RefuseRow, Short, DeadlockAbort

LEMMA TakesNext ==
  ASSUME NEW place, TakesAway(place)
  PROVE  TakesInv(place) /\ [Next]_vars => TakesInv(place)'
  <1> SUFFICES ASSUME TakesInv(place), [Next]_vars PROVE TakesInv(place)'
    OBVIOUS
  <1>1. IInv'
    BY TakesOnly, InvNext DEF TakesInv
  <1>2. ASSUME NEW s \in Session, Begin(s) \/ Work(s) \/ Fail(s)
        PROVE  \A t \in Session : Orderly(place, t)'
    <2>1. Orderly(place, s)' /\ Apart(s)
      BY <1>1, <1>2, StepOrderly
    <2>2. ASSUME NEW t \in Session \ {s} PROVE Orderly(place, t)'
      BY <2>1, OthersOrderly DEF TakesInv
    <2> QED
      BY <2>1, <2>2
  <1>3. CASE UNCHANGED vars
    <2>1. UNCHANGED <<qty, live, owner, pc, req, at, scan, left, mem, dirty, fresh, entry>>
      BY <1>3 DEF vars, database, cursor, identity
    <2>2. \A t \in Session : Orderly(place, t)'
      BY <2>1 DEF TakesInv, Orderly, Active, Holds, UsedUp, Passing, Filling, Earned,
                  Passes, Current, Stored
    <2> QED
      BY <1>1, <2>2 DEF TakesInv
  <1> QED
    BY <1>1, <1>2, <1>3 DEF TakesInv, Next, Terminating

\* A session waits for a row that comes after all it holds.
LEMMA WaitsUpward ==
  ASSUME NEW place, TakesAway(place), TakesInv(place), NEW s \in Session,
         NEW b \in Batch, owner[b] = s, NEW c \in Wanted(s), owner[c] # s
  PROVE  c \in Batch /\ place[b] < place[c]
  <1>1. IInv /\ Orderly(place, s)
    BY DEF TakesInv
  <1>2. pc[s] = "scan" /\ c \in scan[s]
    <2>1. pc[s] = "ready" => Unflushed(s) = {}
      BY <1>1, DirtyHeld DEF Orderly, Active, Holds
    <2> QED
      BY <2>1 DEF Wanted, Foremost
  <1>3. /\ Holds(place, s) /\ Passing(s)
        /\ at[s] \in 1..Len(req[s].steps) /\ Len(req[s].steps) \in Nat
        /\ Current(s) = req[s].steps[at[s]] /\ req[s] \in Request
    BY <1>1, <1>2, OrderFacts DEF Holds
  <1>4. c \in Current(s).rows /\ c \in Batch /\ Current(s).op # "take"
    BY <1>2, <1>3, StepRows DEF Passing
  <1>5. PICK i \in 1..at[s] :
           /\ Passes(s, i) /\ b \in req[s].steps[i].rows
           /\ i = at[s] => \A d \in scan[s] : place[b] < place[d]
    BY <1>3 DEF Holds, Earned
  <1>6. CASE i = at[s]
    BY <1>2, <1>4, <1>5, <1>6
  <1>7. CASE i # at[s]
    <2>1. i < at[s]
      BY <1>3, <1>7
    <2>2. LocksUpward(place, req[s])
      BY <1>3 DEF TakesAway
    <2>3. place[b] < place[c]
      BY <1>3, <1>4, <1>5, <2>1, <2>2 DEF LocksUpward, Passes
    <2> QED
      BY <1>4, <2>3
  <1> QED
    BY <1>6, <1>7

\* Sessions that wait for each other in a circle: one of them wants the row that
\* comes first, and whoever waits for that session wants one that comes before.
LEMMA NoCircle ==
  ASSUME NEW place \in [Batch -> Nat], TakesAway(place), TakesInv(place)
  PROVE  NeitherDies
  <1> SUFFICES ASSUME NEW s \in Session, NEW C \in SUBSET Session, s \in C,
                      \A t \in C : \E u \in C : WaitsFor(t, u),
                      \A u \in C : \E t \in C : WaitsFor(t, u)
               PROVE  FALSE
    BY DEF NeitherDies, InCycle
  <1> DEFINE M == {place[b] : b \in {c \in Batch :
                     \E t \in C : c \in Wanted(t) /\ owner[c] \in C /\ owner[c] # t}}
  <1>1. M \subseteq Nat
    OBVIOUS
  <1>2. \A t \in C : Wanted(t) \subseteq Batch
    BY DEF TakesInv, IInv, TypeOK, Wanted, Foremost, Unflushed
  <1>3. M # {}
    <2>1. PICK u \in C : WaitsFor(s, u)
      OBVIOUS
    <2>2. PICK b \in Wanted(s) : owner[b] = u /\ s # u
      BY <2>1 DEF WaitsFor
    <2>3. b \in Batch /\ place[b] \in M
      BY <1>2, <2>2
    <2> QED
      BY <2>3
  <1>4. PICK n \in M : \A k \in M : ~(k < n)
    BY <1>1, <1>3, LeastNatural
  <1>5. PICK c \in Batch, u \in C : c \in Wanted(u) /\ owner[c] \in C /\ owner[c] # u /\ n = place[c]
    BY <1>4
  <1>6. PICK t \in C : WaitsFor(t, u)
    OBVIOUS
  <1>7. PICK b \in Wanted(t) : owner[b] = u /\ t # u
    BY <1>6 DEF WaitsFor
  <1>8. b \in Batch /\ place[b] \in M
    BY <1>2, <1>7
  <1>9. place[b] < place[c]
    BY <1>5, <1>7, <1>8, WaitsUpward
  <1> QED
    BY <1>4, <1>5, <1>8, <1>9

\* lock_batches_in_order: "one simply waits for the other and neither dies".  As
\* long as requests only take goods away, in one order of the rows, no set of
\* them, however large, ever waits in a circle.
THEOREM NeitherEverDies ==
  ASSUME NEW place \in [Batch -> Nat], TakesAway(place)
  PROVE  Spec => []NeitherDies
  <1>1. Init => TakesInv(place)
    BY TakesInit
  <1>2. TakesInv(place) /\ [Next]_vars => TakesInv(place)'
    BY TakesNext
  <1>3. TakesInv(place) => NeitherDies
    BY NoCircle
  <1> QED
    BY <1>1, <1>2, <1>3, PTL DEF Spec

\* fefo_allocate: under the same condition no request ever takes from a batch
\* and leaves stock in one it holds that expires earlier.
THEOREM EarliestExpiryFirst ==
  ASSUME NEW place, TakesAway(place)
  PROVE  Spec => []FirstExpiredFirstOut
  <1>1. Init => TakesInv(place)
    BY TakesInit
  <1>2. TakesInv(place) /\ [Next]_vars => TakesInv(place)'
    BY TakesNext
  <1>3. TakesInv(place) => FirstExpiredFirstOut
    <2> SUFFICES ASSUME TakesInv(place), NEW s \in Session, Active(s),
                        NEW i \in 1..Len(req[s].steps),
                        req[s].steps[i].op \in {"take", "move"},
                        NEW b \in req[s].steps[i].rows, NEW c \in req[s].steps[i].rows,
                        ExpiresBefore(b, c), Expiry[b] > Today, entry[s][c] < 0, owner[b] = s
                 PROVE  Stored(s, b) = 0
      BY DEF FirstExpiredFirstOut
    <2>1. Holds(place, s) /\ UsedUp(s)
      BY DEF TakesInv, Orderly
    <2>2. req[s].steps[i].op = "take"
      BY <2>1 DEF Holds, TakesAway
    <2> QED
      BY <2>1, <2>2 DEF UsedUp
  <1> QED
    BY <1>1, <1>2, <1>3, PTL DEF Spec

-----------------------------------------------------------------------------
(***************************************************************************)
(* The refinement.  What a session's document says of a shelf is, at every *)
(* moment, what its finished statements move and what the running one has  *)
(* moved so far; nobody else has a part in it, so the commit moves the     *)
(* shelf by the net of the request.                                        *)
(***************************************************************************)

\* What the statements the session is through with move on a shelf.
Moved(s, sh) ==
    SumFunctionOnSet([i \in DOMAIN req[s].steps |-> NetOf(req[s].steps[i])[sh]], 1..(at[s] - 1))

\* What the running statement has moved so far.
UnderWay(s, sh) ==
    IF pc[s] = "scan" /\ Current(s).rows \cap RowsOf[sh] # {}
    THEN IF Current(s).op = "take" THEN left[s] - Current(s).n ELSE Current(s).n - left[s]
    ELSE 0

Tallied(s) ==
    /\ pc[s] = "idle" => at[s] = 1
    /\ Active(s) =>
          /\ req[s] \in Request /\ at[s] \in 1..(Len(req[s].steps) + 1)
          /\ \A sh \in Shelf :
                SumFunctionOnSet(entry[s], RowsOf[sh]) = Moved(s, sh) + UnderWay(s, sh)
    /\ pc[s] = "scan" =>
          /\ scan[s] \subseteq Current(s).rows
          /\ Current(s).op = "take" => left[s] >= 0

LedgerInv == IInv /\ \A s \in Session : Tallied(s)

LEMMA OthersUntouched ==
  ASSUME IInv, Disciplined, NEW s \in Session, Begin(s) \/ Work(s) \/ Fail(s)
  PROVE  \A t \in Session \ {s} : Untouched(t)
  <1>1. TypeOK
    BY DEF IInv
  <1>2. CASE Rollback(s) \/ Commit(s)
    BY <1>1, <1>2 DEF TypeOK, Rollback, Commit, Close, Forget, Untouched
  <1>3. CASE Begin(s) \/ Select(s) \/ Fulfilled(s) \/ Flush(s)
    BY <1>1, <1>3 DEF Begin, Select, Fulfilled, Advance, Flush, cursor, identity, TypeOK, Untouched
  <1>4. ASSUME NEW b \in Batch, LockOnly(s, b) \/ TakeRow(s, b) \/ ChangeRow(s, b)
        PROVE  \A t \in Session \ {s} : Untouched(t)
    BY <1>1, <1>4 DEF LockOnly, TakeRow, ChangeRow, Lock, Post, identity, TypeOK, Untouched
  <1>5. CASE ReceiveNew(s)
    <2>1. PICK b \in Batch : Insert(s, b, left[s])
      BY <1>5 DEF ReceiveNew
    <2> QED
      BY <1>1, <1>5, <2>1 DEF ReceiveNew, Advance, Insert, TypeOK, Untouched
  <1>6. ~PutAway(s)
    <2>1. \A b \in Batch : moving[s][b] = 0
      BY DEF IInv, Coherent
    <2> QED
      BY <2>1 DEF PutAway, NextMove, Foremost
  <1> QED
    BY <1>2, <1>3, <1>4, <1>5, <1>6
    DEF Work, Fail, RefuseRow, Short, Conflict, DeadlockAbort

LEMMA OthersTallied ==
  ASSUME NEW t \in Session, Untouched(t), Tallied(t)
  PROVE  Tallied(t)'
  BY DEF Untouched, Tallied, Active, Moved, UnderWay, Current

\* One more on one row is one more on the shelf it lies on.
LEMMA EntrySum ==
  ASSUME TypeOK, TypeOK', NEW s \in Session, NEW b \in Batch, NEW d \in Int,
         \A c \in Batch : entry'[s][c] = IF c = b THEN entry[s][b] + d ELSE entry[s][c],
         NEW sh \in Shelf
  PROVE  SumFunctionOnSet(entry[s], RowsOf[sh])' =
            SumFunctionOnSet(entry[s], RowsOf[sh]) + (IF b \in RowsOf[sh] THEN d ELSE 0)
  <1> DEFINE f == entry[s]
             g == entry'[s]
             S == RowsOf[sh]
  <1>1. IsFiniteSet(S) /\ S \subseteq Batch
    BY ShelfAssumption
  <1>2. f \in [Batch -> Int] /\ g \in [Batch -> Int]
    BY DEF TypeOK
  <1>3. \A c \in Batch : g[c] = IF c = b THEN f[b] + d ELSE f[c]
    OBVIOUS
  <1> HIDE DEF f, g, S
  <1>4. Whole(f, S) /\ Whole(g, S)
    BY <1>1, <1>2 DEF Whole
  <1>5. SumFunctionOnSet(f, S) \in Int
    BY <1>1, <1>4, SumInt
  <1>6. CASE b \in S
    <2>1. SameTerms(f, g, S \ {b})
      BY <1>1, <1>3 DEF SameTerms
    <2>2. SumFunctionOnSet(g, S) = SumFunctionOnSet(f, S) + (g[b] - f[b])
      BY <1>1, <1>4, <1>6, <2>1, SumChange
    <2>3. g[b] - f[b] = d
      BY <1>2, <1>3
    <2> QED
      BY <1>6, <2>2, <2>3 DEF f, g, S
  <1>7. CASE b \notin S
    <2>1. SameTerms(f, g, S)
      BY <1>1, <1>3, <1>7 DEF SameTerms
    <2>2. SumFunctionOnSet(f, S) = SumFunctionOnSet(g, S)
      BY <1>1, <2>1, SumSame
    <2> QED
      BY <1>5, <1>7, <2>2 DEF f, g, S
  <1> QED
    BY <1>6, <1>7

\* A statement that asks for a row asks for the rows of its shelf.
LEMMA RowShelf ==
  ASSUME NEW r \in Request, NEW i \in 1..Len(r.steps), NEW b \in r.steps[i].rows
  PROVE  \A sh \in Shelf : r.steps[i].rows \cap RowsOf[sh] # {} <=> b \in RowsOf[sh]
  <1>1. PICK sg \in Shelf : r.steps[i].rows \subseteq RowsOf[sg]
    BY ShelfAssumption
  <1>2. ASSUME NEW sh \in Shelf, r.steps[i].rows \cap RowsOf[sh] # {} PROVE sh = sg
    BY <1>1, <1>2, ShelfAssumption
  <1> QED
    BY <1>1, <1>2

LEMMA NetIsInt ==
  ASSUME NEW r \in Request, NEW i \in 1..Len(r.steps), NEW sh \in Shelf
  PROVE  NetOf(r.steps[i])[sh] \in Int
  <1>1. r.steps[i].n \in Int
    BY StepRows DEF Step
  <1> QED
    BY <1>1 DEF NetOf

LEMMA TallyFacts ==
  ASSUME LedgerInv, NEW s \in Session, pc[s] = "scan"
  PROVE  /\ Tallied(s) /\ req[s] \in Request
         /\ at[s] \in 1..Len(req[s].steps) /\ Len(req[s].steps) \in Nat
         /\ Current(s) = req[s].steps[at[s]] /\ Current(s) \in Step
         /\ left[s] \in Int
  <1>1. at[s] \in 1..Len(req[s].steps) /\ req[s] \in Request
    BY DEF LedgerInv, IInv, Running
  <1>2. Current(s) \in Step /\ Len(req[s].steps) \in Nat
    BY <1>1, RequestAssumption DEF Current
  <1> QED
    BY <1>1, <1>2 DEF LedgerInv, Current, IInv, TypeOK

LEMMA Segment ==
  ASSUME NEW n \in Nat \ {0}
  PROVE  /\ IsFiniteSet(1..(n - 1)) /\ n \notin 1..(n - 1)
         /\ 1..(n - 1) \cup {n} = 1..n
  <1>1. 1 \in Int /\ n - 1 \in Int
    OBVIOUS
  <1>2. IsFiniteSet(1..(n - 1))
    BY <1>1, FS_Interval
  <1> QED
    BY <1>2

\* Of a sum of integers, the next term.
LEMMA NextTerm ==
  ASSUME NEW f, NEW n \in Nat \ {0}, \A i \in 1..n : f[i] \in Int
  PROVE  /\ SumFunctionOnSet(f, 1..n) = SumFunctionOnSet(f, 1..(n - 1)) + f[n]
         /\ SumFunctionOnSet(f, 1..(n - 1)) \in Int
  <1> DEFINE S == 1..(n - 1)
  <1>1. IsFiniteSet(S) /\ n \notin S /\ S \cup {n} = 1..n
    BY Segment
  <1>2. Whole(f, S \cup {n})
    BY <1>1 DEF Whole
  <1>3. Whole(f, S)
    BY <1>1, <1>2 DEF Whole
  <1> HIDE DEF S
  <1>4. SumFunctionOnSet(f, S \cup {n}) = SumFunctionOnSet(f, S) + f[n]
    BY <1>1, <1>2, SumOneMore
  <1>5. SumFunctionOnSet(f, S) \in Int
    BY <1>1, <1>3, SumInt
  <1> QED
    BY <1>1, <1>4, <1>5 DEF S

\* The end of a statement: all of it has been moved.
LEMMA MovedOn ==
  ASSUME LedgerInv, NEW s \in Session, pc[s] = "scan",
         req' = req, at'[s] = at[s] + 1, NEW sh \in Shelf
  PROVE  Moved(s, sh)' = Moved(s, sh) + NetOf(Current(s))[sh]
  <1> DEFINE f == [i \in DOMAIN req[s].steps |-> NetOf(req[s].steps[i])[sh]]
  <1>1. /\ req[s] \in Request /\ at[s] \in 1..Len(req[s].steps) /\ Len(req[s].steps) \in Nat
        /\ Current(s) = req[s].steps[at[s]]
    BY TallyFacts
  <1>2. DOMAIN req[s].steps = 1..Len(req[s].steps)
    BY <1>1, RequestAssumption
  <1>3. \A i \in DOMAIN req[s].steps : f[i] = NetOf(req[s].steps[i])[sh] /\ f[i] \in Int
    BY <1>1, <1>2, NetIsInt
  <1>4. Moved(s, sh)' = SumFunctionOnSet(f, 1..(at'[s] - 1))
    BY DEF Moved
  <1>5. Moved(s, sh) = SumFunctionOnSet(f, 1..(at[s] - 1))
    BY DEF Moved
  <1> HIDE DEF f
  <1>6. PICK n \in Nat \ {0} : n = at[s]
    BY <1>1
  <1>7. at'[s] - 1 = n
    BY <1>6
  <1>8. \A i \in 1..n : f[i] \in Int
    BY <1>1, <1>2, <1>3, <1>6
  <1>9. SumFunctionOnSet(f, 1..n) = SumFunctionOnSet(f, 1..(n - 1)) + f[n]
    BY <1>8, NextTerm
  <1>10. f[n] = NetOf(Current(s))[sh]
    BY <1>1, <1>2, <1>3, <1>6
  <1> QED
    BY <1>4, <1>5, <1>6, <1>7, <1>9, <1>10

LEMMA MovedInt ==
  ASSUME NEW s \in Session, req[s] \in Request, at[s] \in 1..(Len(req[s].steps) + 1),
         NEW sh \in Shelf
  PROVE  Moved(s, sh) \in Int
  <1> DEFINE f == [i \in DOMAIN req[s].steps |-> NetOf(req[s].steps[i])[sh]]
             S == 1..(at[s] - 1)
  <1>1. DOMAIN req[s].steps = 1..Len(req[s].steps) /\ Len(req[s].steps) \in Nat
    BY RequestAssumption
  <1>2. PICK n \in Nat \ {0} : n = at[s]
    BY <1>1
  <1>3. S = 1..(n - 1) /\ IsFiniteSet(1..(n - 1))
    BY <1>2, Segment
  <1>4. IsFiniteSet(S) /\ S \subseteq DOMAIN req[s].steps
    BY <1>1, <1>3
  <1>5. Whole(f, S)
    BY <1>1, <1>4, NetIsInt DEF Whole
  <1>6. Moved(s, sh) = SumFunctionOnSet(f, S)
    BY DEF Moved
  <1> HIDE DEF f, S
  <1>7. SumFunctionOnSet(f, S) \in Int
    BY <1>4, <1>5, SumInt
  <1> QED
    BY <1>6, <1>7

-----------------------------------------------------------------------------
(* The session itself. *)

LEMMA EndTallied ==
  ASSUME TypeOK, NEW s \in Session, Rollback(s) \/ Commit(s)
  PROVE  Tallied(s)'
  <1>1. pc'[s] \in {"done", "failed"}
    BY DEF Rollback, Commit, Close, Forget, TypeOK
  <1> QED
    BY <1>1 DEF Tallied, Active

LEMMA BeginTallied ==
  ASSUME LedgerInv, TypeOK', NEW s \in Session, Begin(s)
  PROVE  Tallied(s)'
  <1>1. PICK r \in Request : req' = [req EXCEPT ![s] = r]
    BY DEF Begin
  <1>2. /\ req'[s] = r /\ pc'[s] = "ready" /\ pc[s] = "idle"
        /\ UNCHANGED <<at, dirty, entry>>
    BY <1>1 DEF Begin, database, LedgerInv, IInv, TypeOK
  <1>3. at[s] = 1 /\ dirty[s] = {} /\ Len(r.steps) \in Nat
    BY <1>2, RequestAssumption DEF LedgerInv, Tallied, IInv, Waiting
  <1>4. \A b \in Batch : entry[s][b] = 0
    BY <1>3 DEF LedgerInv, IInv, Coherent
  <1>5. ASSUME NEW sh \in Shelf
        PROVE  SumFunctionOnSet(entry'[s], RowsOf[sh]) = Moved(s, sh)' + UnderWay(s, sh)'
    <2>1. IsFiniteSet(RowsOf[sh]) /\ SameTerms(entry[s], [b \in RowsOf[sh] |-> 0], RowsOf[sh])
      BY <1>4, ShelfAssumption DEF SameTerms
    <2>2. SumFunctionOnSet(entry[s], RowsOf[sh]) = 0
      BY <2>1, SumZero
    <2>3. 1..(at'[s] - 1) = {}
      BY <1>2, <1>3
    <2>4. Moved(s, sh)' = 0
      BY <2>3, FS_EmptySet, SumStep DEF Moved
    <2>5. UnderWay(s, sh)' = 0
      BY <1>2 DEF UnderWay
    <2> QED
      BY <1>2, <2>2, <2>4, <2>5
  <1>6. at'[s] \in 1..(Len(req'[s].steps) + 1)
    BY <1>2, <1>3
  <1> QED
    BY <1>2, <1>5, <1>6 DEF Tallied

LEMMA SelectTallied ==
  ASSUME LedgerInv, NEW s \in Session, Select(s)
  PROVE  Tallied(s)'
  <1>1. UNCHANGED <<req, at, entry>>
    BY DEF Select, identity
  <1>2. /\ req[s] \in Request /\ at[s] \in 1..Len(req[s].steps) /\ Current(s) \in Step
    BY CurrentType DEF Select, LedgerInv, IInv
  <1>3. /\ pc[s] = "ready" /\ pc'[s] = "scan" /\ left'[s] = Current(s).n
        /\ scan'[s] \subseteq Current(s).rows
    BY DEF Select, LedgerInv, IInv, TypeOK
  <1>4. Current(s)' = Current(s) /\ Current(s).n \in Int /\ Current(s) = req[s].steps[at[s]]
    BY <1>1, <1>2 DEF Current, Step
  <1>5. \A sh \in Shelf : Moved(s, sh)' = Moved(s, sh) /\ UnderWay(s, sh)' = 0 /\ UnderWay(s, sh) = 0
    BY <1>1, <1>3, <1>4 DEF Moved, UnderWay
  <1>6. Current(s).op = "take" => Current(s).n >= 0
    BY <1>2, <1>4, RequestAssumption
  <1> QED
    BY <1>1, <1>3, <1>4, <1>5, <1>6 DEF LedgerInv, Tallied, Active

LEMMA RowTallied ==
  ASSUME LedgerInv, TypeOK', NEW s \in Session, NEW b \in Batch, Lock(s, b), NEW d \in Int,
         \A c \in Batch : entry'[s][c] = IF c = b THEN entry[s][b] + d ELSE entry[s][c],
         left'[s] = IF Current(s).op = "take" THEN left[s] + d ELSE left[s] - d,
         Current(s).op = "take" => left'[s] >= 0
  PROVE  Tallied(s)'
  <1>1. /\ UNCHANGED <<pc, req, at>>
        /\ pc[s] = "scan" /\ b \in scan[s] /\ scan'[s] = scan[s] \ {b}
        /\ Current(s)' = Current(s)
    BY LockFacts DEF LedgerInv
  <1>2. /\ Tallied(s) /\ req[s] \in Request
        /\ at[s] \in 1..Len(req[s].steps) /\ Len(req[s].steps) \in Nat
        /\ Current(s) = req[s].steps[at[s]] /\ Current(s) \in Step
        /\ left[s] \in Int
    BY <1>1, TallyFacts
  <1>3. b \in Current(s).rows /\ scan'[s] \subseteq Current(s).rows
    BY <1>1, <1>2 DEF Tallied
  <1>4. Current(s).n \in Int
    BY <1>2 DEF Step
  <1>5. ASSUME NEW sh \in Shelf
        PROVE  SumFunctionOnSet(entry'[s], RowsOf[sh]) = Moved(s, sh)' + UnderWay(s, sh)'
    <2>1. SumFunctionOnSet(entry'[s], RowsOf[sh]) =
             SumFunctionOnSet(entry[s], RowsOf[sh]) + (IF b \in RowsOf[sh] THEN d ELSE 0)
      BY EntrySum DEF LedgerInv, IInv
    <2>2. SumFunctionOnSet(entry[s], RowsOf[sh]) = Moved(s, sh) + UnderWay(s, sh)
      BY <1>1, <1>2 DEF Tallied, Active
    <2>3. Current(s).rows \cap RowsOf[sh] # {} <=> b \in RowsOf[sh]
      BY <1>2, <1>3, RowShelf
    <2>4. UnderWay(s, sh)' = UnderWay(s, sh) + (IF b \in RowsOf[sh] THEN d ELSE 0)
          /\ UnderWay(s, sh) \in Int
      <3>1. left'[s] = (IF Current(s).op = "take" THEN left[s] + d ELSE left[s] - d)
        OBVIOUS
      <3>2. pc'[s] = "scan" /\ Current(s)' = Current(s)
        BY <1>1
      <3>3. UnderWay(s, sh) = IF b \in RowsOf[sh]
                              THEN IF Current(s).op = "take" THEN left[s] - Current(s).n
                                   ELSE Current(s).n - left[s]
                              ELSE 0
        BY <1>1, <2>3 DEF UnderWay
      <3>4. UnderWay(s, sh)' = IF b \in RowsOf[sh]
                               THEN IF Current(s).op = "take" THEN left'[s] - Current(s).n
                                    ELSE Current(s).n - left'[s]
                               ELSE 0
        BY <2>3, <3>2 DEF UnderWay
      <3>5. PICK n \in Int, l \in Int : n = Current(s).n /\ l = left[s]
        BY <1>2, <1>4
      <3>6. CASE Current(s).op = "take"
        BY <3>1, <3>3, <3>4, <3>5, <3>6
      <3>7. CASE Current(s).op # "take"
        BY <3>1, <3>3, <3>4, <3>5, <3>7
      <3> QED
        BY <3>6, <3>7
    <2>5. Moved(s, sh)' = Moved(s, sh) /\ Moved(s, sh) \in Int
      BY <1>1, <1>2, MovedInt, SMTT(30) DEF Moved
    <2> QED
      BY <2>1, <2>2, <2>4, <2>5
  <1> QED
    BY <1>1, <1>2, <1>3, <1>5 DEF Tallied

LEMMA RowsTallied ==
  ASSUME LedgerInv, Disciplined, TypeOK', NEW s \in Session, NEW b \in Batch,
         LockOnly(s, b) \/ TakeRow(s, b) \/ ChangeRow(s, b)
  PROVE  Tallied(s)'
  <1>1. Lock(s, b)
    BY DEF LockOnly, TakeRow, ChangeRow
  <1>2. pc[s] = "scan"
    BY <1>1, LockFacts DEF LedgerInv
  <1>3. /\ Tallied(s) /\ req[s] \in Request
        /\ at[s] \in 1..Len(req[s].steps)
        /\ Current(s) = req[s].steps[at[s]]
        /\ left[s] \in Int /\ TypeOK /\ entry[s] \in [Batch -> Int]
    BY <1>2, TallyFacts DEF LedgerInv, IInv, TypeOK
  <1>4. Current(s).op = "take" => left[s] >= 0
    BY <1>2, <1>3 DEF Tallied
  <1>5. CASE LockOnly(s, b)
    <2>1. left' = left /\ entry' = entry
      BY <1>5 DEF LockOnly, identity
    <2>2. \A c \in Batch : entry'[s][c] = IF c = b THEN entry[s][b] + 0 ELSE entry[s][c]
      BY <1>3, <2>1
    <2>3. left'[s] = (IF Current(s).op = "take" THEN left[s] + 0 ELSE left[s] - 0)
          /\ (Current(s).op = "take" => left'[s] >= 0)
      BY <1>3, <1>4, <2>1
    <2> QED
      BY <1>1, <2>2, <2>3, RowTallied
  <1>6. CASE TakeRow(s, b)
    <2> DEFINE take == Smaller(Value(s, b), left[s])
    <2>1. Current(s).op = "take"
      BY <1>3, <1>6 DEF TakeRow, Disciplined
    <2>2. take \in Int /\ take <= left[s] /\ (~(left[s] > 0) => take = 0)
      BY <1>3, <1>4, <2>1, ValueType DEF Smaller
    <2>3. left' = [left EXCEPT ![s] = @ - take]
          /\ (left[s] > 0 => Post(s, b, -take))
          /\ (~(left[s] > 0) => entry' = entry)
      BY <1>6 DEF TakeRow
    <2> HIDE DEF take
    <2>4. \A c \in Batch : entry'[s][c] = IF c = b THEN entry[s][b] + (-take) ELSE entry[s][c]
      <3>1. CASE left[s] > 0
        <4>1. entry' = [entry EXCEPT ![s][b] = @ + (-take)]
          BY <2>3, <3>1 DEF Post
        <4> QED
          BY <1>3, <4>1 DEF TypeOK
      <3>2. CASE ~(left[s] > 0)
        BY <1>3, <2>2, <2>3, <3>2
      <3> QED
        BY <3>1, <3>2
    <2>5. -take \in Int /\ left'[s] = left[s] + (-take) /\ left'[s] >= 0
      <3>1. left'[s] = left[s] - take
        BY <2>3, <1>3 DEF TypeOK
      <3>2. left[s] \in Int /\ take \in Int /\ take <= left[s]
        BY <1>3, <2>2
      <3> QED
        BY <3>1, <3>2
    <2> QED
      BY <1>1, <2>1, <2>4, <2>5, RowTallied
  <1>7. CASE ChangeRow(s, b)
    <2>1. /\ Current(s).op # "take" /\ left' = [left EXCEPT ![s] = 0]
          /\ entry' = [entry EXCEPT ![s][b] = @ + left[s]]
      BY <1>7 DEF ChangeRow, Post
    <2>2. \A c \in Batch : entry'[s][c] = IF c = b THEN entry[s][b] + left[s] ELSE entry[s][c]
      BY <1>3, <2>1 DEF TypeOK
    <2>3. left'[s] = left[s] - left[s]
      BY <1>3, <2>1 DEF TypeOK
    <2> QED
      BY <1>1, <1>3, <2>1, <2>2, <2>3, RowTallied
  <1> QED
    BY <1>5, <1>6, <1>7

\* A statement that has nothing left to place has moved its net.
LEMMA PlacedAll ==
  ASSUME LedgerInv, Disciplined, NEW s \in Session, pc[s] = "scan", NEW sh \in Shelf
  PROVE  /\ left[s] = 0 => UnderWay(s, sh) = NetOf(Current(s))[sh]
         /\ Current(s).op = "receive" =>
               NetOf(Current(s))[sh] = UnderWay(s, sh)
                  + (IF Current(s).rows \cap RowsOf[sh] # {} THEN left[s] ELSE 0)
  <1>1. /\ req[s] \in Request /\ at[s] \in 1..Len(req[s].steps)
        /\ Current(s) = req[s].steps[at[s]] /\ Current(s) \in Step /\ left[s] \in Int
    BY TallyFacts
  <1>2. Current(s).op # "move" /\ Current(s).n \in Int
    BY <1>1 DEF Disciplined, Step
  <1>3. NetOf(Current(s))[sh] = IF Current(s).rows \cap RowsOf[sh] # {}
                                THEN IF Current(s).op = "take" THEN -Current(s).n
                                     ELSE Current(s).n
                                ELSE 0
    BY <1>2 DEF NetOf
  <1>4. UnderWay(s, sh) = IF Current(s).rows \cap RowsOf[sh] # {}
                          THEN IF Current(s).op = "take" THEN left[s] - Current(s).n
                               ELSE Current(s).n - left[s]
                          ELSE 0
    BY DEF UnderWay
  <1>5. PICK n \in Int, l \in Int : n = Current(s).n /\ l = left[s]
    BY <1>1, <1>2
  <1>6. left[s] = 0 => UnderWay(s, sh) = NetOf(Current(s))[sh]
    BY <1>3, <1>4, <1>5
  <1>7. ASSUME Current(s).op = "receive"
        PROVE  NetOf(Current(s))[sh] = UnderWay(s, sh)
                  + (IF Current(s).rows \cap RowsOf[sh] # {} THEN left[s] ELSE 0)
    <2>1. Current(s).op # "take"
      BY <1>7
    <2>2. CASE Current(s).rows \cap RowsOf[sh] # {}
      <3>1. NetOf(Current(s))[sh] = n /\ UnderWay(s, sh) = n - l
        BY <1>3, <1>4, <1>5, <2>1, <2>2
      <3>2. n = (n - l) + l
        BY <1>5
      <3> QED
        BY <1>5, <2>2, <3>1, <3>2
    <2>3. CASE Current(s).rows \cap RowsOf[sh] = {}
      BY <1>3, <1>4, <2>3
    <2> QED
      BY <2>2, <2>3
  <1> QED
    BY <1>6, <1>7

LEMMA AdvanceTallied ==
  ASSUME LedgerInv, Disciplined, TypeOK', NEW s \in Session, Fulfilled(s) \/ ReceiveNew(s)
  PROVE  Tallied(s)'
  <1>1. /\ req' = req /\ pc[s] = "scan" /\ pc'[s] = "ready" /\ at'[s] = at[s] + 1
    BY DEF Fulfilled, ReceiveNew, Advance, LedgerInv, IInv, TypeOK
  <1>2. /\ Tallied(s) /\ req[s] \in Request
        /\ at[s] \in 1..Len(req[s].steps) /\ Len(req[s].steps) \in Nat
        /\ Current(s) = req[s].steps[at[s]] /\ left[s] \in Int
    BY <1>1, TallyFacts
  <1>3. ASSUME NEW sh \in Shelf
        PROVE  SumFunctionOnSet(entry'[s], RowsOf[sh]) = Moved(s, sh)' + UnderWay(s, sh)'
    <2>1. Moved(s, sh)' = Moved(s, sh) + NetOf(Current(s))[sh]
      BY <1>1, MovedOn
    <2>2. SumFunctionOnSet(entry[s], RowsOf[sh]) = Moved(s, sh) + UnderWay(s, sh)
      BY <1>1, <1>2 DEF Tallied, Active
    <2>3. UnderWay(s, sh)' = 0
      BY <1>1 DEF UnderWay
    <2>4. Moved(s, sh) \in Int /\ NetOf(Current(s))[sh] \in Int
      BY <1>2, MovedInt, NetIsInt
    <2>5. UnderWay(s, sh) \in Int
      <3>1. Current(s).n \in Int
        BY <1>1, TallyFacts DEF Step
      <3> QED
        BY <1>2, <3>1 DEF UnderWay
    <2>6. CASE Fulfilled(s)
      <3>1. entry' = entry /\ left[s] = 0
        BY <2>6 DEF Fulfilled, identity
      <3>2. UnderWay(s, sh) = NetOf(Current(s))[sh]
        BY <1>1, <3>1, PlacedAll
      <3> QED
        BY <2>1, <2>2, <2>3, <2>4, <3>1, <3>2
    <2>7. CASE ReceiveNew(s)
      <3>1. PICK b \in Batch : b \in Current(s).rows /\ Insert(s, b, left[s])
        BY <2>7 DEF ReceiveNew
      <3>2. Current(s).op = "receive"
        BY <2>7 DEF ReceiveNew
      <3>3. entry' = [entry EXCEPT ![s][b] = @ + left[s]]
        BY <3>1 DEF Insert
      <3>4. \A c \in Batch : entry'[s][c] = IF c = b THEN entry[s][b] + left[s] ELSE entry[s][c]
        BY <3>3 DEF LedgerInv, IInv, TypeOK
      <3>5. SumFunctionOnSet(entry'[s], RowsOf[sh]) =
               SumFunctionOnSet(entry[s], RowsOf[sh]) + (IF b \in RowsOf[sh] THEN left[s] ELSE 0)
        BY <1>2, <3>4, EntrySum DEF LedgerInv, IInv
      <3>6. Current(s).rows \cap RowsOf[sh] # {} <=> b \in RowsOf[sh]
        BY <1>2, <3>1, RowShelf
      <3>7. NetOf(Current(s))[sh] = UnderWay(s, sh) + (IF b \in RowsOf[sh] THEN left[s] ELSE 0)
        BY <1>1, <3>2, <3>6, PlacedAll
      <3> QED
        BY <1>2, <2>1, <2>2, <2>3, <2>4, <2>5, <3>5, <3>7
    <2> QED
      BY <2>6, <2>7
  <1>4. at'[s] \in 1..(Len(req'[s].steps) + 1)
    BY <1>1, <1>2
  <1> QED
    BY <1>1, <1>2, <1>3, <1>4 DEF Tallied

LEMMA FlushTallied ==
  ASSUME LedgerInv, NEW s \in Session, Flush(s)
  PROVE  Tallied(s)'
  <1>1. UNCHANGED <<pc, req, at, scan, left, entry>>
    BY DEF Flush, cursor, identity
  <1> QED
    BY <1>1 DEF LedgerInv, Tallied, Active, Moved, UnderWay, Current

LEMMA OwnTallied ==
  ASSUME LedgerInv, Disciplined, TypeOK', NEW s \in Session, Begin(s) \/ Work(s) \/ Fail(s)
  PROVE  Tallied(s)'
  <1>1. TypeOK
    BY DEF LedgerInv, IInv
  <1>2. CASE Rollback(s) \/ Commit(s)
    BY <1>1, <1>2, EndTallied
  <1>3. CASE Begin(s)
    BY <1>3, BeginTallied
  <1>4. CASE Select(s)
    BY <1>4, SelectTallied
  <1>5. ASSUME NEW b \in Batch, LockOnly(s, b) \/ TakeRow(s, b) \/ ChangeRow(s, b)
        PROVE  Tallied(s)'
    BY <1>5, RowsTallied
  <1>6. CASE Fulfilled(s) \/ ReceiveNew(s)
    BY <1>6, AdvanceTallied
  <1>7. CASE Flush(s)
    BY <1>7, FlushTallied
  <1>8. ~PutAway(s)
    <2>1. \A b \in Batch : moving[s][b] = 0
      BY DEF LedgerInv, IInv, Coherent
    <2> QED
      BY <2>1 DEF PutAway, NextMove, Foremost
  <1> QED
    BY <1>2, <1>3, <1>4, <1>5, <1>6, <1>7, <1>8
    DEF Work, Fail, RefuseRow, Short, Conflict, DeadlockAbort

LEMMA LedgerInit == Init => LedgerInv
  <1> SUFFICES ASSUME Init PROVE LedgerInv
    OBVIOUS
  <1>1. \A s \in Session : pc[s] = "idle" /\ at[s] = 1
    BY DEF Init
  <1> QED
    BY <1>1, InvInit DEF LedgerInv, Tallied, Active

LEMMA LedgerNext == Disciplined /\ LedgerInv /\ [Next]_vars => LedgerInv'
  <1> SUFFICES ASSUME Disciplined, LedgerInv, [Next]_vars PROVE LedgerInv'
    OBVIOUS
  <1>1. IInv' /\ TypeOK'
    BY InvNext DEF LedgerInv, IInv
  <1>2. ASSUME NEW s \in Session, Begin(s) \/ Work(s) \/ Fail(s)
        PROVE  \A t \in Session : Tallied(t)'
    <2>1. Tallied(s)'
      BY <1>1, <1>2, OwnTallied
    <2>2. ASSUME NEW t \in Session \ {s} PROVE Tallied(t)'
      <3>1. Untouched(t)
        BY <1>2, OthersUntouched DEF LedgerInv
      <3> QED
        BY <3>1, OthersTallied DEF LedgerInv
    <2> QED
      BY <2>1, <2>2
  <1>3. CASE UNCHANGED vars
    <2>1. UNCHANGED <<pc, req, at, scan, left, entry>>
      BY <1>3 DEF vars, cursor, identity
    <2> QED
      BY <1>1, <2>1 DEF LedgerInv, Tallied, Active, Moved, UnderWay, Current
  <1> QED
    BY <1>1, <1>2, <1>3 DEF LedgerInv, Next, Terminating

-----------------------------------------------------------------------------
(* The commit is the step of the ledger. *)

LEMMA OnHandNatural ==
  ASSUME NEW q \in [Batch -> Nat], NEW sh \in Shelf
  PROVE  OnHand(q)[sh] \in Nat
  <1> DEFINE Z == [b \in RowsOf[sh] |-> 0]
  <1>1. IsFiniteSet(RowsOf[sh]) /\ RowsOf[sh] \subseteq Batch
    BY ShelfAssumption
  <1>2. Whole(q, RowsOf[sh]) /\ Whole(Z, RowsOf[sh]) /\ Below(Z, q, RowsOf[sh])
    BY <1>1 DEF Whole, Below
  <1>3. SameTerms(Z, Z, RowsOf[sh])
    BY DEF SameTerms
  <1>4. SumFunctionOnSet(Z, RowsOf[sh]) = 0
    BY <1>1, <1>3, SumZero
  <1> HIDE DEF Z
  <1>5. SumFunctionOnSet(Z, RowsOf[sh]) <= SumFunctionOnSet(q, RowsOf[sh])
    BY <1>1, <1>2, SumGrows
  <1>6. SumFunctionOnSet(q, RowsOf[sh]) \in Int
    BY <1>1, <1>2, SumInt
  <1> QED
    BY <1>4, <1>5, <1>6 DEF OnHand

LEMMA CommitApplies ==
  ASSUME LedgerInv, TypeOK', NEW s \in Session, Commit(s)
  PROVE  Net(req[s]) \in Movements /\ Ledger!Apply(Net(req[s]))
  <1>1. TypeOK /\ \A b \in Batch : Coherent(s, b)
    BY DEF LedgerInv, IInv
  <1>2. /\ pc[s] = "ready" /\ at[s] > Len(req[s].steps) /\ Flushed(s)
        /\ \A b \in Batch : qty'[b] = IF b \in dirty[s] THEN mem[s][b] ELSE qty[b]
    BY DEF Commit
  <1>3. /\ req[s] \in Request /\ at[s] \in 1..(Len(req[s].steps) + 1)
        /\ \A sh \in Shelf :
              SumFunctionOnSet(entry[s], RowsOf[sh]) = Moved(s, sh) + UnderWay(s, sh)
    BY <1>2 DEF LedgerInv, Tallied, Active
  <1>4. Net(req[s]) \in Movements
    BY <1>3 DEF Movements
  <1>5. ASSUME NEW b \in Batch PROVE qty'[b] = qty[b] + entry[s][b]
    <2>1. qty[b] \in Int /\ entry[s][b] \in Int
      BY <1>1 DEF TypeOK
    <2>2. b \in dirty[s] => owner[b] = s
      BY <1>2 DEF Flushed
    <2> QED
      BY <1>1, <1>2, <2>1, <2>2 DEF Coherent
  <1>6. ASSUME NEW sh \in Shelf
        PROVE  OnHand(qty)'[sh] = OnHand(qty)[sh] + Net(req[s])[sh]
    <2>1. IsFiniteSet(RowsOf[sh]) /\ RowsOf[sh] \subseteq Batch
      BY ShelfAssumption
    <2>2. Whole(qty, RowsOf[sh]) /\ Whole(entry[s], RowsOf[sh])
          /\ Adds(qty, entry[s], qty', RowsOf[sh])
      BY <1>1, <1>5, <2>1 DEF TypeOK, Whole, Adds
    <2>3. SumFunctionOnSet(qty', RowsOf[sh]) =
             SumFunctionOnSet(qty, RowsOf[sh]) + SumFunctionOnSet(entry[s], RowsOf[sh])
      BY <2>1, <2>2, SumAdd
    <2>4. Len(req[s].steps) \in Nat /\ DOMAIN req[s].steps = 1..Len(req[s].steps)
      BY <1>3, RequestAssumption
    <2>5. 1..(at[s] - 1) = DOMAIN req[s].steps
      BY <1>2, <1>3, <2>4
    <2>6. Moved(s, sh) = Net(req[s])[sh]
      BY <2>5 DEF Moved, Net, SumFunction
    <2>7. UnderWay(s, sh) = 0 /\ Moved(s, sh) \in Int
      BY <1>2, <1>3, MovedInt DEF UnderWay
    <2>8. SumFunctionOnSet(entry[s], RowsOf[sh]) = Net(req[s])[sh]
      BY <1>3, <2>6, <2>7
    <2> QED
      BY <2>3, <2>8 DEF OnHand
  <1>7. \A sh \in Shelf : OnHand(qty)'[sh] \in Nat
    <2>1. qty' \in [Batch -> Nat]
      BY DEF TypeOK
    <2>2. \A sh \in Shelf : OnHand(qty')[sh] \in Nat
      BY <2>1, OnHandNatural
    <2> QED
      BY <2>2 DEF OnHand
  <1>8. OnHand(qty)' = [sh \in Shelf |-> OnHand(qty)[sh] + Net(req[s])[sh]]
    <2>1. OnHand(qty)' = [sh \in Shelf |-> OnHand(qty)'[sh]]
      BY DEF OnHand
    <2> QED
      BY <1>6, <2>1
  <1>9. \A sh \in Shelf : OnHand(qty)[sh] + Net(req[s])[sh] >= 0
    BY <1>6, <1>7
  <1> QED
    BY <1>4, <1>8, <1>9 DEF Ledger!Apply

LEMMA StepImplements ==
  Disciplined /\ LedgerInv /\ [Next]_vars => [Ledger!Next]_(OnHand(qty))
  <1> SUFFICES ASSUME Disciplined, LedgerInv, [Next]_vars
               PROVE  Ledger!Next \/ OnHand(qty)' = OnHand(qty)
    OBVIOUS
  <1>1. TypeOK'
    BY TypeNext DEF LedgerInv, IInv
  <1>2. ASSUME NEW s \in Session, Commit(s) PROVE Ledger!Next
    BY <1>1, <1>2, CommitApplies DEF Ledger!Next
  <1>3. ASSUME NEW s \in Session, Begin(s) \/ Work(s) \/ Fail(s), ~Commit(s)
        PROVE  qty' = qty
    BY <1>3 DEF Begin, Work, Fail, Select, LockOnly, TakeRow, ChangeRow, RefuseRow, Fulfilled,
                ReceiveNew, Short, PutAway, Flush, Conflict, DeadlockAbort, Rollback,
                Advance, Lock, database
  <1>4. CASE UNCHANGED vars
    BY <1>4 DEF vars, database, OnHand
  <1>5. qty' = qty => OnHand(qty)' = OnHand(qty)
    BY DEF OnHand
  <1> QED
    BY <1>2, <1>3, <1>4, <1>5 DEF Next, Terminating

\* The stock keeps its promise: whatever requests interleave, every commit moves
\* each shelf by exactly what the lines of its document say, and nothing else
\* moves it; requests that transfer or undo a write-off apart.
THEOREM RequestsImplementLedger ==
  ASSUME Disciplined
  PROVE  Spec => ImplementsLedger
  <1>1. Init => LedgerInv /\ Ledger!Init
    BY LedgerInit DEF Init, Ledger!Init, FirstOnHand, OnHand
  <1>2. LedgerInv /\ [Next]_vars => LedgerInv'
    BY LedgerNext
  <1>3. LedgerInv /\ [Next]_vars => [Ledger!Next]_(OnHand(qty))
    BY StepImplements
  <1> QED
    BY <1>1, <1>2, <1>3, PTL DEF Spec, ImplementsLedger, Ledger!Spec

=============================================================================
