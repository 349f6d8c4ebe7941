-------------------------- MODULE FieldSyncProofs --------------------------
(***************************************************************************)
(* Theorems about the upload of a salesman's round, for any number of      *)
(* shops, documents, requests, crashes and lost answers.                   *)
(***************************************************************************)
EXTENDS FieldSync, TLAPS

Stage == {"idle", "next", "name", "insert", "tag", "post"}

Uploads ==
    [at : Stage, item : Item \cup {NoShop}, todo : SUBSET Item, sent : SUBSET Item,
     known : SUBSET Shop, stored : SUBSET Item, failed : SUBSET Item, unknown : SUBSET Document]

\* Every variable holds what its column can.
Shapes ==
    /\ phone \in [Item -> {"blank", "queued", "gone"}]
    /\ awaited \in Session \cup {NoSession}
    /\ upload \in [Session -> Uploads]
    /\ shopRow \in [Shop -> {"none", "untagged", "tagged", "office"}]
    /\ docRows \in [Document -> Nat]
    /\ faults \in 0..MaxFaults

\* The item in hand, once one is.
InHand(u) == IF u.at \in {"idle", "next"} THEN {} ELSE {u.item}

\* What a request carried is still to come, in hand, stored or refused, and one of these.
Sorted(u) ==
    /\ u.sent = u.todo \cup InHand(u) \cup u.stored \cup u.failed
    /\ u.stored \cap u.failed = {}
    /\ (u.stored \cup u.failed) \cap (u.todo \cup InHand(u)) = {}
    /\ u.todo \cap InHand(u) = {}
    /\ u.at \in {"name", "insert", "tag"} => u.item \in Shop
    /\ u.at = "post" => u.item \in Document
    /\ u.known = u.stored \cap Shop

\* A document set aside for its buyer has one that was refused or did not travel.
Explained(u) == \A d \in u.unknown : BuyerOf[d] \in u.failed \/ BuyerOf[d] \notin u.sent

\* An item is on the server for good, but for the office's own deletion.
Safe(x) == IF x \in Shop THEN shopRow[x] = "tagged" ELSE docRows[x] > 0 \/ x \in erased

\* The phone lets go of what is safe, and an answer on its way mentions nothing else.
Kept ==
    /\ \A x \in Item : phone[x] = "gone" => Safe(x)
    /\ \A s \in Session : \A x \in upload[s].stored : Safe(x)

Sound == \A s \in Session : Sorted(upload[s]) /\ Explained(upload[s])

IInv == Shapes /\ Sound /\ Kept /\ SyncedOnce

-----------------------------------------------------------------------------
LEMMA BlankUpload ==
    /\ NoUpload \in Uploads /\ NoUpload.stored = {} /\ NoUpload.at = "idle"
    /\ Sorted(NoUpload) /\ Explained(NoUpload)
  BY DEF NoUpload, Uploads, Stage, Sorted, Explained, InHand

LEMMA UploadFields ==
    ASSUME NEW u \in Uploads
    PROVE  /\ u.at \in Stage /\ u.item \in Item \cup {NoShop}
           /\ u.todo \subseteq Item /\ u.sent \subseteq Item /\ u.known \subseteq Shop
           /\ u.stored \subseteq Item /\ u.failed \subseteq Item /\ u.unknown \subseteq Document
  BY DEF Uploads

LEMMA InvInit == FieldInit => IInv
  <1> SUFFICES ASSUME FieldInit
               PROVE  IInv
    OBVIOUS
  <1>1. Shapes
    BY FieldAssumption, BlankUpload DEF FieldInit, Shapes
  <1>2. Sound /\ Kept
    BY BlankUpload DEF FieldInit, Sound, Kept
  <1>3. SyncedOnce
    BY DEF FieldInit, SyncedOnce
  <1> QED BY <1>1, <1>2, <1>3 DEF IInv

\* A request moves to another state and stores nothing that is not safe; the tables only
\* make more of it safe.
LEMMA Moves ==
    ASSUME IInv, NEW s \in Session, NEW u \in Uploads,
           upload' = [upload EXCEPT ![s] = u], Sorted(u), Explained(u),
           UNCHANGED <<phone, faults>>, awaited' \in Session \cup {NoSession},
           shopRow' \in [Shop -> {"none", "untagged", "tagged", "office"}],
           docRows' \in [Document -> Nat], SyncedOnce',
           \A x \in Item : Safe(x) => Safe(x)',
           \A x \in u.stored : Safe(x)'
    PROVE  IInv'
  <1> USE DEF IInv
  <1>1. /\ upload'[s] = u /\ \A t \in Session \ {s} : upload'[t] = upload[t]
        /\ upload' \in [Session -> Uploads]
    BY DEF Shapes
  <1>2. Shapes'
    BY <1>1 DEF Shapes
  <1>3. Sound'
    <2> SUFFICES ASSUME NEW t \in Session
                 PROVE  Sorted(upload'[t]) /\ Explained(upload'[t])
      BY DEF Sound, Sorted, Explained, InHand
    <2> QED BY <1>1 DEF Sound
  <1>4. Kept'
    <2>1. \A t \in Session : upload[t].stored \subseteq Item
      BY UploadFields DEF Shapes
    <2> QED BY <1>1, <2>1 DEF Kept
  <1> QED BY <1>2, <1>3, <1>4

-----------------------------------------------------------------------------
(* The phone and head office *)

LEMMA PhoneStep ==
    ASSUME IInv,
           \/ \E x \in Item : Enqueue(x)
           \/ \E s \in Session : Send(s) \/ Answer(s)
           \/ LoseAnswer
    PROVE  IInv'
  <1> USE DEF IInv
  <1>1. ASSUME NEW x \in Item, Enqueue(x)
        PROVE  IInv'
    BY <1>1 DEF Enqueue, Shapes, Sound, Sorted, Explained, InHand, Kept, Safe, SyncedOnce
  <1>2. CASE LoseAnswer
    BY <1>2, FieldAssumption
       DEF LoseAnswer, Shapes, Sound, Sorted, Explained, InHand, Kept, Safe, SyncedOnce
  <1>3. ASSUME NEW s \in Session, Send(s)
        PROVE  IInv'
    <2>1. PICK queued \in SUBSET Item :
             upload' = [upload EXCEPT ![s] = [NoUpload EXCEPT !.at = "next", !.todo = queued,
                                                              !.sent = queued]]
      BY <1>3 DEF Send
    <2>2. PICK u : u = [NoUpload EXCEPT !.at = "next", !.todo = queued, !.sent = queued]
      OBVIOUS
    <2>3. /\ u \in Uploads /\ u.at = "next" /\ u.todo = queued /\ u.sent = queued
          /\ u.stored = {} /\ u.failed = {} /\ u.unknown = {} /\ u.known = {}
      BY <2>2 DEF NoUpload, Uploads, Stage
    <2>4. Sorted(u) /\ Explained(u)
      BY <2>3 DEF Sorted, Explained, InHand
    <2>5. /\ UNCHANGED <<phone, shopRow, docRows, van, faults, erased>> /\ awaited' = s
      BY <1>3 DEF Send
    <2> QED BY <2>1, <2>2, <2>3, <2>4, <2>5, Moves DEF Shapes, SyncedOnce, Safe
  <1>4. ASSUME NEW s \in Session, Answer(s)
        PROVE  IInv'
    <2>1. /\ upload' = [upload EXCEPT ![s] = NoUpload]
          /\ phone' \in [Item -> {"blank", "queued", "gone"}]
          /\ \A x \in Item : phone'[x] = "gone" => phone[x] = "gone" \/ x \in upload[s].stored
          /\ awaited' \in Session \cup {NoSession}
          /\ UNCHANGED <<shopRow, docRows, van, faults, erased>>
      BY <1>4 DEF Answer, Stored, Shapes
    <2>2. Shapes' /\ SyncedOnce'
      BY <2>1, BlankUpload DEF Shapes, SyncedOnce
    <2>3. upload'[s] = NoUpload /\ \A t \in Session \ {s} : upload'[t] = upload[t]
      BY <2>1 DEF Shapes
    <2>4. Sound'
      <3> SUFFICES ASSUME NEW t \in Session
                   PROVE  Sorted(upload'[t]) /\ Explained(upload'[t])
        BY DEF Sound, Sorted, Explained, InHand
      <3> QED BY <2>3, BlankUpload DEF Sound
    <2>5. Kept'
      BY <2>1, <2>3, BlankUpload DEF Kept, Safe
    <2> QED BY <2>2, <2>4, <2>5
  <1> QED BY <1>1, <1>2, <1>3, <1>4

LEMMA OfficeStep ==
    ASSUME IInv,
           \/ AssignVan
           \/ \E x \in Shop : RegisterAtOffice(x)
           \/ \E d \in Document : EraseSale(d)
    PROVE  IInv'
  <1> USE DEF IInv
  <1>1. CASE AssignVan
    BY <1>1 DEF AssignVan, Shapes, Sound, Sorted, Explained, InHand, Kept, Safe, SyncedOnce
  <1>2. ASSUME NEW x \in Shop, RegisterAtOffice(x)
        PROVE  IInv'
    BY <1>2 DEF RegisterAtOffice, Shapes, Sound, Sorted, Explained, InHand, Kept, Safe, SyncedOnce
  <1>3. ASSUME NEW d \in Document, EraseSale(d)
        PROVE  IInv'
    <2>1. /\ docRows[d] > 0 /\ docRows' = [docRows EXCEPT ![d] = @ - 1]
          /\ erased' = erased \cup {d}
          /\ UNCHANGED <<phone, awaited, upload, shopRow, van, faults>>
      BY <1>3 DEF EraseSale
    <2>2. docRows' \in [Document -> Nat] /\ SyncedOnce'
      BY <2>1 DEF Shapes, SyncedOnce
    <2>3. \A x \in Item : Safe(x) => Safe(x)'
      BY <2>1 DEF Safe, Item, Shapes
    <2>4. \A t \in Session : upload[t].stored \subseteq Item
      BY UploadFields DEF Shapes
    <2> QED BY <2>1, <2>2, <2>3, <2>4 DEF Shapes, Sound, Sorted, Explained, InHand, Kept
  <1> QED BY <1>1, <1>2, <1>3

-----------------------------------------------------------------------------
(* The server *)

\* A request that dies forgets what it was about; what it committed stays.
LEMMA DeathStep ==
    ASSUME IInv, NEW s \in Session, Dies(s),
           UNCHANGED <<phone, shopRow, docRows, van, erased>>, faults' \in 0..MaxFaults
    PROVE  IInv'
  <1> USE DEF IInv
  <1>1. upload' = [upload EXCEPT ![s] = NoUpload] /\ awaited' \in Session \cup {NoSession}
    BY DEF Dies, Shapes
  <1>2. upload'[s] = NoUpload /\ \A t \in Session \ {s} : upload'[t] = upload[t]
    BY <1>1 DEF Shapes
  <1>3. Shapes' /\ SyncedOnce'
    BY <1>1, BlankUpload DEF Shapes, SyncedOnce
  <1>4. Sound'
    <2> SUFFICES ASSUME NEW t \in Session
                 PROVE  Sorted(upload'[t]) /\ Explained(upload'[t])
      BY DEF Sound, Sorted, Explained, InHand
    <2> QED BY <1>2, BlankUpload DEF Sound
  <1>5. Kept'
    BY <1>2, BlankUpload DEF Kept, Safe
  <1> QED BY <1>3, <1>4, <1>5

\* The item in hand is stored: it is safe by then.
LEMMA StoreStep ==
    ASSUME IInv, NEW s \in Session, NEW x \in Item, upload[s].item = x,
           upload[s].at \in {"tag", "post"}, StoredNow(s, x, TRUE),
           UNCHANGED <<phone, awaited, faults>>,
           shopRow' \in [Shop -> {"none", "untagged", "tagged", "office"}],
           docRows' \in [Document -> Nat], SyncedOnce',
           \A y \in Item : Safe(y) => Safe(y)', Safe(x)'
    PROVE  IInv'
  <1> USE DEF IInv
  <1>0. PICK o : o = upload[s]
    OBVIOUS
  <1>1. o \in Uploads /\ Sorted(o) /\ Explained(o) /\ InHand(o) = {x}
    BY <1>0 DEF Shapes, Sound, InHand
  <1>2. PICK u : u = [[o EXCEPT !.stored = @ \cup {x}, !.known = KnownNow(o, x, TRUE)]
                         EXCEPT !.at = "next", !.item = NoShop]
    OBVIOUS
  <1>3. /\ u = [at |-> "next", item |-> NoShop, todo |-> o.todo, sent |-> o.sent,
                known |-> o.known \cup ({x} \cap Shop), stored |-> o.stored \cup {x},
                failed |-> o.failed, unknown |-> o.unknown]
        /\ u \in Uploads
    BY <1>1, <1>2 DEF Uploads, KnownNow, Stage
  <1>4. upload' = [upload EXCEPT ![s] = u]
    BY <1>0, <1>2 DEF StoredNow, Finish
  <1>5. Sorted(u) /\ Explained(u)
    BY <1>1, <1>3 DEF Sorted, Explained, InHand
  <1>6. \A y \in u.stored : Safe(y)'
    BY <1>0, <1>1, <1>3, UploadFields DEF Kept
  <1> QED BY <1>3, <1>4, <1>5, <1>6, Moves DEF Shapes

\* The item in hand is refused.
LEMMA RefuseStep ==
    ASSUME IInv, NEW s \in Session, upload[s].at \in {"name", "post"},
           Refused(s, upload[s].item),
           UNCHANGED <<phone, awaited, shopRow, docRows, faults, erased>>
    PROVE  IInv'
  <1> USE DEF IInv
  <1>0. PICK o, x : o = upload[s] /\ x = upload[s].item
    OBVIOUS
  <1>1. o \in Uploads /\ Sorted(o) /\ Explained(o) /\ InHand(o) = {x} /\ x \in Item
    BY <1>0 DEF Shapes, Sound, InHand, Sorted, Item
  <1>2. PICK u : u = [[o EXCEPT !.failed = @ \cup {x}] EXCEPT !.at = "next", !.item = NoShop]
    OBVIOUS
  <1>3. /\ u = [at |-> "next", item |-> NoShop, todo |-> o.todo, sent |-> o.sent,
                known |-> o.known, stored |-> o.stored,
                failed |-> o.failed \cup {x}, unknown |-> o.unknown]
        /\ u \in Uploads
    BY <1>1, <1>2 DEF Uploads, Stage
  <1>4. upload' = [upload EXCEPT ![s] = u]
    BY <1>0, <1>2 DEF Refused, Finish
  <1>5. Sorted(u) /\ Explained(u)
    BY <1>1, <1>3 DEF Sorted, Explained, InHand
  <1>6. \A y \in u.stored : Safe(y)'
    BY <1>0, <1>3 DEF Kept, Safe
  <1> QED BY <1>3, <1>4, <1>5, <1>6, Moves DEF Shapes, Safe, SyncedOnce

LEMMA FindStep ==
    ASSUME IInv, NEW s \in Session, NEW x \in Item, FindItem(s, x)
    PROVE  IInv'
  <1> USE DEF IInv
  <1>0. PICK o : o = upload[s]
    OBVIOUS
  <1>1. /\ o \in Uploads /\ Sorted(o) /\ Explained(o) /\ o.at = "next" /\ x \in o.todo
        /\ x \in Document => o.todo \cap Shop = {}
        /\ UNCHANGED <<phone, awaited, shopRow, docRows, van, faults, erased>>
    BY <1>0 DEF FindItem, Shapes, Sound
  <1>2. PICK n : n = [o EXCEPT !.todo = @ \ {x}]
    OBVIOUS
  <1>3. /\ n = [at |-> "next", item |-> o.item, todo |-> o.todo \ {x}, sent |-> o.sent,
                known |-> o.known, stored |-> o.stored, failed |-> o.failed,
                unknown |-> o.unknown]
        /\ n \in Uploads
    BY <1>1, <1>2 DEF Uploads
  <1>4. \A y \in o.stored : Safe(y)
    BY <1>0 DEF Kept
  <1>5. CASE AlreadyThere(x)
    <2>1. PICK u : u = [[n EXCEPT !.stored = @ \cup {x}, !.known = KnownNow(n, x, FALSE)]
                           EXCEPT !.at = "next", !.item = NoShop]
      OBVIOUS
    <2>2. /\ u = [at |-> "next", item |-> NoShop, todo |-> o.todo \ {x}, sent |-> o.sent,
                  known |-> o.known \cup ({x} \cap Shop), stored |-> o.stored \cup {x},
                  failed |-> o.failed, unknown |-> o.unknown]
          /\ u \in Uploads
      BY <1>3, <2>1, ZenonT(40) DEF Uploads, KnownNow
    <2>3. upload' = [upload EXCEPT ![s] = u]
      BY <1>0, <1>2, <1>5, <2>1 DEF FindItem, Finish
    <2>4. Sorted(u) /\ Explained(u)
      BY <1>1, <2>2 DEF Sorted, Explained, InHand
    <2>5. Safe(x)
      BY <1>5, FieldAssumption DEF AlreadyThere, Safe
    <2>6. \A y \in u.stored : Safe(y)'
      BY <1>1, <1>4, <2>2, <2>5 DEF Safe
    <2> QED BY <1>1, <2>2, <2>3, <2>4, <2>6, Moves DEF Shapes, Safe, SyncedOnce
  <1>6. CASE ~AlreadyThere(x) /\ x \in Document /\ ~Resolved(n, x)
    <2>1. PICK u : u = [[n EXCEPT !.failed = @ \cup {x}, !.unknown = @ \cup {x}]
                           EXCEPT !.at = "next", !.item = NoShop]
      OBVIOUS
    <2>2. /\ u = [at |-> "next", item |-> NoShop, todo |-> o.todo \ {x}, sent |-> o.sent,
                  known |-> o.known, stored |-> o.stored,
                  failed |-> o.failed \cup {x}, unknown |-> o.unknown \cup {x}]
          /\ u \in Uploads
      BY <1>3, <1>6, <2>1 DEF Uploads
    <2>3. upload' = [upload EXCEPT ![s] = u]
      BY <1>0, <1>2, <1>6, <2>1 DEF FindItem, Finish
    <2>4. BuyerOf[x] \in Shop /\ BuyerOf[x] \notin o.stored /\ BuyerOf[x] \notin o.todo
      BY <1>1, <1>3, <1>6, FieldAssumption DEF Resolved, Sorted
    <2>5. BuyerOf[x] \in o.failed \/ BuyerOf[x] \notin o.sent
      BY <1>1, <2>4 DEF Sorted, InHand
    <2>6. Sorted(u) /\ Explained(u)
      BY <1>1, <1>6, <2>2, <2>5 DEF Sorted, Explained, InHand
    <2>7. \A y \in u.stored : Safe(y)'
      BY <1>1, <1>4, <2>2 DEF Safe
    <2> QED BY <1>1, <2>2, <2>3, <2>6, <2>7, Moves DEF Shapes, Safe, SyncedOnce
  <1>7. CASE ~AlreadyThere(x) /\ ~(x \in Document /\ ~Resolved(n, x))
    <2>1. PICK u : u = [n EXCEPT !.item = x, !.at = IF x \in Shop THEN "name" ELSE "post"]
      OBVIOUS
    <2>2. /\ u = [at |-> IF x \in Shop THEN "name" ELSE "post", item |-> x,
                  todo |-> o.todo \ {x}, sent |-> o.sent, known |-> o.known,
                  stored |-> o.stored, failed |-> o.failed, unknown |-> o.unknown]
          /\ u \in Uploads
      BY <1>3, <2>1 DEF Uploads, Stage
    <2>3. upload' = [upload EXCEPT ![s] = u]
      BY <1>0, <1>2, <1>7, <2>1 DEF FindItem
    <2>4. Sorted(u) /\ Explained(u)
      BY <1>1, <2>2 DEF Sorted, Explained, InHand, Item
    <2>5. \A y \in u.stored : Safe(y)'
      BY <1>1, <1>4, <2>2 DEF Safe
    <2> QED BY <1>1, <2>2, <2>3, <2>4, <2>5, Moves DEF Shapes, Safe, SyncedOnce
  <1> QED BY <1>5, <1>6, <1>7

\* The stage of a request moves on, on the item in hand.
LEMMA StageStep ==
    ASSUME IInv, NEW s \in Session, NEW a \in {"insert", "tag"},
           upload[s].at \in {"name", "insert"}, upload' = [upload EXCEPT ![s].at = a],
           UNCHANGED <<phone, awaited, docRows, faults, erased>>,
           shopRow' \in [Shop -> {"none", "untagged", "tagged", "office"}],
           \A x \in Shop : shopRow[x] = "tagged" => shopRow'[x] = "tagged"
    PROVE  IInv'
  <1> USE DEF IInv
  <1>0. PICK o, u : o = upload[s] /\ u = [o EXCEPT !.at = a]
    OBVIOUS
  <1>1. o \in Uploads /\ Sorted(o) /\ Explained(o) /\ InHand(o) = {o.item}
    BY <1>0 DEF Shapes, Sound, InHand
  <1>2. /\ u = [at |-> a, item |-> o.item, todo |-> o.todo, sent |-> o.sent,
                known |-> o.known, stored |-> o.stored, failed |-> o.failed,
                unknown |-> o.unknown]
        /\ u \in Uploads
    BY <1>0, <1>1 DEF Uploads, Stage
  <1>3. upload' = [upload EXCEPT ![s] = u]
    BY <1>0
  <1>4. Sorted(u) /\ Explained(u)
    BY <1>0, <1>1, <1>2 DEF Sorted, Explained, InHand
  <1>5. \A x \in Item : Safe(x) => Safe(x)'
    BY DEF Safe
  <1>6. \A x \in u.stored : Safe(x)'
    BY <1>0, <1>1, <1>2, <1>5, UploadFields DEF Kept
  <1> QED BY <1>2, <1>3, <1>4, <1>5, <1>6, Moves DEF Shapes, SyncedOnce

LEMMA ServerStep ==
    ASSUME IInv, NEW s \in Session,
           \/ CheckName(s) \/ InsertCustomer(s) \/ TagCustomer(s) \/ RefuseDocument(s)
           \/ CrashUpload(s)
           \/ \E d \in Document : PostDocument(s, d)
    PROVE  IInv'
  <1> USE DEF IInv
  <1>0. upload[s] \in Uploads /\ Sorted(upload[s])
    BY DEF Shapes, Sound
  <1>1. CASE CheckName(s)
    <2>1. /\ upload[s].at = "name" /\ UNCHANGED <<phone, awaited, shopRow, docRows, van, faults, erased>>
          /\ Refused(s, upload[s].item) \/ upload' = [upload EXCEPT ![s].at = "insert"]
      BY <1>1 DEF CheckName
    <2> QED BY <2>1, RefuseStep, StageStep DEF Shapes
  <1>2. CASE InsertCustomer(s)
    <2>1. upload[s].at = "insert" /\ UNCHANGED <<phone, docRows, van, faults, erased>>
      BY <1>2 DEF InsertCustomer
    <2>2. CASE shopRow[upload[s].item] # "none"
      BY <1>2, <2>1, <2>2, DeathStep DEF InsertCustomer, Shapes
    <2>3. CASE shopRow[upload[s].item] = "none"
      <3>1. /\ shopRow' = [shopRow EXCEPT ![upload[s].item] = "untagged"]
            /\ upload' = [upload EXCEPT ![s].at = "tag"] /\ UNCHANGED awaited
        BY <1>2, <2>3 DEF InsertCustomer
      <3>2. /\ shopRow' \in [Shop -> {"none", "untagged", "tagged", "office"}]
            /\ \A x \in Shop : shopRow[x] = "tagged" => shopRow'[x] = "tagged"
        BY <2>3, <3>1 DEF Shapes
      <3> QED BY <2>1, <3>1, <3>2, StageStep
    <2> QED BY <2>2, <2>3
  <1>3. CASE TagCustomer(s)
    <2>0. PICK x : x = upload[s].item
      OBVIOUS
    <2>1. /\ upload[s].at = "tag" /\ shopRow' = [shopRow EXCEPT ![x] = "tagged"]
          /\ StoredNow(s, x, TRUE)
          /\ UNCHANGED <<phone, awaited, docRows, van, faults, erased>>
      BY <1>3, <2>0 DEF TagCustomer
    <2>2. x \in Shop /\ x \in Item
      BY <1>0, <2>0, <2>1 DEF Sorted, Item
    <2>3. shopRow' \in [Shop -> {"none", "untagged", "tagged", "office"}] /\ shopRow'[x] = "tagged"
      BY <2>1, <2>2 DEF Shapes
    <2>4. Safe(x)' /\ \A y \in Item : Safe(y) => Safe(y)'
      BY <2>1, <2>2, <2>3 DEF Safe, Shapes
    <2> QED BY <2>0, <2>1, <2>2, <2>3, <2>4, StoreStep DEF Shapes, SyncedOnce
  <1>4. CASE RefuseDocument(s)
    BY <1>4, RefuseStep DEF RefuseDocument
  <1>5. CASE CrashUpload(s)
    <2>1. faults' \in 0..MaxFaults
      BY <1>5, FieldAssumption DEF CrashUpload, Shapes
    <2> QED BY <1>5, <2>1, DeathStep DEF CrashUpload
  <1>6. ASSUME NEW d \in Document, PostDocument(s, d)
        PROVE  IInv'
    <2>1. /\ upload[s].at = "post" /\ upload[s].item = d
          /\ UNCHANGED <<phone, shopRow, van, faults, erased>>
      BY <1>6 DEF PostDocument
    <2>2. CASE docRows[d] # 0
      BY <1>6, <2>1, <2>2, DeathStep DEF PostDocument, UniqueUuid, Shapes
    <2>3. CASE docRows[d] = 0
      <3>1. /\ docRows' = [docRows EXCEPT ![d] = @ + 1] /\ StoredNow(s, d, TRUE)
            /\ UNCHANGED awaited
        BY <1>6, <2>3 DEF PostDocument, UniqueUuid
      <3>2. docRows' \in [Document -> Nat] /\ docRows'[d] = 1 /\ SyncedOnce'
        BY <2>3, <3>1 DEF Shapes, SyncedOnce
      <3>3. Safe(d)' /\ \A y \in Item : Safe(y) => Safe(y)'
        BY <2>1, <3>1, <3>2, FieldAssumption DEF Safe, Shapes, Item
      <3>4. d \in Item
        BY DEF Item
      <3> QED BY <2>1, <3>1, <3>2, <3>3, <3>4, StoreStep DEF Shapes
    <2> QED BY <2>2, <2>3
  <1> QED BY <1>1, <1>2, <1>3, <1>4, <1>5, <1>6

-----------------------------------------------------------------------------
LEMMA InvStep == IInv /\ [FieldNext]_fieldVars => IInv'
  <1> SUFFICES ASSUME IInv, [FieldNext]_fieldVars
               PROVE  IInv'
    OBVIOUS
  <1>1. CASE UNCHANGED fieldVars
    BY <1>1 DEF fieldVars, IInv, Shapes, Sound, Sorted, Explained, InHand, Kept, Safe, SyncedOnce
  <1>2. CASE FieldNext
    BY <1>2, PhoneStep, OfficeStep, FindStep, ServerStep DEF FieldNext, UploadStep
  <1> QED BY <1>1, <1>2

LEMMA Invariance == FieldSpec => []IInv
  BY InvInit, InvStep, PTL DEF FieldSpec

\* However often a round is sent, and whichever answers are lost and requests die, each
\* document of it has one invoice or quotation at most (sync_field_documents).
THEOREM AlwaysSyncedOnce == FieldSpec => []SyncedOnce
  <1>1. IInv => SyncedOnce
    BY DEF IInv
  <1> QED BY <1>1, Invariance, PTL

\* What the phone drops from its queue is on the server, unless the office deleted it
\* since, and a document the server set aside for its buyer has a buyer that was refused
\* or did not travel with it.
THEOREM NothingEverGoesSilently == FieldSpec => []NothingGoesSilently
  <1>1. IInv => NothingGoesSilently
    <2> SUFFICES ASSUME IInv
                 PROVE  NothingGoesSilently
      OBVIOUS
    <2> USE DEF IInv
    <2>1. FieldTypeOK
      BY DEF FieldTypeOK, Shapes, Sound, Sorted
    <2>2. NeverSilentlyLost
      BY DEF NeverSilentlyLost, Kept, Safe
    <2>3. BuyerIsExplained
      BY DEF BuyerIsExplained, Sound, Explained
    <2> QED BY <2>1, <2>2, <2>3 DEF NothingGoesSilently
  <1> QED BY <1>1, Invariance, PTL
=============================================================================
