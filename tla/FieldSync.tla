----------------------------- MODULE FieldSync -----------------------------
(***************************************************************************)
(* The salesman's phone and the upload of its round.                       *)
(*                                                                         *)
(* Shops registered and documents written offline wait in the phone's      *)
(* queue, each under the uuid it was given there.  One request carries the *)
(* whole queue; the server commits it item by item, shops first, so a      *)
(* request that dies leaves what it committed.  The phone drops what the   *)
(* answer calls created or duplicate, and sends the rest again.            *)
(***************************************************************************)
EXTENDS Requests

CONSTANTS
    Shop,       \* shops first registered on the phone
    Document,   \* sales and orders written on the phone
    NoShop,     \* the buyer of a document that names a customer by server id
    BuyerOf,    \* the buyer a document names
    VanSale,    \* the documents that sell off the van; the others are orders
    NameClash,  \* shops of a name head office may register too
    MaxFaults   \* bound: requests that crash and answers that are lost

ASSUME FieldAssumption ==
    /\ Shop \cap Document = {} /\ NoShop \notin Shop /\ BuyerOf \in [Document -> Shop \cup {NoShop}]
    /\ VanSale \subseteq Document /\ NameClash \subseteq Shop /\ MaxFaults \in Nat

VARIABLES
    phone,      \* where an item is: not yet written, in the queue, dropped from it
    awaited,    \* the request whose answer the phone waits for, or none
    upload,     \* the requests on the server
    shopRow,    \* customers: the row of a shop, and whether it has its uuid
    docRows,    \* rows of sales_invoices or sales_quotations with a document's uuid
    van,        \* the salesman has an active vehicle
    faults,     \* counts crashes and lost answers
    erased      \* history: documents the office deleted after they were posted

fieldVars == <<phone, awaited, upload, shopRow, docRows, van, faults, erased>>

Item == Shop \cup Document

NoSession == 0

NoUpload == [at |-> "idle", item |-> NoShop, todo |-> {}, sent |-> {}, known |-> {},
             stored |-> {}, failed |-> {}, unknown |-> {}]

FieldInit ==
    /\ phone = [x \in Item |-> "blank"]
    /\ awaited = NoSession
    /\ upload = [s \in Session |-> NoUpload]
    /\ shopRow = [x \in Shop |-> "none"]
    /\ docRows = [d \in Document |-> 0]
    /\ van \in BOOLEAN
    /\ faults = 0
    /\ erased = {}

-----------------------------------------------------------------------------
(* Guards, and what they would be with a plausible slip *)

\* Fault: an upload does not look for what an earlier one stored.
FindsNothing(x) == FALSE
AlreadyThere(x) == IF x \in Shop THEN shopRow[x] = "tagged" ELSE docRows[x] > 0

\* Fault: client_uuid is indexed but not unique.
AnyUuid(d)    == TRUE
UniqueUuid(d) == docRows[d] = 0

KnownNow(u, x, new)   == u.known \cup ({x} \cap Shop)

\* Fault: the phone drops whatever the answer mentions.
Mentioned(u) == u.stored \cup u.failed
Stored(u)    == u.stored

Resolved(u, d) == BuyerOf[d] = NoShop \/ BuyerOf[d] \in u.known

-----------------------------------------------------------------------------
(* The phone *)

\* A document may name a shop by uuid while the shop itself is in the queue.
Enqueue(x) ==
    /\ phone[x] = "blank"
    /\ x \in Document => BuyerOf[x] \in {b \in Shop : phone[b] = "queued"} \cup {NoShop}
    /\ phone' = [phone EXCEPT ![x] = "queued"]
    /\ UNCHANGED <<awaited, upload, shopRow, docRows, van, faults, erased>>

\* sync: one upload at a time, of everything queued.
Send(s) ==
    /\ awaited = NoSession /\ upload[s].at = "idle"
    /\ LET queued == {x \in Item : phone[x] = "queued"} IN
       /\ queued # {}
       /\ upload' = [upload EXCEPT ![s] = [NoUpload EXCEPT !.at = "next", !.todo = queued,
                                                           !.sent = queued]]
    /\ awaited' = s
    /\ UNCHANGED <<phone, shopRow, docRows, van, faults, erased>>

\* The connection drops: the phone may send again, the server goes on.
LoseAnswer ==
    /\ awaited # NoSession /\ faults < MaxFaults
    /\ faults' = faults + 1
    /\ awaited' = NoSession
    /\ UNCHANGED <<phone, upload, shopRow, docRows, van, erased>>

\* The answer: created and duplicate leave the queue, failed stays in it.
Answer(s) ==
    /\ upload[s].at = "next" /\ upload[s].todo = {}
    /\ phone' = IF awaited = s
                THEN [x \in Item |-> IF x \in Stored(upload[s]) THEN "gone" ELSE phone[x]]
                ELSE phone
    /\ awaited' = IF awaited = s THEN NoSession ELSE awaited
    /\ upload' = [upload EXCEPT ![s] = NoUpload]
    /\ UNCHANGED <<shopRow, docRows, van, faults, erased>>

-----------------------------------------------------------------------------
(* The server: _sync_customer and _sync_document *)

Finish(s, u) == upload' = [upload EXCEPT ![s] = [u EXCEPT !.at = "next", !.item = NoShop]]

StoredNow(s, x, new) ==
    LET u == upload[s]
    IN  Finish(s, [u EXCEPT !.stored = @ \cup {x}, !.known = KnownNow(u, x, new)])

Refused(s, x) == Finish(s, [upload[s] EXCEPT !.failed = @ \cup {x}])

\* An error that is not an AppException ends the whole request: 500.
Dies(s) ==
    /\ upload' = [upload EXCEPT ![s] = NoUpload]
    /\ awaited' = IF awaited = s THEN NoSession ELSE awaited

\* The next item is looked up by its uuid, shops before documents.
FindItem(s, x) ==
    /\ upload[s].at = "next" /\ x \in upload[s].todo
    /\ x \in Document => upload[s].todo \cap Shop = {}
    /\ LET u == [upload[s] EXCEPT !.todo = @ \ {x}] IN
       IF AlreadyThere(x)
       THEN Finish(s, [u EXCEPT !.stored = @ \cup {x}, !.known = KnownNow(u, x, FALSE)])
       ELSE IF x \in Document /\ ~Resolved(u, x)
       THEN Finish(s, [u EXCEPT !.failed = @ \cup {x}, !.unknown = @ \cup {x}])
       ELSE upload' = [upload EXCEPT ![s] = [u EXCEPT !.item = x,
                           !.at = IF x \in Shop THEN "name" ELSE "post"]]
    /\ UNCHANGED <<phone, awaited, shopRow, docRows, van, faults, erased>>

\* create_customer reads whether the name is taken.
CheckName(s) ==
    /\ upload[s].at = "name"
    /\ LET x == upload[s].item IN
       IF shopRow[x] # "none" THEN Refused(s, x)
       ELSE upload' = [upload EXCEPT ![s].at = "insert"]
    /\ UNCHANGED <<phone, awaited, shopRow, docRows, van, faults, erased>>

\* create_customer commits the row, without its uuid; the name is unique.
InsertCustomer(s) ==
    /\ upload[s].at = "insert"
    /\ LET x == upload[s].item IN
       IF shopRow[x] # "none" THEN Dies(s) /\ UNCHANGED shopRow
       ELSE /\ shopRow' = [shopRow EXCEPT ![x] = "untagged"]
            /\ upload' = [upload EXCEPT ![s].at = "tag"]
            /\ UNCHANGED awaited
    /\ UNCHANGED <<phone, docRows, van, faults, erased>>

\* The uuid is set, and committed, after it.
TagCustomer(s) ==
    /\ upload[s].at = "tag"
    /\ LET x == upload[s].item IN
       /\ shopRow' = [shopRow EXCEPT ![x] = "tagged"]
       /\ StoredNow(s, x, TRUE)
    /\ UNCHANGED <<phone, awaited, docRows, van, faults, erased>>

\* create_invoice, off the van, or create_quotation: one commit, uuid included.
PostDocument(s, d) ==
    /\ upload[s].at = "post" /\ upload[s].item = d
    /\ d \in VanSale => van
    /\ IF UniqueUuid(d)
       THEN /\ docRows' = [docRows EXCEPT ![d] = @ + 1]
            /\ StoredNow(s, d, TRUE) /\ UNCHANGED awaited
       ELSE Dies(s) /\ UNCHANGED docRows
    /\ UNCHANGED <<phone, shopRow, van, faults, erased>>

\* No van, short stock, over the credit limit, a suspended customer...
RefuseDocument(s) ==
    /\ upload[s].at = "post"
    /\ Refused(s, upload[s].item)
    /\ UNCHANGED <<phone, awaited, shopRow, docRows, van, faults, erased>>

\* The process stops: what was committed stays.
CrashUpload(s) ==
    /\ upload[s].at # "idle" /\ faults < MaxFaults
    /\ faults' = faults + 1
    /\ Dies(s)
    /\ UNCHANGED <<phone, shopRow, docRows, van, erased>>

-----------------------------------------------------------------------------
(* Head office *)

AssignVan ==
    /\ ~van /\ van' = TRUE
    /\ UNCHANGED <<phone, awaited, upload, shopRow, docRows, faults, erased>>

RegisterAtOffice(x) ==
    /\ x \in NameClash /\ shopRow[x] = "none"
    /\ shopRow' = [shopRow EXCEPT ![x] = "office"]
    /\ UNCHANGED <<phone, awaited, upload, docRows, van, faults, erased>>

\* delete_invoice takes the uuid with the row.
EraseSale(d) ==
    /\ d \in VanSale \ erased /\ docRows[d] > 0
    /\ docRows' = [docRows EXCEPT ![d] = @ - 1]
    /\ erased' = erased \cup {d}
    /\ UNCHANGED <<phone, awaited, upload, shopRow, van, faults>>

-----------------------------------------------------------------------------
UploadStep(s) ==
    \/ Answer(s) \/ CheckName(s) \/ InsertCustomer(s) \/ TagCustomer(s)
    \/ \E x \in Item : FindItem(s, x)

FieldNext ==
    \/ LoseAnswer \/ AssignVan
    \/ \E x \in Item : Enqueue(x)
    \/ \E x \in Shop : RegisterAtOffice(x)
    \/ \E d \in Document : EraseSale(d)
    \/ \E s \in Session :
          \/ Send(s) \/ UploadStep(s) \/ CrashUpload(s) \/ RefuseDocument(s)
          \/ \E d \in Document : PostDocument(s, d)

\* The phone sends whenever it is opened or comes back on line; the server works
\* on; a document that is tried for ever is accepted in the end.
FieldFairness ==
    /\ WF_fieldVars(\E s \in Session : Send(s))
    /\ WF_fieldVars(AssignVan)
    /\ \A s \in Session : WF_fieldVars(UploadStep(s) \/ RefuseDocument(s))
    /\ \A d \in Document : SF_fieldVars(\E s \in Session : PostDocument(s, d))

FieldSpec == FieldInit /\ [][FieldNext]_fieldVars /\ FieldFairness

-----------------------------------------------------------------------------
(* Properties *)

\* Every table, the phone and every upload keep their shape.
FieldTypeOK ==
    /\ phone \in [Item -> {"blank", "queued", "gone"}]
    /\ awaited \in Session \cup {NoSession}
    /\ shopRow \in [Shop -> {"none", "untagged", "tagged", "office"}]
    /\ docRows \in [Document -> Nat]
    /\ faults \in 0..MaxFaults
    /\ \A s \in Session : LET u == upload[s] IN
          /\ u.stored \cup u.failed \cup u.todo \subseteq u.sent
          /\ u.stored \cap u.failed = {} /\ u.known = u.stored \cap Shop

\* However often a round is sent, a document of it is posted once
\* (FieldSyncIn: "Safe to resend").
SyncedOnce == \A d \in Document : docRows[d] <= 1

\* What the phone dropped is on the server, unless the office deleted it since
\* (useFieldSync: "so the round is never silently lost").
NeverSilentlyLost ==
    \A x \in Item : phone[x] = "gone" =>
        IF x \in Shop THEN shopRow[x] = "tagged" ELSE docRows[x] > 0 \/ x \in erased

\* A document that "cannot tell its customer" has one that failed in this upload,
\* or that did not travel with it.
BuyerIsExplained ==
    \A s \in Session : \A d \in upload[s].unknown :
        BuyerOf[d] \in upload[s].failed \/ BuyerOf[d] \notin upload[s].sent

\* A row without its uuid, or head office's: an upload will always find the name taken.
Blocked(x) == x \in Shop /\ shopRow[x] \in {"untagged", "office"}

\* The shop was dropped from the queue before a document that names it.
Stranded(x) == x \in Document /\ BuyerOf[x] # NoShop /\ phone[BuyerOf[x]] = "gone"

\* What is queued reaches the server, unless its shop's row was left without a uuid
\* or its name was taken, or the shop left the queue before it.
RoundReaches ==
    \A x \in Item :
        (phone[x] = "queued") ~>
            \/ phone[x] = "gone"
            \/ Blocked(x)
            \/ x \in Document /\ Blocked(BuyerOf[x])
            \/ Stranded(x)

\* What the phone let go of is on the server, and a document the server set aside has its
\* reason, whatever is lost or sent again.
NothingGoesSilently == FieldTypeOK /\ NeverSilentlyLost /\ BuyerIsExplained
=============================================================================
