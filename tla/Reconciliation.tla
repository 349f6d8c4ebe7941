--------------------------- MODULE Reconciliation ---------------------------
(***************************************************************************)
(* Bank reconciliation: the lines of the bank's statement, typed in, each  *)
(* matched with the journal item it is.  A match loads the line and the    *)
(* item, checks both, and writes later; a unique index stands on the item. *)
(***************************************************************************)
EXTENDS Requests

CONSTANTS
    Statement,   \* ids of bank_statement_lines
    Movement,    \* ids of journal_items on the bank account
    Other,       \* ids of journal_items on other accounts
    Inflow,      \* lines and items that bring money in
    Backlog      \* what a session may do: functions from sessions to requests

ASSUME ReconciliationAssumption ==
    /\ Statement \subseteq Nat \ {0} /\ Movement \cup Other \subseteq Nat \ {0}
    /\ IsFiniteSet(Movement)
    /\ Inflow \in [line : SUBSET Statement, item : SUBSET (Movement \cup Other)]

VARIABLES
    matched,     \* item of a statement line: 0 none, -1 while it is not typed in
    journal,     \* items on the books
    matcher,     \* the request each session carries out
    chores,      \* what each session does in this behaviour
    crossed      \* history: lines two requests had loaded at once

reconciliationVars == <<matched, journal, matcher, chores, crossed>>

NoMatcher == [op |-> "idle", line |-> 0, item |-> 0]

ReconciliationInit ==
    /\ matched = [l \in Statement |-> -1]
    /\ journal = {}
    /\ matcher = [s \in Session |-> NoMatcher]
    /\ chores \in Backlog
    /\ crossed = {}

SameDirection(l, i) == (l \in Inflow.line) = (i \in Inflow.item)

ClaimedBy(i) == {l \in Statement : matched[l] = i}

\* list_unmatched_journal_items
Unclaimed == {i \in journal \cap Movement : ClaimedBy(i) = {}}

\* create_line
TypeLine(l) ==
    /\ matched[l] = -1
    /\ matched' = [matched EXCEPT ![l] = 0]
    /\ UNCHANGED <<journal, matcher, crossed>>

\* An entry is posted; the entry of an invoice that is edited or deleted goes, but a
\* foreign key holds the item of a matched line.
Post(i) == journal' = journal \cup {i} /\ UNCHANGED <<matched, matcher, crossed>>

Unpost(i) ==
    /\ ClaimedBy(i) = {} /\ journal' = journal \ {i}
    /\ UNCHANGED <<matched, matcher, crossed>>

\* Fault: a matched line may be matched.
LineTyped(l)  == matched[l] >= 0
LineIsFree(l) == matched[l] = 0

Holders(l) == {t \in Session : matcher[t].line = l}

\* match, up to the write: the line is free, the item is a free movement of the bank,
\* in the same direction.
LoadMatch(s, l, i) ==
    /\ matcher[s] = NoMatcher /\ "match" \in chores[s]
    /\ LineIsFree(l) /\ i \in Unclaimed /\ SameDirection(l, i)
    /\ matcher' = [matcher EXCEPT ![s] = [op |-> "match", line |-> l, item |-> i]]
    /\ crossed' = IF Holders(l) # {} THEN crossed \cup {l} ELSE crossed
    /\ UNCHANGED <<matched, journal>>

\* Fault: no index on matched_journal_item_id.
AnyItem(i) == TRUE
FreeItem(i) == ClaimedBy(i) = {}

\* The line takes the item, unless another line has it or it is gone.
Match(s) ==
    /\ matcher[s].op = "match"
    /\ matcher[s].item \in journal
    /\ \/ FreeItem(matcher[s].item)
       \/ matched[matcher[s].line] = matcher[s].item
    /\ matched' = [matched EXCEPT ![matcher[s].line] = matcher[s].item]
    /\ matcher' = [matcher EXCEPT ![s] = NoMatcher]
    /\ UNCHANGED <<journal, crossed>>

LoadUnmatch(s, l) ==
    /\ matcher[s] = NoMatcher /\ "unmatch" \in chores[s]
    /\ matched[l] > 0
    /\ matcher' = [matcher EXCEPT ![s] = [op |-> "unmatch", line |-> l, item |-> matched[l]]]
    /\ crossed' = IF Holders(l) # {} THEN crossed \cup {l} ELSE crossed
    /\ UNCHANGED <<matched, journal>>

Unmatch(s) ==
    /\ matcher[s].op = "unmatch"
    /\ matched' = [matched EXCEPT ![matcher[s].line] = 0]
    /\ matcher' = [matcher EXCEPT ![s] = NoMatcher]
    /\ UNCHANGED <<journal, crossed>>

\* A refusal, the unique index, a crash.
AbortMatch(s) ==
    /\ matcher[s] # NoMatcher
    /\ matcher' = [matcher EXCEPT ![s] = NoMatcher]
    /\ UNCHANGED <<matched, journal, crossed>>

ReconciliationStep ==
    \/ \E l \in Statement : TypeLine(l)
    \/ \E i \in Movement \cup Other : Post(i) \/ Unpost(i)
    \/ \E s \in Session :
          \/ Match(s) \/ Unmatch(s) \/ AbortMatch(s)
          \/ \E l \in Statement : LoadUnmatch(s, l)
                                  \/ \E i \in Movement \cup Other : LoadMatch(s, l, i)

ReconciliationNext == ReconciliationStep /\ UNCHANGED chores

ReconciliationSpec == ReconciliationInit /\ [][ReconciliationNext]_reconciliationVars

-----------------------------------------------------------------------------
(* Properties *)

Matched == {l \in Statement : matched[l] > 0}

\* A matched line and its item are one movement: no item is claimed twice, what is
\* claimed is on the books, on the bank account, and in the line's direction; and what
\* is left unmatched on the books is what no line claims (summary).
OneMovement ==
    /\ \A l, m \in Matched : matched[l] = matched[m] => l = m
    /\ \A l \in Matched : matched[l] \in journal \cap Movement /\ SameDirection(l, matched[l])
    /\ Cardinality(Unclaimed) + Cardinality(Matched) = Cardinality(journal \cap Movement)

\* A match is undone before it is made again (match: "one bank movement can never be
\* reconciled against two different entries"), unless two requests had loaded the line.
MatchStands ==
    [][\A l \in Matched \ crossed : matched'[l] \in {0, matched[l]}]_reconciliationVars
=============================================================================
