---------------------------- MODULE MCStockDocs ----------------------------
EXTENDS StockDocuments, TLC

\* Someone who opens, counts and posts beside a second click or a colleague; someone
\* who writes off and two who undo.
MCTasks == {1 :> {"open", "count", "post"} @@ 2 :> rest :
               rest \in {{"open"}, {"post"}, {"abandon"}, {"count"}}}
           \cup {1 :> {"writeoff", "undo"} @@ 2 :> {"undo"}}
MCHeld == <<2, 1>>
MCCostOf == <<3, 0>>
=============================================================================
