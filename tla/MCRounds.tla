------------------------------ MODULE MCRounds ------------------------------
EXTENDS Rounds, TLC

\* The office opens, closes and gives up rounds beside a second click; it closes while
\* the van sells on, is counted, takes goods back, or has its invoices corrected; it hands
\* the van over.
MCErrands == {1 :> {"open", "close"} @@ 2 :> {"close", "drop"},
              1 :> {"close"} @@ 2 :> {"count", "sell"},
              1 :> {"close"} @@ 2 :> {"drop", "sell", "takeback"},
              1 :> {"close"} @@ 2 :> {"correct", "sell"},
              1 :> {"close"} @@ 2 :> {"assign", "sell"}}
MCDrives == <<1, 0>>
MCCostPer == <<3, 1>>
MCOutcome == {<<-1, 0>>, <<-1, 1>>}
=============================================================================
