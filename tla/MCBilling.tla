----------------------------- MODULE MCBilling -----------------------------
EXTENDS OrderBilling, TLC

\* An office that bills orders beside a shop that orders and withdraws, a colleague
\* who decides or a second click; then the same with quotations.
MCDuties == {1 :> {"place", "invoice"} @@ 2 :> rest :
                rest \in {{"place"}, {"approve", "reject"}, {"withdraw"}, {"invoice"}}}
            \cup {1 :> {"quote", "convert"} @@ 2 :> {"drop", "convert"}}
MCBuyerFor == [p \in 1..3 |-> 1]
=============================================================================
