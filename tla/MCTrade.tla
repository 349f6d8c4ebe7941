------------------------------ MODULE MCTrade ------------------------------
EXTENDS PurchaseCycle, TLC

\* A buyer who orders and receives beside one who calls the order off, rewrites it or
\* receives as well; then a desk that returns, pays and edits beside another.
MCTrades == {1 :> {"send", "receive"} @@ 2 :> rest :
                rest \in {{"receive", "call_off"}, {"rewrite"}, {"edit", "pay"}, {"edit"},
                          {"return", "delete"}, {"return", "edit"}, {"pay", "expense"}, {"voucher", "return"}}}
            \cup {1 :> {"send", "receive", op} @@ 2 :> {op} : op \in {"return", "pay"}}
MCOrdered == {<<1, 1>>, <<2, 1>>}
MCDeliveries == {<< <<1, 1>> >>, << <<1, 1>>, <<2, 1>> >>, << <<1, 1>>, <<1, 1>> >>}
=============================================================================
