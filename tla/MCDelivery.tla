----------------------------- MODULE MCDelivery -----------------------------
EXTENDS Delivery, TLC

CONSTANTS office, desk   \* the two sessions

Trips == {"add", "remove", "dispatch", "decide", "complete"}

\* The office plans and closes trips beside one other desk at a time.
MCRosters == {office :> Trips @@ desk :> duties :
                duties \in {{"add", "dispatch"}, {"remove", "decide"}, {"return"},
                            {"pickup", "edit"}, {"delete"}}}

MCSold == <<<< [batch |-> 1, n |-> 1] >>, << [batch |-> 2, n |-> 1] >>>>
MCWarehouseOf == [x \in -2..2 |-> 1]
=============================================================================
