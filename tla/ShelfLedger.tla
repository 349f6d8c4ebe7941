---------------------------- MODULE ShelfLedger ----------------------------
(***************************************************************************)
(* What the stock promises to the rest of the system: the quantity of a    *)
(* product in a warehouse (a shelf) is changed by whole documents only,    *)
(* one at a time, each by exactly what its lines say, and never below      *)
(* zero.                                                                   *)
(***************************************************************************)
EXTENDS Integers

CONSTANTS
    Shelf,
    First,      \* First[sh]: quantity on hand at the start
    Document    \* the changes [Shelf -> Int] documents make

VARIABLE onhand

Init == onhand = First

Apply(d) ==
    /\ \A sh \in Shelf : onhand[sh] + d[sh] >= 0
    /\ onhand' = [sh \in Shelf |-> onhand[sh] + d[sh]]

Next == \E d \in Document : Apply(d)

Spec == Init /\ [][Next]_onhand

=============================================================================
