-------------------------- MODULE MCReconciliation --------------------------
EXTENDS Reconciliation, TLC
MCBacklog == {1 :> {"match"} @@ 2 :> {"match"}, 1 :> {"match"} @@ 2 :> {"unmatch"},
              1 :> {"match", "unmatch"} @@ 2 :> {"match"}}
MCInflow == [line |-> {1, 2}, item |-> {1, 2}]
=============================================================================
