------------------------------ MODULE Requests ------------------------------
(***************************************************************************)
(* What the modules of the office have in common.  A session is one HTTP   *)
(* request and one READ COMMITTED transaction: the statements that load    *)
(* rows are steps of their own, the last step writes and commits.  Between *)
(* two steps of a session any other may run.  Id 0 stands for no row.      *)
(***************************************************************************)
EXTENDS Integers, Sequences, FiniteSets

CONSTANT Session   \* requests in flight

AtMost(a, b)  == IF a <= b THEN a ELSE b
AtLeast(a, b) == IF a >= b THEN a ELSE b

\* A column is written when it differs from what the request had loaded.
Column(now, was, new) == IF was = new THEN now ELSE new

\* The row a serial primary key gives the next insert, 0 when the bound is met.
NextId(table, ids, free) ==
    IF \E i \in ids : table[i] = free
    THEN CHOOSE i \in ids : table[i] = free /\ \A j \in ids : j < i => table[j] # free
    ELSE 0

=============================================================================
