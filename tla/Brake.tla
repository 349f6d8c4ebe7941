------------------------------- MODULE Brake -------------------------------
(***************************************************************************)
(* The brake on repeated sign-ins from one source: a sliding window of     *)
(* attempts kept in the memory of the process.  enforce runs without a     *)
(* pause, so an attempt is one step.                                       *)
(***************************************************************************)
EXTENDS Requests

CONSTANTS
    Source,                        \* bucket and address an attempt comes from
    WINDOW_SECONDS, MAX_ATTEMPTS,
    MaxKeys,                       \* sources kept before the quiet ones are swept away
    MaxSeconds                     \* bound: the clock

ASSUME BrakeAssumption == {WINDOW_SECONDS, MAX_ATTEMPTS, MaxKeys, MaxSeconds} \subseteq Nat \ {0}

VARIABLES
    second,     \* monotonic()
    attempts,   \* times of the attempts let through, per source
    passed      \* history: the last of them, swept away or not

brakeVars == <<second, attempts, passed>>

BrakeInit ==
    /\ second = 1
    /\ attempts = [c \in Source |-> <<>>] /\ passed = [c \in Source |-> <<>>]

\* Fault: a fixed window, which starts anew.
ExpiredAtTurn(t) == t \div WINDOW_SECONDS # second \div WINDOW_SECONDS
Expired(t)       == t < second - WINDOW_SECONDS

\* The attempts left when the expired ones are taken off the front, oldest first.
Recent(hits) ==
    LET oldest == CHOOSE i \in 1..(Len(hits) + 1) :
                     /\ \A j \in 1..(i - 1) : Expired(hits[j])
                     /\ i <= Len(hits) => ~Expired(hits[i])
    IN  SubSeq(hits, oldest, Len(hits))

Stale(hits) == hits = <<>> \/ Expired(hits[Len(hits)])

\* The map without the sources that went quiet, once it is large.
Swept(all) ==
    IF Cardinality({c \in Source : all[c] # <<>>}) > MaxKeys
    THEN [c \in Source |-> IF Stale(all[c]) THEN <<>> ELSE all[c]] ELSE all

Newest(times) ==
    IF Len(times) > MAX_ATTEMPTS + 1 THEN Tail(times) ELSE times

\* enforce: an attempt is counted and let through, ...
Counted(c) ==
    /\ Len(Recent(attempts[c])) < MAX_ATTEMPTS
    /\ attempts' = Swept([attempts EXCEPT ![c] = Append(Recent(@), second)])
    /\ passed' = [passed EXCEPT ![c] = Newest(Append(@, second))]
    /\ UNCHANGED second

\* ... or refused, leaving the trimmed window.
Refused(c) ==
    /\ Len(Recent(attempts[c])) >= MAX_ATTEMPTS
    /\ attempts' = [attempts EXCEPT ![c] = Recent(@)]
    /\ UNCHANGED <<second, passed>>

Passes ==
    /\ second < MaxSeconds /\ second' = second + 1
    /\ UNCHANGED <<attempts, passed>>

\* The process starts again and has forgotten.
Restart ==
    /\ attempts' = [c \in Source |-> <<>>] /\ passed' = [c \in Source |-> <<>>]
    /\ UNCHANGED second

BrakeNext == Passes \/ Restart \/ \E c \in Source : Counted(c) \/ Refused(c)

BrakeSpec == BrakeInit /\ [][BrakeNext]_brakeVars


-----------------------------------------------------------------------------
(* Properties *)

\* Whatever the map sweeps away, any stretch of the window lets through no more than the
\* limit from one source (enforce: a fixed window would let through "twice the intended
\* rate at the moment it matters most").
SignInsAreSpaced ==
    \A c \in Source : \A i \in 1..(Len(passed[c]) - MAX_ATTEMPTS) :
        passed[c][i + MAX_ATTEMPTS] - passed[c][i] > WINDOW_SECONDS
=============================================================================
