------------------------------- MODULE SignIn -------------------------------
(***************************************************************************)
(* A shop's way into the portal: the login row with its lockout and its    *)
(* temporary password.  A request loads the row and writes it later, the   *)
(* columns that differ.                                                    *)
(***************************************************************************)
EXTENDS Requests

CONSTANTS
    MAX_FAILED_ATTEMPTS, LOCKOUT_MINUTES,
    MaxClock,             \* bound: ticks
    MaxIssued,            \* bound: logins opened for the shop
    MaxVisits             \* bound: requests that reach the brake or the row

ASSUME SignInAssumption ==
    {MAX_FAILED_ATTEMPTS, LOCKOUT_MINUTES, MaxClock} \subseteq Nat \ {0}

VARIABLES
    hour,       \* the time
    access,     \* the row of customer_logins; id 0 when there is none
    issued,     \* id of the last login opened
    visits,     \* counts the requests
    knock,      \* the request each session carries out
    wrong,      \* history: wrong guesses answered since the count was last cleared
    jostled     \* history: two requests had the row at once

signVars == <<hour, access, issued, visits, knock, wrong, jostled>>

NoLogin == [id |-> 0, pw |-> "none", failed |-> 0, locked |-> 0, must |-> FALSE, active |-> FALSE]
NoKnock == [op |-> "none", pw |-> "none", row |-> NoLogin]

SignInit ==
    /\ hour = 1
    /\ access = [NoLogin EXCEPT !.id = 1, !.pw = "temporary", !.must = TRUE, !.active = TRUE]
    /\ knock = [s \in Session |-> NoKnock]
    /\ wrong = <<>> /\ jostled = FALSE /\ issued = 1 /\ visits = 0

-----------------------------------------------------------------------------
(* The row *)

\* The row after a request that loaded `was` and leaves it as `new`.
Saved(was, new) == [f \in DOMAIN access |-> Column(access[f], was[f], new[f])]

\* Fault: a lockout still running does not stop a guess.
NeverLocked(row) == FALSE
_is_locked(row)  == row.locked > hour

\* One more failure, and the lockout it may bring.
Failed(row) ==
    IF row.failed + 1 >= MAX_FAILED_ATTEMPTS
    THEN [row EXCEPT !.failed = 0, !.locked = hour + LOCKOUT_MINUTES]
    ELSE [row EXCEPT !.failed = @ + 1]

\* Fault: the office's password does not have to be changed.
ResetQuietly(row) == [row EXCEPT !.pw = "temporary", !.failed = 0, !.locked = 0]
Reset(row) == [row EXCEPT !.pw = "temporary", !.must = TRUE, !.failed = 0, !.locked = 0]

Loads(s, op, pw) ==
    /\ knock[s] = NoKnock
    /\ knock' = [knock EXCEPT ![s] = [op |-> op, pw |-> pw, row |-> access]]
    /\ jostled' = (jostled \/ \E r \in Session \ {s} : knock[r] # NoKnock)

Visit == visits < MaxVisits /\ visits' = visits + 1

Ends(s) == knock' = [knock EXCEPT ![s] = NoKnock]

\* authenticate up to the lockout.
Knock(s, pw) ==
    /\ Visit /\ Loads(s, "sign_in", pw)
    /\ UNCHANGED <<hour, issued, access, wrong>>

\* authenticate from the lockout on.
Authenticate(s) ==
    /\ knock[s].op = "sign_in"
    /\ LET row == knock[s].row
           right == row.pw = knock[s].pw IN
       \/ /\ row.id = 0 \/ _is_locked(row) \/ (right /\ ~row.active)
          /\ UNCHANGED <<access, wrong>>
       \/ /\ row.id # 0 /\ ~_is_locked(row) /\ ~right /\ access.id = row.id
          /\ access' = Saved(row, Failed(row))
          /\ wrong' = Append(wrong, hour)
       \/ /\ row.id # 0 /\ ~_is_locked(row) /\ right /\ row.active /\ access.id = row.id
          /\ access' = Saved(row, [row EXCEPT !.failed = 0, !.locked = 0])
          /\ wrong' = <<>>
    /\ Ends(s)
    /\ UNCHANGED <<visits, hour, issued, jostled>>

\* change_password and update_login load the row ...
LoadLogin(s, op) ==
    /\ Visit /\ access.id # 0 /\ (op = "change" => access.active)
    /\ Loads(s, op, access.pw)
    /\ UNCHANGED <<hour, issued, access, wrong>>

\* ... and write it: the shop's new password is another one, ...
ChangePassword(s) ==
    /\ knock[s].op = "change" /\ access.id = knock[s].row.id
    /\ access' = Saved(knock[s].row,
                       [knock[s].row EXCEPT !.pw = IF @ = "own" THEN "newer" ELSE "own", !.must = FALSE])
    /\ Ends(s)
    /\ UNCHANGED <<visits, hour, issued, wrong, jostled>>

\* ... the office suspends, restores, or resets.
UpdateLogin(s) ==
    /\ knock[s].op = "office" /\ access.id = knock[s].row.id
    /\ \/ /\ access' = Saved(knock[s].row, [knock[s].row EXCEPT !.active = ~@])
          /\ UNCHANGED wrong
       \/ /\ access' = Saved(knock[s].row, Reset(knock[s].row))
          /\ wrong' = <<>>
    /\ Ends(s)
    /\ UNCHANGED <<visits, hour, issued, jostled>>

DeleteLogin ==
    /\ access.id # 0
    /\ access' = NoLogin
    /\ UNCHANGED <<visits, hour, issued, knock, wrong, jostled>>

CreateLogin ==
    /\ access.id = 0 /\ issued < MaxIssued /\ issued' = issued + 1
    /\ access' = [NoLogin EXCEPT !.id = issued', !.pw = "temporary", !.must = TRUE,
                                 !.active = TRUE]
    /\ wrong' = <<>>
    /\ UNCHANGED <<visits, hour, knock, jostled>>

AbortKnock(s) ==
    /\ knock[s] # NoKnock /\ Ends(s)
    /\ UNCHANGED <<visits, hour, issued, access, wrong, jostled>>

Tick ==
    /\ hour < MaxClock /\ hour' = hour + 1
    /\ UNCHANGED <<visits, issued, access, knock, wrong, jostled>>

\* The process stops: the row stays, the requests are gone.
Crash ==
    /\ knock' = [s \in Session |-> NoKnock]
    /\ UNCHANGED <<visits, hour, issued, access, wrong, jostled>>

SignNext ==
    \/ Tick \/ Crash \/ DeleteLogin \/ CreateLogin
    \/ \E s \in Session :
          \/ Authenticate(s) \/ ChangePassword(s) \/ UpdateLogin(s) \/ AbortKnock(s)
          \/ \E pw \in {access.pw, "wrong"} : Knock(s, pw)
          \/ \E op \in {"change", "office"} : LoadLogin(s, op)

SignSpec == SignInit /\ [][SignNext]_signVars

-----------------------------------------------------------------------------
(* Properties *)

\* Between two clearings of the count, any stretch of the lockout's length answers no
\* more wrong guesses than it takes to lock, restarts included (CustomerLogin: "a restart
\* does not reset an attack"), unless two requests had the row at once: each then adds
\* to the count it loaded.
LockoutHolds ==
    jostled \/ \A i \in 1..(Len(wrong) - MAX_FAILED_ATTEMPTS) :
                   wrong[i + MAX_FAILED_ATTEMPTS] - wrong[i] >= LOCKOUT_MINUTES

\* A password the office handed out opens nothing but the password screen, unless a
\* reset ran beside another request: the flag it loaded as set is not written again.
TemporaryIsReplaced == jostled \/ (access.pw = "temporary" => access.must)
=============================================================================
