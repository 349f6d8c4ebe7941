------------------------------- MODULE Doors -------------------------------
(***************************************************************************)
(* Who may do what: the staff accounts, the permissions in force at each   *)
(* request, and the two operations that change an account while others     *)
(* work.  A request is let in by get_current_user and require_permissions  *)
(* on what the account holds then; the handler runs later.                 *)
(***************************************************************************)
EXTENDS Requests, Endpoints

CONSTANTS
    User,         \* ids of users
    RolesGiven,   \* bound: roles an update may give
    Lists,        \* bound: explicit permission lists an update may give
    MaxTurns,     \* bound: updates and deletions
    Staff         \* first accounts: functions from User to roles

\* seed_first_admin: a house starts with an administrator.
ASSUME DoorsAssumption ==
    /\ User \subseteq Nat \ {0} /\ RolesGiven \subseteq UserRole
    /\ \A f \in Staff : f \in [User -> UserRole] /\ \E u \in User : f[u] = "admin"

VARIABLES
    account,    \* users: role, explicit list, is_active
    traded,     \* users that some row of the system refers to
    turn,       \* the request each session carries out
    turns,      \* counts the updates and deletions
    met,        \* history: a deletion ran beside a change of another account
    emptied     \* history: an update took the last administrator away

doorVars == <<account, traded, turn, turns, met, emptied>>

NoList == {<<"no", "list">>}   \* permissions IS NULL

NoTurn == [op |-> "none", on |-> 0, was |-> {}]

DoorsInit ==
    /\ account \in {[u \in User |-> [role |-> f[u], list |-> NoList, active |-> TRUE, here |-> TRUE]] : f \in Staff}
    /\ traded = {} /\ turns = 0
    /\ turn = [s \in Session |-> NoTurn]
    /\ met = FALSE /\ emptied = FALSE

-----------------------------------------------------------------------------
(* Permissions *)

\* Fault: an explicit list comes on top of the role's.
EffectiveOnTop(a) ==
    IF a.role = "admin" \/ a.list = NoList THEN ROLE_DEFAULT_PERMISSIONS[a.role]
    ELSE ROLE_DEFAULT_PERMISSIONS[a.role] \cup (a.list \cap ALL_PERMISSIONS)
effective_permissions(a) ==
    IF a.role = "admin" THEN ALL_PERMISSIONS
    ELSE IF a.list # NoList THEN a.list \cap ALL_PERMISSIONS
    ELSE ROLE_DEFAULT_PERMISSIONS[a.role]

\* What a request of this user may ask for: get_current_user, then require_permissions.
Holds(u) ==
    IF account[u].here /\ account[u].active
    THEN effective_permissions(account[u]) \cup (Realms \ {<<"realm", "customer">>})
    ELSE {<<"realm", "nobody">>}

LetsIn(u, needs) == needs \in Holds(u)

\* Fault: an account that is switched off still counts.
AdminsBesidesAll(u) == {v \in User \ {u} : account[v].here /\ account[v].role = "admin"}
AdminsBesides(u) ==
    {v \in User \ {u} : account[v].here /\ account[v].role = "admin" /\ account[v].active}

Administered(acc) == \E u \in User : acc[u].here /\ acc[u].active /\ acc[u].role = "admin"

-----------------------------------------------------------------------------
(* Requests *)

Idle(s) == turn[s] = NoTurn

Takes(s, k) == turn' = [turn EXCEPT ![s] = k]

TradeNeeds == {e.needs : e \in {e \in Routes : e.writes /\ e.at # "auth" /\ e.needs \notin Realms}}

\* A request that writes: what it inserts says who made it.
Trade(u) ==
    /\ Holds(u) \cap TradeNeeds # {}
    /\ traded' = traded \cup {u}
    /\ UNCHANGED <<account, turn, turns, met, emptied>>

\* update_user and delete_user are let in and read the account; deleting counts the
\* administrators that would be left.
LoadAccount(s, u, v, op) ==
    /\ Idle(s)
    /\ LetsIn(u, <<"users", IF op = "delete" THEN "delete" ELSE "manage">>)
    /\ account[v].here
    /\ op = "delete" => /\ v # u
                        /\ account[v].role = "admin" => AdminsBesides(v) # {}
                        /\ v \notin traded
    /\ Takes(s, [op |-> op, on |-> v, was |-> {account[v]}])
    /\ turns < MaxTurns /\ turns' = turns + 1
    /\ met' = (met \/ \E r \in Session \ {s} : ~Idle(r))
    /\ UNCHANGED <<account, traded, emptied>>

\* The account as one field of UserUpdate leaves it.
Changes(s) ==
    UNION {{[a EXCEPT !.role = r] : r \in RolesGiven} \cup {[a EXCEPT !.list = l] : l \in Lists}
           \cup {[a EXCEPT !.active = b] : b \in BOOLEAN} : a \in turn[s].was}

\* update_user: nothing asks who would be left.
UpdateUser(s, new) ==
    /\ turn[s].op = "update" /\ account[turn[s].on].here
    /\ \E was \in turn[s].was :
          account' = [account EXCEPT ![turn[s].on] = [account[turn[s].on] EXCEPT
                        !.role = Column(@, was.role, new.role),
                        !.list = Column(@, was.list, new.list),
                        !.active = Column(@, was.active, new.active)]]
    /\ emptied' = (emptied \/ ~Administered(account'))
    /\ Takes(s, NoTurn)
    /\ UNCHANGED <<traded, turns, met>>

\* delete_user: the foreign keys hold on to an account that has traded since.
DeleteUser(s) ==
    /\ turn[s].op = "delete"
    /\ turn[s].on \notin traded
    /\ account' = [account EXCEPT ![turn[s].on].here = FALSE]
    /\ Takes(s, NoTurn)
    /\ UNCHANGED <<traded, turns, met, emptied>>

AbortTurn(s) ==
    /\ ~Idle(s) /\ Takes(s, NoTurn)
    /\ UNCHANGED <<account, traded, turns, met, emptied>>

DoorsNext ==
    \/ \E u \in User : Trade(u)
    \/ \E s \in Session :
          \/ AbortTurn(s) \/ DeleteUser(s)
          \/ \E u, v \in User, op \in {"update", "delete"} : LoadAccount(s, u, v, op)
          \/ \E new \in Changes(s) : UpdateUser(s, new)

DoorsSpec == DoorsInit /\ [][DoorsNext]_doorVars

-----------------------------------------------------------------------------
(* Properties *)

\* An account that has what its role gives and no more.
ByRole(u) == account[u].list = NoList /\ account[u].role # "admin"

\* Selling to a shop and chasing what it owes.
OwnCredit == In("sales", {"create", "collections"})

\* What the comments of the catalogue hold apart.
Halves ==
    {In("sales", {"returns", "refund_customer"}), In("sales", {"returns", "returns_cancel"}),
     In("stock", {"adjust", "adjust_cancel"}),
     In("stock", {"stocktake"}) \cup In("sales", {"round_settle_variance"}),
     In("stock", {"stocktake"}) \cup In("products", {"offers"}),
     In("sales", {"create", "rationed_manage"}), In("users", {"manage", "delete"}), OwnCredit}

\* The catalogue lists what guards a route (test_permissions.py: "a permission missing
\* from the catalogue is denied to admins").
RoutesAreListed == \A e \in Routes : e.needs \in ALL_PERMISSIONS \cup Realms

\* Every guard is listed, and whoever is signed in holds nothing else.
DoorsTypeOK ==
    /\ RoutesAreListed
    /\ \A u \in User : effective_permissions(account[u]) \subseteq ALL_PERMISSIONS
    /\ \A s \in Session : turn[s].on \in User \cup {0}

\* The halves the catalogue keeps apart (permissions.py:22, 70, 81, 92, 98, 109, 178) are in
\* no one's hands but an administrator's and those of people given a list of their own; but
\* for the salesman: "the person selling to a shop is the last one who wants to be the one
\* refusing it credit" (permissions.py:81), and the template of the role sales has both
\* (permissions.py:246, 256).
KeptApart ==
    \A u \in User : ByRole(u) =>
        LET held == Holds(u) IN
        \A pair \in Halves :
            pair \subseteq held => pair = OwnCredit /\ account[u].role = "sales"

PageNeeds ==
    {[perm |-> page.perm, reads |-> page.reads,
      needs |-> {e.needs : e \in {e \in Routes : <<e.at, e.op>> \in page.reads}}] : page \in NAV_ITEMS}

\* The two pages that also load what their permission does not cover.
Half == {<<"analytics", "expiry_worklist">>, <<"sales", "list_customer_credits">>}

PagesThatOpen == {page \in PageNeeds : page.reads \cap Half = {}}

\* Whoever the navigation shows a page to can load it (Layout.jsx: "each
\* role only sees the modules it can actually use"), but for the expiry worklist and the
\* till.
OtherPagesOpen ==
    \A u \in User : ByRole(u) =>
        LET held == Holds(u) IN
        \A page \in PagesThatOpen : page.perm \in held => page.needs \subseteq held

\* Somebody can still reach the permission screen (delete_user: "Losing the last
\* administrator locks everyone out"), unless update_user took the last one away, which
\* nothing stops, or two requests changed accounts at once.
SomeoneCanManage == emptied \/ met \/ Administered(account)

\* A person given a list can do what it says and no more of what the role could
\* (permissions.py: "explicit list wins").
ListIsAll ==
    \A u \in User : ~ByRole(u) /\ account[u].role # "admin" =>
        Holds(u) \subseteq account[u].list \cup Realms

\* Nobody holds what the catalogue keeps apart, but salesmen the credit of their own shops,
\* and everybody can do what he is shown.
HandsAreTheirOwn == DoorsTypeOK /\ KeptApart /\ OtherPagesOpen /\ ListIsAll
=============================================================================
