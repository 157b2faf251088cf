------------------------------ MODULE Accounts ------------------------------
(***************************************************************************)
(* The accounts of the web interface: first-run set-up, login and logout   *)
(* (app/routers/login.py), the session that every request brings along in  *)
(* its cookie and the middleware that compares it with the accounts        *)
(* (app/middleware.py), and the pages that add, delete and change accounts *)
(* (app/routers/settings.py, access_v23.py).                               *)
(*                                                                         *)
(* A session is nowhere but in the cookie: a request works on the copy it  *)
(* brought, and its answer puts that copy back when it was changed. Most   *)
(* handlers run in threads and hash a password between their checks and    *)
(* their commit.                                                           *)
(***************************************************************************)
EXTENDS Integers, FiniteSets, FiniteSetsExt

CONSTANTS
    Names,        \* user names
    Browsers,
    Slots,        \* requests that are handled at a time
    MaxRequests   \* bound: requests

VARIABLES
    users,      \* rows of users
    manages,    \* ids whose permissions document grants user management
    onboarded,  \* the marker of the guided set-up
    cookie,     \* per browser: its session
    req,        \* per slot: the request
    count,
    had,        \* per slot: rights its account had while it ran (history)
    crossed,    \* accounts changed while another request was between its
                \* checks and its end (history)
    setups      \* accounts made by the first-run set-up (history)

vars == <<users, manages, onboarded, cookie, req, count, had, crossed, setups>>

NoOne == 0
Ids == 1..MaxRequests

User == [id : Ids, name : Names, admin : BOOLEAN]

\* user_id and is_admin.
Session == [user : Ids \cup {NoOne}, admin : BOOLEAN]

SignedOut == [user |-> NoOne, admin |-> FALSE]

Ops == {"setup", "login", "logout", "language", "add", "delete", "role", "onboard"}

Request ==
    [at : {"free", "handler", "commit"}, op : Ops, browser : Browsers,
     session : Session, modified : BOOLEAN,
     target : Ids \cup {NoOne},   \* the account chosen
     was : BOOLEAN,               \* its role when it was loaded
     grant : BOOLEAN,             \* the role, and with "role" the document, asked for
     name : Names]

Rights == {"admin", "users"}

TypeOK ==
    /\ users \subseteq User /\ manages \subseteq Ids /\ onboarded \in BOOLEAN
    /\ \A u, v \in users : u.id = v.id \/ u.name = v.name => u = v
    /\ cookie \in [Browsers -> Session]
    /\ req \in [Slots -> Request]
    /\ count \in 0..MaxRequests
    /\ had \in [Slots -> SUBSET Rights]
    /\ crossed \in BOOLEAN /\ setups \in 0..MaxRequests

Free == [at |-> "free", op |-> "language", browser |-> CHOOSE b \in Browsers : TRUE,
         session |-> SignedOut, modified |-> FALSE, target |-> NoOne,
         was |-> FALSE, grant |-> FALSE, name |-> CHOOSE n \in Names : TRUE]

Init ==
    /\ users = {} /\ manages = {} /\ onboarded = FALSE
    /\ cookie = [b \in Browsers |-> SignedOut]
    /\ req = [r \in Slots |-> Free]
    /\ count = 0 /\ had = [r \in Slots |-> {}]
    /\ crossed = FALSE /\ setups = 0

-----------------------------------------------------------------------------
UserIds(us) == {u.id : u \in us}

IsAdmin(us, id) == \E u \in us : u.id = id /\ u.admin

\* has_permission(db, user_id, "users")
MayManage(us, ms, id) == IsAdmin(us, id) \/ (id \in UserIds(us) /\ id \in ms)

RightsOf(us, ms, id) ==
    {x \in Rights : IF x = "admin" THEN IsAdmin(us, id) ELSE MayManage(us, ms, id)}

\* SQLite gives the greatest id in use plus one.
NewId == 1 + Max({0} \cup UserIds(users))

\* What every request's account has had since it arrived.
Watch(us, ms) ==
    had' = [r \in Slots |->
        IF req'[r].at = "free" THEN {}
        ELSE (IF req[r].at = "free" THEN {} ELSE had[r])
             \cup RightsOf(us, ms, req'[r].session.user)]

Goes(r, new) == req' = [req EXCEPT ![r] = new]

\* RememberMeSessionMiddleware: the answer sets the cookie to the changed
\* session, or deletes it when there is nothing left in it.
Answered(r, session, modified) ==
    cookie' = IF modified THEN [cookie EXCEPT ![req[r].browser] = session] ELSE cookie

Ends(r, session, modified) ==
    /\ Answered(r, session, modified)
    /\ Goes(r, Free)

\* The handler turns it down.
TurnsDown(r) ==
    /\ Ends(r, req[r].session, req[r].modified)
    /\ Watch(users, manages)
    /\ UNCHANGED <<users, manages, onboarded, count, crossed, setups>>

Writes(r, us, ms) ==
    /\ users' = us /\ manages' = ms
    /\ Watch(us, ms)
    /\ crossed' = \/ crossed
                  \/ \E q \in Slots \ {r} : req[q].at = "commit"

-----------------------------------------------------------------------------
\* LoginRequiredMiddleware leaves set-up and login alone.
Exempt == {"setup", "login"}

\* Mutant: the role in the session is not brought up to date.
SyncedNot(session) ==
    IF session.user \in UserIds(users) THEN session ELSE SignedOut

\* The session of an account that is gone is cleared, the role of one that
\* is there is brought up to date.
Synced(session) ==
    IF session.user \in UserIds(users)
    THEN [session EXCEPT !.admin = IsAdmin(users, session.user)]
    ELSE SignedOut

Arrives(r, b, op) ==
    LET came == cookie[b]
        session == IF op \in Exempt THEN came ELSE Synced(came)
    IN
    /\ req[r].at = "free" /\ count < MaxRequests
    /\ count' = count + 1
    /\ \E target \in {NoOne} \cup Ids, grant \in BOOLEAN, name \in Names :
           /\ op \notin {"delete", "role", "login"} => target = NoOne
           /\ op \in {"delete", "role", "login"} => target \in UserIds(users)
           /\ op \notin {"add", "role"} => ~grant
           /\ op \notin {"add", "setup"} => name = Free.name
           /\ IF op \notin Exempt /\ session.user = NoOne
              THEN /\ cookie' = [cookie EXCEPT ![b] = session]  \* to the login page
                   /\ UNCHANGED req
              ELSE /\ Goes(r, [Free EXCEPT
                          !.at = "handler", !.op = op, !.browser = b,
                          !.session = session, !.modified = (session # came),
                          !.target = target, !.grant = grant, !.name = name])
                   /\ UNCHANGED cookie
    /\ Watch(users, manages)
    /\ UNCHANGED <<users, manages, onboarded, crossed, setups>>

Handles(r, op) == req[r].at = "handler" /\ req[r].op = op

\* What the handler has read before it hashes, waits or writes.
Checked(r, was) ==
    /\ Goes(r, [req[r] EXCEPT !.at = "commit", !.was = was])
    /\ Watch(users, manages)
    /\ UNCHANGED <<users, manages, onboarded, cookie, count, crossed, setups>>

Me(r) == req[r].session.user

\* logout; get_ui_language and set_ui_language, which store the language in
\* the session.
Logout(r) ==
    /\ Handles(r, "logout")
    /\ Ends(r, SignedOut, TRUE)
    /\ Watch(users, manages)
    /\ UNCHANGED <<users, manages, onboarded, count, crossed, setups>>

Language(r) ==
    /\ Handles(r, "language")
    /\ \E changed \in BOOLEAN : Ends(r, req[r].session, req[r].modified \/ changed)
    /\ Watch(users, manages)
    /\ UNCHANGED <<users, manages, onboarded, count, crossed, setups>>

\* onboarding_complete trusts the role in the session.
Onboard(r) ==
    /\ Handles(r, "onboard")
    /\ onboarded' = (onboarded \/ req[r].session.admin)
    /\ Ends(r, req[r].session, req[r].modified)
    /\ Watch(users, manages)
    /\ UNCHANGED <<users, manages, count, crossed, setups>>

-----------------------------------------------------------------------------

SetupChecks(r) ==
    /\ Handles(r, "setup")
    /\ IF users # {} THEN TurnsDown(r) ELSE Checked(r, FALSE)

SetupCommits(r) ==
    LET id == NewId IN
    /\ req[r].at = "commit" /\ req[r].op = "setup"
    /\ IF \E u \in users : u.name = req[r].name THEN TurnsDown(r) ELSE
       /\ Ends(r, [user |-> id, admin |-> TRUE], TRUE)
       /\ Writes(r, users \cup {[id |-> id, name |-> req[r].name, admin |-> TRUE]},
                 manages)
       /\ setups' = setups + 1
       /\ UNCHANGED <<onboarded, count>>

\* login_submit: the account is loaded, then the password compared.
LoginChecks(r) ==
    /\ Handles(r, "login")
    /\ IF req[r].target \notin UserIds(users) THEN TurnsDown(r)
       ELSE Checked(r, IsAdmin(users, req[r].target))

LoginEnds(r) ==
    /\ req[r].at = "commit" /\ req[r].op = "login"
    /\ Ends(r, [user |-> req[r].target, admin |-> req[r].was], TRUE)
    /\ Watch(users, manages)
    /\ UNCHANGED <<users, manages, onboarded, count, crossed, setups>>

-----------------------------------------------------------------------------
\* add_user: only an administrator makes administrators.
AddChecks(r) ==
    /\ Handles(r, "add")
    /\ IF \/ ~MayManage(users, manages, Me(r))
          \/ req[r].grant /\ ~IsAdmin(users, Me(r))
          \/ \E u \in users : u.name = req[r].name
       THEN TurnsDown(r)
       ELSE Checked(r, FALSE)

AddCommits(r) ==
    /\ req[r].at = "commit" /\ req[r].op = "add"
    /\ IF \E u \in users : u.name = req[r].name THEN TurnsDown(r) ELSE
       /\ Ends(r, req[r].session, req[r].modified)
       /\ Writes(r, users \cup {[id |-> NewId, name |-> req[r].name,
                                 admin |-> req[r].grant]}, manages)
       /\ UNCHANGED <<onboarded, count, setups>>

MayDelete(r) ==
    /\ MayManage(users, manages, Me(r))
    /\ req[r].target # Me(r) /\ req[r].target \in UserIds(users)
    /\ IsAdmin(users, req[r].target) => IsAdmin(users, Me(r))

DeleteChecks(r) ==
    /\ Handles(r, "delete")
    /\ IF MayDelete(r) THEN Checked(r, IsAdmin(users, req[r].target)) ELSE TurnsDown(r)

\* delete_user: what is stored under the id of the account stays.
DeleteCommits(r) ==
    /\ req[r].at = "commit" /\ req[r].op = "delete"
    /\ Ends(r, req[r].session, req[r].modified)
    /\ Writes(r, {u \in users : u.id # req[r].target}, manages)
    /\ UNCHANGED <<onboarded, count, setups>>

\* access_update_user: the account is loaded, then the body awaited.
RoleChecks(r) ==
    /\ Handles(r, "role")
    /\ IF ~MayManage(users, manages, Me(r)) \/ req[r].target \notin UserIds(users)
       THEN TurnsDown(r)
       ELSE Checked(r, IsAdmin(users, req[r].target))

\* _current_user: the session of the database gives the account it has
\* loaded, and reads another one anew.
ActorIsAdmin(r) ==
    IF req[r].target = Me(r) THEN req[r].was ELSE IsAdmin(users, Me(r))

\* Mutant: administrators may drop their own role.
MaySetRoleOfAll(r) ==
    req[r].grant # req[r].was => ActorIsAdmin(r)

MaySetRole(r) ==
    req[r].grant # req[r].was => /\ ActorIsAdmin(r)
                                 /\ req[r].target = Me(r) => req[r].grant

\* The role is written when it differs from the one loaded; a row that is
\* gone then fails the request (StaleDataError).
RoleCommits(r) ==
    LET change == req[r].grant # req[r].was IN
    /\ req[r].at = "commit" /\ req[r].op = "role"
    /\ IF ~MaySetRole(r) \/ (change /\ req[r].target \notin UserIds(users))
       THEN TurnsDown(r) ELSE
       /\ Ends(r, req[r].session, req[r].modified)
       /\ \E granted \in BOOLEAN :
              Writes(r,
                  {IF u.id = req[r].target /\ change
                   THEN [u EXCEPT !.admin = req[r].grant] ELSE u : u \in users},
                  IF granted THEN manages \cup {req[r].target}
                             ELSE manages \ {req[r].target})
       /\ UNCHANGED <<onboarded, count, setups>>

Next ==
    \E r \in Slots :
        \/ \E b \in Browsers, op \in Ops : Arrives(r, b, op)
        \/ Logout(r) \/ Language(r) \/ Onboard(r)
        \/ SetupChecks(r) \/ SetupCommits(r)
        \/ LoginChecks(r) \/ LoginEnds(r)
        \/ AddChecks(r) \/ AddCommits(r)
        \/ DeleteChecks(r) \/ DeleteCommits(r)
        \/ RoleChecks(r) \/ RoleCommits(r)

Spec == Init /\ [][Next]_vars

-----------------------------------------------------------------------------
\* Nobody can lock everybody out: once there are accounts one of them is an
\* administrator's, unless two changes of accounts overlapped ("you cannot
\* remove your own administrator access", access_v23.py:155).
AdminRemains == ~crossed /\ users # {} => \E u \in users : u.admin

\* The first-run set-up makes one account, unless two set-ups overlapped.
SetupOnce == ~crossed => setups <= 1

\* What the request of a slot changes when it ends is within the rights its
\* account had. delete_user looks at the role of the account before it
\* deletes it: one that became an administrator's in between is deleted all
\* the same.
ByRight(r) ==
    req[r].at # "free" /\ req'[r].at = "free" =>
        /\ users' # users /\ req[r].op # "setup" => "users" \in had[r]
        /\ onboarded' # onboarded => "admin" \in had[r]
        /\ /\ req[r].op # "setup" /\ (req[r].op = "delete" => req[r].was)
           /\ {u \in users : u.admin} # {u \in users' : u.admin}
           => "admin" \in had[r]

\* "Resolve the role from the database on every mutation" (permission_guard
\* _v23.py:34): however requests overlap, accounts are changed and the set-up
\* is completed only for an account that had the right to while the request
\* ran.
NoStaleRights == [][\A r \in Slots : ByRight(r)]_vars

\* It is the answer to a login or a set-up that signs a browser in, or one
\* that stores the language or the role of a request begun before.
SignedInBy(b) ==
    cookie[b].user = NoOne /\ cookie'[b].user # NoOne =>
        \E r \in Slots : /\ req[r].browser = b /\ req'[r].at = "free"
                         /\ \/ req[r].op \in Exempt
                            \/ req[r].op = "language" \/ req[r].modified

\* A browser that was signed out stays so until a login or set-up from it
\* ends, unless another request of it, begun while it was signed in, stores
\* its language or its role afterwards.
SignedOutStays == [][\A b \in Browsers : SignedInBy(b)]_vars

\* Somebody can always sign in and administer B2M (setup_post,
\* settings_user_delete, settings_user_role).
AccountsCorrect == TypeOK /\ AdminRemains /\ SetupOnce

\* A cookie never says more than the accounts do for long (the permission
\* guards and RememberMeSessionMiddleware).
RightsCurrent == NoStaleRights /\ SignedOutStays
=============================================================================
