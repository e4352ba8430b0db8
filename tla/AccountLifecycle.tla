--------------------------- MODULE AccountLifecycle ---------------------------
(***************************************************************************)
(* Accounts, login sessions and the administrator operations on accounts:   *)
(* internal/database/repository.go and access_repository.go as the handlers *)
(* of internal/api/server.go and admin_share_handlers.go call them, and what *)
(* the migrations, replayed at every start, do to accounts.  The database   *)
(* is PostgreSQL at READ COMMITTED: a statement sees what is committed, FOR  *)
(* UPDATE locks a row until the transaction ends, and inserting a row that   *)
(* references a user waits (FOR KEY SHARE) for another's FOR UPDATE of it.   *)
(***************************************************************************)
EXTENDS Naturals, Sequences, FiniteSets

CONSTANTS
    Users,           \* accounts that may come to exist
    Bootstrap,       \* the account of BOOTSTRAP_ADMIN_USERNAME
    Sessions,        \* login attempts, each with the session it may open
    Requests,        \* concurrent administrator requests
    None

ASSUME AccountAssumption ==
    /\ Bootstrap \in Users
    /\ None \notin Users \cup Requests

VARIABLES
    created,   \* users, in the order of their ids
    role,      \* users.role
    status,    \* users.status
    up,        \* the server runs (between two of them the migrations do)
    registering, \* a registration has passed requireAdmin and not inserted
    owner,     \* the user a login attempt is for, or None
    login,     \* where each login attempt is
    request,   \* where each administrator request is
    op,        \* what it was asked: actor, target, new status and role
    rowLock,   \* the request that holds a users row FOR UPDATE, or None
    keyShare,  \* the requests that hold a users row FOR KEY SHARE
    revoking   \* the sessions a request has revoked and not committed

accounts == <<created, role, status>>
requests == <<request, op, rowLock, keyShare, revoking>>
vars == <<accounts, up, registering, owner, login, requests>>

Roles == {"admin", "user"}
Statuses == {"active", "disabled", "deleted"}
Op == [actor : Users, target : Users, status : Statuses \cup {""}, role : Roles \cup {""}]

Exists(u) == \E i \in DOMAIN created : created[i] = u
ActiveAdmin(u) == Exists(u) /\ role[u] = "admin" /\ status[u] = "active"

\* SessionByToken
Usable(s) == login[s] = "open" /\ status[owner[s]] = "active"

\* An empty database, or an installation older than the roles.
Init ==
    /\ created \in {<<>>} \cup {<<u>> : u \in Users}
    /\ role = [u \in Users |-> "user"] /\ status = [u \in Users |-> "active"]
    /\ up = FALSE /\ registering = FALSE
    /\ owner = [s \in Sessions |-> None] /\ login = [s \in Sessions |-> "idle"]
    /\ request = [q \in Requests |-> "idle"] /\ op = [q \in Requests |-> None]
    /\ rowLock = [u \in Users |-> None] /\ keyShare = [u \in Users |-> {}]
    /\ revoking = [q \in Requests |-> {}]

-----------------------------------------------------------------------------
(* Start and stop                                                           *)

\* The statements of the migrations work on the users table: who is in it, in the
\* order of the ids, and the roles.
HasAdmin(users) == \E i \in DOMAIN users.created : users.role[users.created[i]] = "admin"
HasUser(users, u) == \E i \in DOMAIN users.created : users.created[i] = u

\* UPDATE users ... WHERE id = (SELECT id FROM first_user) AND NOT EXISTS (...)
PromoteFirst(users) ==
    IF HasAdmin(users) \/ users.created = <<>> THEN users
    ELSE [users EXCEPT !.role[Head(users.created)] = "admin"]

\* INSERT INTO users ... WHERE the credentials are given AND NOT EXISTS (an
\* administrator) ON CONFLICT DO NOTHING
InsertBootstrap(users, given) ==
    IF ~given \/ HasAdmin(users) \/ HasUser(users, Bootstrap) THEN users
    ELSE [created |-> Append(users.created, Bootstrap),
          role |-> [users.role EXCEPT ![Bootstrap] = "admin"]]

\* (mutant) the bootstrap administrator is inserted before the promotion
BootstrapFirst(users, given) == PromoteFirst(InsertBootstrap(users, given))

\* 002_defaults.sql
Defaults(users, given) == InsertBootstrap(PromoteFirst(users), given)

\* 002_defaults.sql and 003_account_roles.sql, which promotes once more.
Migrations(given) ==
    LET users == PromoteFirst(Defaults([created |-> created, role |-> role], given)) IN
    created' = users.created /\ role' = users.role /\ UNCHANGED status

\* The environment gives the bootstrap credentials or leaves one of them empty.
Start ==
    /\ ~up /\ up' = TRUE
    /\ \E given \in BOOLEAN : Migrations(given)
    /\ UNCHANGED <<registering, owner, login, requests>>

\* The process ends: requests and their transactions with it.
Stop ==
    /\ up /\ up' = FALSE /\ registering' = FALSE
    /\ request' = [q \in Requests |-> "idle"]
    /\ op' = [q \in Requests |-> None]
    /\ rowLock' = [u \in Users |-> None] /\ keyShare' = [u \in Users |-> {}]
    /\ revoking' = [q \in Requests |-> {}]
    /\ login' = [s \in Sessions |-> IF login[s] = "checked" THEN "closed" ELSE login[s]]
    /\ UNCHANGED <<accounts, owner>>

-----------------------------------------------------------------------------
(* Login and logout                                                         *)

\* The password is right and the account active when its row is read.
CheckLogin(s) ==
    /\ up /\ login[s] = "idle"
    /\ \E u \in Users : /\ Exists(u) /\ status[u] = "active"
                        /\ owner' = [owner EXCEPT ![s] = u]
    /\ login' = [login EXCEPT ![s] = "checked"]
    /\ UNCHANGED <<accounts, up, registering, requests>>

\* The session's foreign key waits for a transaction that locks the user.
ReferenceUnchecked(u, q) == u \in Users  \* (mutant)
MayReference(u, q) == rowLock[u] \in {None, q}

OpenSession(s) ==
    /\ login[s] = "checked"
    /\ MayReference(owner[s], None)
    /\ login' = [login EXCEPT ![s] = "open"]
    /\ UNCHANGED <<accounts, up, registering, owner, requests>>

\* Logout, or the session expires.
CloseSession(s) ==
    /\ up /\ login[s] = "open"
    /\ login' = [login EXCEPT ![s] = "closed"]
    /\ UNCHANGED <<accounts, up, registering, owner, requests>>

-----------------------------------------------------------------------------
(* Administrator requests                                                   *)

\* requireSession and requireAdmin: the role is the one read with the session.
BeginRequest(q) ==
    /\ up /\ request[q] = "idle"
    /\ \E s \in Sessions, o \in Op :
          /\ Usable(s) /\ role[owner[s]] = "admin"
          /\ o.actor = owner[s] /\ Exists(o.target)
          /\ op' = [op EXCEPT ![q] = o]
    /\ request' = [request EXCEPT ![q] = "begun"]
    /\ UNCHANGED <<accounts, up, registering, owner, login, rowLock, keyShare, revoking>>

\* auth.POST("/register"): requireAdmin passes an administrator's request.
BeginRegister ==
    /\ up /\ registering' = TRUE
    /\ \E s \in Sessions : Usable(s) /\ role[owner[s]] = "admin"
    /\ UNCHANGED <<accounts, up, owner, login, requests>>

\* CreateUser, whoever the administrator is by then; other registrations may have
\* passed the check as well.
Register ==
    /\ registering /\ registering' \in BOOLEAN
    /\ \E u \in Users, r \in Roles :
          /\ ~Exists(u)
          /\ created' = Append(created, u)
          /\ role' = [role EXCEPT ![u] = r]
    /\ UNCHANGED <<status, up, owner, login, requests>>

NewStatus(q) == IF op[q].status = "" THEN status[op[q].target] ELSE op[q].status
NewRole(q) == IF op[q].role = "" THEN role[op[q].target] ELSE op[q].role

\* The target is an active administrator and would no longer be one.
Removes(q) ==
    /\ role[op[q].target] = "admin" /\ status[op[q].target] = "active"
    /\ NewRole(q) # "admin" \/ NewStatus(q) # "active"

\* SELECT role,status ... FOR UPDATE, and the checks on the request.
LockTarget(q) ==
    /\ request[q] = "begun"
    /\ rowLock[op[q].target] = None /\ keyShare[op[q].target] = {}
    /\ ~(op[q].actor = op[q].target /\ NewStatus(q) # "active")
    /\ rowLock' = [rowLock EXCEPT ![op[q].target] = q]
    /\ request' = [request EXCEPT ![q] = IF Removes(q) THEN "count" ELSE "write"]
    /\ UNCHANGED <<accounts, up, registering, owner, login, op, keyShare, revoking>>

AnotherAdmin == Cardinality({u \in Users : ActiveAdmin(u)}) > 1

CountAdmins(q) ==
    /\ request[q] = "count"
    /\ AnotherAdmin
    /\ request' = [request EXCEPT ![q] = "write"]
    /\ UNCHANGED <<accounts, up, registering, owner, login, op, rowLock, keyShare, revoking>>

SessionsToRevoke(q) ==
    {s \in Sessions : /\ NewStatus(q) # "active"
                      /\ owner[s] = op[q].target /\ login[s] = "open"}

\* UPDATE users, which references the actor as the audit row does, and the
\* target's sessions as they are now.
Write(q) ==
    /\ request[q] = "write"
    /\ MayReference(op[q].actor, q)
    /\ revoking' = [revoking EXCEPT ![q] = SessionsToRevoke(q)]
    /\ keyShare' = [keyShare EXCEPT ![op[q].actor] = @ \cup {q}]
    /\ request' = [request EXCEPT ![q] = "commit"]
    /\ UNCHANGED <<accounts, up, registering, owner, login, op, rowLock>>

\* (mutant) the handler goes on after the rollback
ReleaseAndContinue(q) ==
    /\ op' = [op EXCEPT ![q] = None]
    /\ rowLock' = [u \in Users |-> IF rowLock[u] = q THEN None ELSE rowLock[u]]
    /\ keyShare' = [u \in Users |-> keyShare[u] \ {q}]
    /\ revoking' = [revoking EXCEPT ![q] = {}]
    /\ UNCHANGED request

Release(q) ==
    /\ request' = [request EXCEPT ![q] = "idle"]
    /\ op' = [op EXCEPT ![q] = None]
    /\ rowLock' = [u \in Users |-> IF rowLock[u] = q THEN None ELSE rowLock[u]]
    /\ keyShare' = [u \in Users |-> keyShare[u] \ {q}]
    /\ revoking' = [revoking EXCEPT ![q] = {}]

Commit(q) ==
    /\ request[q] = "commit"
    /\ status' = [status EXCEPT ![op[q].target] = NewStatus(q)]
    /\ role' = [role EXCEPT ![op[q].target] = NewRole(q)]
    /\ login' = [s \in Sessions |-> IF s \in revoking[q] THEN "closed" ELSE login[s]]
    /\ Release(q)
    /\ UNCHANGED <<created, up, registering, owner>>

\* ErrSelfManagement, ErrLastActiveAdmin, a deadlock PostgreSQL breaks, or the
\* client is gone: the transaction is rolled back.
Abort(q) ==
    /\ request[q] # "idle"
    /\ Release(q)
    /\ UNCHANGED <<accounts, up, registering, owner, login>>

-----------------------------------------------------------------------------
Next ==
    \/ Start \/ Stop \/ BeginRegister \/ Register
    \/ \E s \in Sessions : CheckLogin(s) \/ OpenSession(s) \/ CloseSession(s)
    \/ \E q \in Requests : \/ BeginRequest(q) \/ LockTarget(q) \/ CountAdmins(q)
                           \/ Write(q) \/ Commit(q) \/ Abort(q)

Spec == Init /\ [][Next]_vars

-----------------------------------------------------------------------------
(* Properties                                                               *)

\* Type invariant of the accounts, sessions and transactions.
TypeOK ==
    /\ created \in Seq(Users)
    /\ role \in [Users -> Roles] /\ status \in [Users -> Statuses]
    /\ up \in BOOLEAN /\ registering \in BOOLEAN
    /\ owner \in [Sessions -> Users \cup {None}]
    /\ login \in [Sessions -> {"idle", "checked", "open", "closed"}]
    /\ \A s \in Sessions : login[s] \in {"checked", "open"} => owner[s] \in Users
    /\ request \in [Requests -> {"idle", "begun", "count", "write", "commit"}]
    /\ op \in [Requests -> Op \cup {None}]
    /\ \A q \in Requests : request[q] # "idle" => op[q] \in Op
    /\ rowLock \in [Users -> Requests \cup {None}]
    /\ keyShare \in [Users -> SUBSET Requests]
    /\ revoking \in [Requests -> SUBSET Sessions]

\* repository.go: "cannot modify last active administrator".  While the
\* server runs and has accounts, an active administrator remains
\* (UpdateUserLifecycle, and the migrations at its start).
ActiveAdminRemains == up /\ created # <<>> => \E u \in Users : ActiveAdmin(u)

\* What that takes: at no time do two transactions that have counted the
\* administrators stand before their commits (UpdateUserLifecycle).
Removing(q) == request[q] \in {"write", "commit"} /\ Removes(q)
RemovalsDoNotOverlap == \A p, q \in Requests : Removing(p) /\ Removing(q) => p = q

\* When an account leaves the active state none of its sessions stays open,
\* not even one opened after the transaction revoked them: the session's
\* foreign key makes its insert wait for the transaction (UpdateUserLifecycle).
SessionsEndWithAccount ==
    [][\A u \in Users : status[u] = "active" /\ status'[u] # "active" =>
          \A s \in Sessions : owner[s] = u => login'[s] # "open"]_vars

\* 002_defaults.sql: "an established account is never displaced by a second,
\* automatically-created administrator".  A start on a database that has accounts
\* adds none beside them, with or without the credentials, demotes nobody, and
\* leaves an administrator.
EstablishedAccountsKept ==
    [][~up /\ up' /\ created # <<>> =>
          /\ created' = created
          /\ \A u \in Users : role[u] = "admin" => role'[u] = "admin"
          /\ \E u \in Users : Exists(u) /\ role'[u] = "admin"]_vars
=============================================================================
