----------------------- MODULE AccountLifecycle_proofs -----------------------
(* Proofs about AccountLifecycle for any number of accounts, logins and      *)
(* administrators' requests.                                                 *)
EXTENDS AccountLifecycle, FiniteSetTheorems, TLAPS

\* A transaction past its first statement holds its target's row, and requests end
\* with the process.
LocksHeld ==
    /\ \A q \in Requests :
          request[q] \in {"count", "write", "commit"} => rowLock[op[q].target] = q
    /\ up \/ \A q \in Requests : request[q] = "idle"

\* What a transaction is to commit still has every open session of its target:
\* none was opened since it revoked them.
RevokesAll ==
    \A q \in Requests : request[q] = "commit" => SessionsToRevoke(q) \subseteq revoking[q]

\* A request is about an account that exists.
TargetsExist == \A q \in Requests : request[q] # "idle" => Exists(op[q].target)

\* The inductive invariant.
AccountInv == TypeOK /\ LocksHeld /\ TargetsExist /\ RevokesAll

\* What the assumption says of the constants.
LEMMA AccountConstants == Bootstrap \in Users /\ None \notin Users /\ None \notin Requests
  BY AccountAssumption

\* What a request is about, and what it makes of its target.
LEMMA Targets ==
    ASSUME TypeOK, NEW q \in Requests, request[q] # "idle"
    PROVE  /\ op[q] \in Op /\ op[q].target \in Users /\ op[q].actor \in Users
           /\ NewStatus(q) \in Statuses /\ NewRole(q) \in Roles
  BY DEF TypeOK, Op, NewStatus, NewRole

\* The end of a transaction, committed or not.
LEMMA ReleaseEffect ==
    ASSUME TypeOK, NEW q \in Requests, Release(q)
    PROVE  /\ request' \in [Requests -> {"idle", "begun", "count", "write", "commit"}]
           /\ op' \in [Requests -> Op \cup {None}]
           /\ rowLock' \in [Users -> Requests \cup {None}]
           /\ keyShare' \in [Users -> SUBSET Requests]
           /\ revoking' \in [Requests -> SUBSET Sessions]
           /\ request'[q] = "idle"
           /\ \A p \in Requests \ {q} : /\ request'[p] = request[p] /\ op'[p] = op[p]
                                        /\ revoking'[p] = revoking[p]
           /\ \A u \in Users : rowLock[u] # q => rowLock'[u] = rowLock[u]
  BY DEF TypeOK, Release

-----------------------------------------------------------------------------
(* Types and locks                                                          *)

\* The users table as the migrations see it.
UsersTable == [created : Seq(Users), role : [Users -> Roles]]

\* The promotion keeps administrators and, of accounts, leaves one.
LEMMA PromoteEffect ==
    ASSUME NEW users \in UsersTable
    PROVE  /\ PromoteFirst(users) \in UsersTable
           /\ PromoteFirst(users).created = users.created
           /\ \A u \in Users : users.role[u] = "admin" => PromoteFirst(users).role[u] = "admin"
           /\ users.created # <<>> => HasAdmin(PromoteFirst(users))
  <1>1. CASE HasAdmin(users) \/ users.created = <<>>
    BY <1>1 DEF PromoteFirst
  <1>2. CASE ~(HasAdmin(users) \/ users.created = <<>>)
    <2>1. PICK h : h = Head(users.created)
      OBVIOUS
    <2>2. users.created # <<>> /\ users.created \in Seq(Users) /\ users.role \in [Users -> Roles]
      BY <1>2 DEF UsersTable
    <2>3. h \in Users /\ 1 \in DOMAIN users.created /\ users.created[1] = h
      BY <2>1, <2>2
    <2>4. PICK r : r = [users.role EXCEPT ![h] = "admin"]
      OBVIOUS
    <2>5. r \in [Users -> Roles] /\ r[h] = "admin" /\ \A u \in Users \ {h} : r[u] = users.role[u]
      BY <2>2, <2>3, <2>4 DEF Roles
    <2>6. PromoteFirst(users) = [users EXCEPT !.role = r]
      BY <1>2, <2>1, <2>4 DEF PromoteFirst
    <2>7. PromoteFirst(users).created = users.created /\ PromoteFirst(users).role = r
      BY <2>6 DEF UsersTable
    <2>8. PromoteFirst(users) \in UsersTable
      BY <2>5, <2>6 DEF UsersTable
    <2>. QED  BY <2>3, <2>5, <2>7, <2>8 DEF HasAdmin
  <1>. QED  BY <1>1, <1>2

\* The insertion adds an account only where there is no administrator.
LEMMA InsertEffect ==
    ASSUME NEW users \in UsersTable, NEW given \in BOOLEAN
    PROVE  /\ InsertBootstrap(users, given) \in UsersTable
           /\ HasAdmin(users) => InsertBootstrap(users, given) = users
           /\ \A u \in Users : users.role[u] = "admin" =>
                                  InsertBootstrap(users, given).role[u] = "admin"
  <1>. USE AccountConstants
  <1>1. CASE ~given \/ HasAdmin(users) \/ HasUser(users, Bootstrap)
    BY <1>1 DEF InsertBootstrap
  <1>2. CASE ~(~given \/ HasAdmin(users) \/ HasUser(users, Bootstrap))
    <2>1. users.created \in Seq(Users) /\ users.role \in [Users -> Roles]
      BY DEF UsersTable
    <2>2. PICK c, r : c = Append(users.created, Bootstrap) /\ r = [users.role EXCEPT ![Bootstrap] = "admin"]
      OBVIOUS
    <2>3. c \in Seq(Users) /\ r \in [Users -> Roles]
          /\ \A u \in Users : users.role[u] = "admin" => r[u] = "admin"
      BY <2>1, <2>2 DEF Roles
    <2>4. InsertBootstrap(users, given) = [created |-> c, role |-> r]
      BY <1>2, <2>2 DEF InsertBootstrap
    <2>. QED  BY <1>2, <2>3, <2>4 DEF UsersTable
  <1>. QED  BY <1>1, <1>2

\* What the migrations do in their order.
LEMMA StartEffect ==
    ASSUME TypeOK, Start
    PROVE  /\ created' \in Seq(Users) /\ role' \in [Users -> Roles] /\ status' = status
           /\ created # <<>> => created' = created
           /\ \A u \in Users : role[u] = "admin" => role'[u] = "admin"
           /\ created' # <<>> => \E u \in Users : Exists(u)' /\ role'[u] = "admin"
  <1>1. PICK given \in BOOLEAN : Migrations(given)
    BY DEF Start
  <1>2. PICK t : t = [created |-> created, role |-> role]
    OBVIOUS
  <1>3. t \in UsersTable /\ t.created = created /\ t.role = role
    BY <1>2 DEF UsersTable, TypeOK
  <1>4. PICK p : p = PromoteFirst(t)
    OBVIOUS
  <1>5. PICK d : d = InsertBootstrap(p, given)
    OBVIOUS
  <1>6. PICK e : e = PromoteFirst(d)
    OBVIOUS
  <1>7. /\ p \in UsersTable /\ p.created = created /\ (created # <<>> => HasAdmin(p))
        /\ \A u \in Users : role[u] = "admin" => p.role[u] = "admin"
    BY <1>3, <1>4, PromoteEffect
  <1>8. /\ d \in UsersTable /\ (HasAdmin(p) => d = p)
        /\ \A u \in Users : p.role[u] = "admin" => d.role[u] = "admin"
    BY <1>5, <1>7, InsertEffect
  <1>9. /\ e \in UsersTable /\ e.created = d.created /\ (d.created # <<>> => HasAdmin(e))
        /\ \A u \in Users : d.role[u] = "admin" => e.role[u] = "admin"
    BY <1>6, <1>8, PromoteEffect
  <1>10. created' = e.created /\ role' = e.role /\ status' = status
    BY <1>1, <1>2, <1>4, <1>5, <1>6 DEF Migrations, Defaults
  <1>11. created' \in Seq(Users) /\ role' \in [Users -> Roles]
    BY <1>9, <1>10 DEF UsersTable
  <1>12. created' # <<>> => \E u \in Users : Exists(u)' /\ role'[u] = "admin"
    BY <1>9, <1>10, <1>11 DEF HasAdmin, Exists
  <1>. QED  BY <1>7, <1>8, <1>9, <1>10, <1>11, <1>12

\* The steps of the server and of sessions.
LEMMA SessionTypes ==
    ASSUME TypeOK,
           \/ Start \/ Stop \/ BeginRegister \/ Register
           \/ \E s \in Sessions : CheckLogin(s) \/ OpenSession(s) \/ CloseSession(s)
    PROVE  TypeOK'
  <1>. USE AccountConstants
  <1>1. CASE Start
    <2>2. created' \in Seq(Users) /\ role' \in [Users -> Roles] /\ status' = status
      BY <1>1, StartEffect
    <2>. QED  BY <1>1, <2>2 DEF Start, requests, TypeOK
  <1>2. CASE Stop
    BY <1>2 DEF Stop, accounts, TypeOK
  <1>6. CASE BeginRegister
    BY <1>6 DEF BeginRegister, accounts, requests, TypeOK
  <1>3. CASE Register
    <2>1. PICK u \in Users, r \in Roles :
             created' = Append(created, u) /\ role' = [role EXCEPT ![u] = r]
      BY <1>3 DEF Register
    <2>2. created' \in Seq(Users) /\ role' \in [Users -> Roles]
      BY <2>1 DEF TypeOK
    <2>. QED  BY <1>3, <2>2 DEF Register, requests, TypeOK
  <1>4. ASSUME NEW s \in Sessions, CheckLogin(s) PROVE TypeOK'
    <2>1. PICK u \in Users : owner' = [owner EXCEPT ![s] = u]
      BY <1>4 DEF CheckLogin
    <2>. QED  BY <1>4, <2>1 DEF CheckLogin, accounts, requests, TypeOK
  <1>5. ASSUME NEW s \in Sessions, OpenSession(s) \/ CloseSession(s) PROVE TypeOK'
    BY <1>5 DEF OpenSession, CloseSession, accounts, requests, TypeOK
  <1>. QED  BY <1>1, <1>2, <1>3, <1>4, <1>5, <1>6

\* The steps of an administrator's request.
LEMMA RequestTypes ==
    ASSUME TypeOK, NEW q \in Requests,
           \/ BeginRequest(q) \/ LockTarget(q) \/ CountAdmins(q)
           \/ Write(q) \/ Commit(q) \/ Abort(q)
    PROVE  TypeOK'
  <1>1. CASE BeginRequest(q)
    <2>1. PICK o \in Op : op' = [op EXCEPT ![q] = o]
      BY <1>1 DEF BeginRequest
    <2>. QED  BY <1>1, <2>1 DEF BeginRequest, accounts, TypeOK
  <1>2. CASE LockTarget(q) \/ CountAdmins(q)
    BY <1>2 DEF LockTarget, CountAdmins, accounts, TypeOK
  <1>3. CASE Write(q)
    BY <1>3 DEF Write, SessionsToRevoke, accounts, TypeOK
  <1>4. CASE Commit(q)
    <2>1. request[q] # "idle" /\ Release(q)
      BY <1>4 DEF Commit
    <2>2. status' \in [Users -> Statuses] /\ role' \in [Users -> Roles]
      BY <1>4, <2>1, Targets DEF Commit, TypeOK
    <2>3. /\ login' \in [Sessions -> {"idle", "checked", "open", "closed"}]
          /\ \A s \in Sessions : login'[s] \in {"checked", "open"} => owner[s] \in Users
      BY <1>4 DEF Commit, TypeOK
    <2>. QED  BY <1>4, <2>1, <2>2, <2>3, ReleaseEffect DEF Commit, TypeOK
  <1>5. CASE Abort(q)
    <2>1. Release(q) /\ UNCHANGED <<accounts, up, registering, owner, login>>
      BY <1>5 DEF Abort
    <2>. QED  BY <2>1, ReleaseEffect DEF accounts, TypeOK
  <1>. QED  BY <1>1, <1>2, <1>3, <1>4, <1>5

\* No two transactions have the same target.
LEMMA OneTargetEach ==
    ASSUME LocksHeld, NEW p \in Requests, NEW q \in Requests, p # q,
           request[p] \in {"count", "write", "commit"},
           request[q] \in {"count", "write", "commit"}
    PROVE  op[p].target # op[q].target
  BY DEF LocksHeld

\* A transaction keeps its target's row until its end.
LEMMA LocksStep ==
    ASSUME TypeOK, LocksHeld, [Next]_vars
    PROVE  LocksHeld'
  <1>. USE AccountConstants
  <1>1. ASSUME NEW q \in Requests, BeginRequest(q) PROVE LocksHeld'
    BY <1>1 DEF BeginRequest, LocksHeld, TypeOK
  <1>2. ASSUME NEW q \in Requests, LockTarget(q) PROVE LocksHeld'
    <2>1. op[q].target \in Users
      BY <1>2, Targets DEF LockTarget
    <2>. QED  BY <1>2, <2>1 DEF LockTarget, LocksHeld, TypeOK
  <1>3. ASSUME NEW q \in Requests, CountAdmins(q) \/ Write(q) PROVE LocksHeld'
    BY <1>3 DEF CountAdmins, Write, LocksHeld, TypeOK
  <1>4. ASSUME NEW q \in Requests, Commit(q) \/ Abort(q) PROVE LocksHeld'
    <2>1. Release(q) /\ up' = up
      BY <1>4 DEF Commit, Abort
    <2>2. ASSUME NEW p \in Requests, request'[p] \in {"count", "write", "commit"}
          PROVE  rowLock'[op'[p].target] = p
      <3>1. p # q /\ request'[p] = request[p] /\ op'[p] = op[p]
        BY <2>1, <2>2, ReleaseEffect
      <3>2. rowLock[op[p].target] = p /\ op[p].target \in Users
        BY <2>2, <3>1, Targets DEF LocksHeld
      <3>. QED  BY <2>1, <3>1, <3>2, ReleaseEffect
    <2>3. up' \/ \A p \in Requests : request'[p] = "idle"
      BY <2>1, ReleaseEffect DEF LocksHeld
    <2>. QED  BY <2>2, <2>3 DEF LocksHeld
  <1>5. CASE Stop
    BY <1>5 DEF Stop, LocksHeld
  <1>6. CASE \/ Start \/ BeginRegister \/ Register \/ UNCHANGED vars
             \/ \E s \in Sessions : CheckLogin(s) \/ OpenSession(s) \/ CloseSession(s)
    BY <1>6 DEF Start, BeginRegister, Register, CheckLogin, OpenSession, CloseSession, requests, vars, LocksHeld
  <1>. QED  BY <1>1, <1>2, <1>3, <1>4, <1>5, <1>6 DEF Next

\* Accounts are only ever added.
LEMMA AccountsAdded ==
    ASSUME TypeOK, [Next]_vars, NEW u, Exists(u)
    PROVE  Exists(u)'
  <1>1. CASE created' = created
    BY <1>1 DEF Exists
  <1>2. CASE Start
    <2>1. created # <<>>
      BY DEF Exists
    <2>. QED  BY <1>2, <2>1, StartEffect DEF Exists
  <1>3. CASE Register
    <2>1. PICK v \in Users : created' = Append(created, v)
      BY <1>3 DEF Register
    <2>. QED  BY <2>1 DEF Exists, TypeOK
  <1>. QED  BY <1>1, <1>2, <1>3 DEF Next, Stop, BeginRegister, CheckLogin, OpenSession, CloseSession,
            BeginRequest, LockTarget, CountAdmins, Write, Commit, Abort, accounts, vars

\* A request is begun for an account that exists.
LEMMA TargetsStep ==
    ASSUME TypeOK, TargetsExist, [Next]_vars
    PROVE  TargetsExist'
  <1>1. ASSUME NEW q \in Requests, request'[q] # "idle", op'[q] = op[q], request[q] # "idle"
        PROVE  Exists(op[q].target)'
    <2>1. PICK u : u = op[q].target
      OBVIOUS
    <2>2. Exists(u)'
      BY <1>1, <2>1, AccountsAdded DEF TargetsExist
    <2>. QED  BY <1>1, <2>1, <2>2 DEF Exists
  <1>2. ASSUME NEW q \in Requests, BeginRequest(q) PROVE TargetsExist'
    <2>1. PICK o \in Op : Exists(o.target) /\ op' = [op EXCEPT ![q] = o]
      BY <1>2 DEF BeginRequest
    <2>2. /\ created' = created /\ op'[q] = o
          /\ \A p \in Requests \ {q} : op'[p] = op[p] /\ request'[p] = request[p]
      BY <1>2, <2>1 DEF BeginRequest, accounts, TypeOK
    <2>. QED  BY <2>1, <2>2 DEF TargetsExist, Exists
  <1>3. ASSUME NEW q \in Requests, Commit(q) \/ Abort(q) PROVE TargetsExist'
    <2>1. Release(q)
      BY <1>3 DEF Commit, Abort
    <2>. QED  BY <1>1, <2>1, ReleaseEffect DEF TargetsExist
  <1>4. ASSUME NEW q \in Requests, LockTarget(q) \/ CountAdmins(q) \/ Write(q)
        PROVE  TargetsExist'
    <2>1. op' = op /\ \A p \in Requests : request'[p] # "idle" => request[p] # "idle"
      BY <1>4 DEF LockTarget, CountAdmins, Write, TypeOK
    <2>. QED  BY <1>1, <2>1 DEF TargetsExist
  <1>5. CASE \/ Start \/ Stop \/ BeginRegister \/ Register \/ UNCHANGED vars
             \/ \E s \in Sessions : CheckLogin(s) \/ OpenSession(s) \/ CloseSession(s)
    <2>1. \A p \in Requests : request'[p] # "idle" => request[p] # "idle" /\ op'[p] = op[p]
      BY <1>5 DEF Start, Stop, BeginRegister, Register, CheckLogin, OpenSession, CloseSession, requests, vars
    <2>. QED  BY <1>1, <2>1 DEF TargetsExist
  <1>. QED  BY <1>2, <1>3, <1>4, <1>5 DEF Next

-----------------------------------------------------------------------------
(* Sessions of an account that is disabled or deleted                       *)

\* A step that leaves a transaction, its target and its target's sessions.
LEMMA RevokesFrame ==
    ASSUME NEW q \in Requests, RevokesAll,
           request'[q] = "commit" => request[q] = "commit",
           op'[q] = op[q], revoking'[q] = revoking[q],
           status'[op[q].target] = status[op[q].target],
           \A s \in Sessions : login'[s] = "open" /\ owner'[s] = op[q].target =>
                                   login[s] = "open" /\ owner[s] = op[q].target
    PROVE  request'[q] = "commit" => SessionsToRevoke(q)' \subseteq revoking'[q]
  BY DEF RevokesAll, SessionsToRevoke, NewStatus

\* No session is opened for an account whose row is locked.
LEMMA RevokesStep ==
    ASSUME TypeOK, LocksHeld, RevokesAll, [Next]_vars
    PROVE  RevokesAll'
  <1>. USE AccountConstants
  <1>1. ASSUME NEW q \in Requests, Write(q) PROVE RevokesAll'
    <2>1. SessionsToRevoke(q)' = SessionsToRevoke(q) /\ revoking'[q] = SessionsToRevoke(q)
      BY <1>1 DEF Write, SessionsToRevoke, NewStatus, accounts, TypeOK
    <2>2. ASSUME NEW p \in Requests \ {q}
          PROVE  request'[p] = "commit" => SessionsToRevoke(p)' \subseteq revoking'[p]
      BY <1>1, <2>2, RevokesFrame DEF Write, accounts, TypeOK
    <2>. QED  BY <2>1, <2>2 DEF RevokesAll
  <1>2. ASSUME NEW q \in Requests, Commit(q) PROVE RevokesAll'
    <2>1. Release(q)
      BY <1>2 DEF Commit
    <2>2. ASSUME NEW p \in Requests, request'[p] = "commit"
          PROVE  SessionsToRevoke(p)' \subseteq revoking'[p]
      <3>1. p # q /\ request'[p] = request[p] /\ op'[p] = op[p] /\ revoking'[p] = revoking[p]
        BY <2>1, <2>2, ReleaseEffect
      <3>2. op[p].target # op[q].target /\ op[p].target \in Users
        BY <1>2, <2>2, <3>1, OneTargetEach, Targets DEF Commit
      <3>3. status'[op[p].target] = status[op[p].target]
        BY <1>2, <3>2 DEF Commit, TypeOK
      <3>4. \A s \in Sessions : login'[s] = "open" => login[s] = "open"
        BY <1>2 DEF Commit
      <3>. QED  BY <1>2, <2>2, <3>1, <3>3, <3>4, RevokesFrame DEF Commit
    <2>. QED  BY <2>2 DEF RevokesAll
  <1>3. ASSUME NEW q \in Requests, Abort(q) PROVE RevokesAll'
    <2>1. Release(q) /\ UNCHANGED <<accounts, up, registering, owner, login>>
      BY <1>3 DEF Abort
    <2>2. ASSUME NEW p \in Requests, request'[p] = "commit"
          PROVE  SessionsToRevoke(p)' \subseteq revoking'[p]
      <3>1. request'[p] = request[p] /\ op'[p] = op[p] /\ revoking'[p] = revoking[p]
        BY <2>1, <2>2, ReleaseEffect
      <3>. QED  BY <2>1, <2>2, <3>1, RevokesFrame DEF accounts
    <2>. QED  BY <2>2 DEF RevokesAll
  <1>4. ASSUME NEW q \in Requests, BeginRequest(q) \/ LockTarget(q) \/ CountAdmins(q)
        PROVE  RevokesAll'
    <2>1. ASSUME NEW p \in Requests, request'[p] = "commit"
          PROVE  SessionsToRevoke(p)' \subseteq revoking'[p]
      <3>1. p # q /\ request[p] = "commit" /\ op'[p] = op[p] /\ revoking'[p] = revoking[p]
        BY <1>4, <2>1 DEF BeginRequest, LockTarget, CountAdmins, TypeOK
      <3>. QED  BY <1>4, <2>1, <3>1, RevokesFrame
                DEF BeginRequest, LockTarget, CountAdmins, accounts
    <2>. QED  BY <2>1 DEF RevokesAll
  <1>5. ASSUME NEW s \in Sessions, OpenSession(s) PROVE RevokesAll'
    <2>1. ASSUME NEW p \in Requests, request'[p] = "commit"
          PROVE  SessionsToRevoke(p)' \subseteq revoking'[p]
      <3>1. request' = request /\ op' = op /\ revoking' = revoking /\ status' = status
        BY <1>5 DEF OpenSession, requests, accounts
      <3>2. rowLock[op[p].target] = p /\ rowLock[owner[s]] = None
        BY <1>5, <2>1, <3>1 DEF LocksHeld, OpenSession, MayReference
      <3>3. owner[s] # op[p].target
        BY <3>2
      <3>4. \A t \in Sessions : login'[t] = "open" /\ owner'[t] = op[p].target =>
                                    login[t] = "open" /\ owner[t] = op[p].target
        BY <1>5, <3>3 DEF OpenSession, TypeOK
      <3>. QED  BY <2>1, <3>1, <3>4, RevokesFrame
    <2>. QED  BY <2>1 DEF RevokesAll
  <1>6. ASSUME NEW s \in Sessions, CheckLogin(s) \/ CloseSession(s) PROVE RevokesAll'
    <2>1. /\ request' = request /\ op' = op /\ revoking' = revoking /\ status' = status
          /\ \A t \in Sessions : login'[t] = "open" =>
                login[t] = "open" /\ owner'[t] = owner[t]
      BY <1>6 DEF CheckLogin, CloseSession, requests, accounts, TypeOK
    <2>. QED  BY <2>1, RevokesFrame DEF RevokesAll
  <1>7. CASE Stop
    BY <1>7 DEF Stop, RevokesAll
  <1>8. CASE Start \/ BeginRegister \/ Register \/ UNCHANGED vars
    <2>1. UNCHANGED <<request, op, revoking, status, login, owner>>
      BY <1>8 DEF Start, Migrations, BeginRegister, Register, requests, accounts, vars
    <2>. QED  BY <2>1 DEF RevokesAll, SessionsToRevoke, NewStatus
  <1>. QED  BY <1>1, <1>2, <1>3, <1>4, <1>5, <1>6, <1>7, <1>8 DEF Next

\* The inductive invariant holds.
LEMMA AccountAlways == Spec => []AccountInv
  <1>1. Init => AccountInv
    <2>. SUFFICES ASSUME Init PROVE AccountInv
      OBVIOUS
    <2>1. created \in Seq(Users)
      <3>1. <<>> \in Seq(Users) /\ \A u \in Users : <<u>> \in Seq(Users)
        OBVIOUS
      <3>. QED  BY <3>1 DEF Init
    <2>2. TypeOK
      BY <2>1 DEF Init, TypeOK, Roles, Statuses
    <2>3. LocksHeld /\ TargetsExist /\ RevokesAll
      BY DEF Init, LocksHeld, TargetsExist, RevokesAll
    <2>. QED  BY <2>2, <2>3 DEF AccountInv
  <1>2. AccountInv /\ [Next]_vars => AccountInv'
    <2>. SUFFICES ASSUME AccountInv, [Next]_vars PROVE AccountInv'
      OBVIOUS
    <2>1. CASE UNCHANGED vars
      <3>1. TypeOK'
        BY <2>1 DEF AccountInv, TypeOK, vars, accounts, requests
      <3>. QED  BY <3>1, LocksStep, TargetsStep, RevokesStep DEF AccountInv
    <2>2. CASE Next
      <3>1. TypeOK'
        BY <2>2, SessionTypes, RequestTypes DEF AccountInv, Next
      <3>. QED  BY <3>1, LocksStep, TargetsStep, RevokesStep DEF AccountInv
    <2>. QED  BY <2>1, <2>2
  <1>. QED  BY <1>1, <1>2, PTL DEF Spec

\* Accounts, sessions and transactions keep their types.
THEOREM AccountTyping == Spec => []TypeOK
  <1>1. AccountInv => TypeOK
    BY DEF AccountInv
  <1>. QED  BY <1>1, AccountAlways, PTL

\* When an account leaves the active state its sessions end, also one whose login
\* was checked before and that comes to be inserted while the transaction runs.
THEOREM SessionsEnd == Spec => SessionsEndWithAccount
  <1>. DEFINE Ends(u) == status[u] = "active" /\ status'[u] # "active" =>
                             \A s \in Sessions : owner[s] = u => login'[s] # "open"
  <1>1. ASSUME AccountInv, [Next]_vars, NEW u \in Users PROVE Ends(u)
    <2>. SUFFICES ASSUME status[u] = "active", status'[u] # "active",
                         NEW s \in Sessions, owner[s] = u
                  PROVE  login'[s] # "open"
      OBVIOUS
    <2>1. PICK q \in Requests : Commit(q)
      BY <1>1 DEF Next, Start, Migrations, Stop, BeginRegister, Register, CheckLogin, OpenSession, CloseSession, BeginRequest, LockTarget,
         CountAdmins, Write, Abort, accounts, vars
    <2>2. op[q].target = u /\ NewStatus(q) # "active"
      BY <1>1, <2>1 DEF Commit, AccountInv, TypeOK
    <2>3. s \in revoking[q] \/ login[s] # "open"
      BY <1>1, <2>1, <2>2 DEF Commit, AccountInv, RevokesAll, SessionsToRevoke
    <2>. QED  BY <2>1, <2>3 DEF Commit
  <1>2. AccountInv /\ [Next]_vars => \A u \in Users : Ends(u)
    BY <1>1
  <1>. QED  BY <1>2, AccountAlways, PTL DEF Spec, SessionsEndWithAccount

\* The migrations at a start keep established accounts and their administrators:
\* the promotion, which comes first, leaves nothing for the insertion to do.
THEOREM EstablishedKept == Spec => EstablishedAccountsKept
  <1>. DEFINE Kept == ~up /\ up' /\ created # <<>> =>
                          /\ created' = created
                          /\ \A u \in Users : role[u] = "admin" => role'[u] = "admin"
                          /\ \E u \in Users : Exists(u) /\ role'[u] = "admin"
  <1>1. AccountInv /\ [Next]_vars => Kept
    <2>. SUFFICES ASSUME AccountInv, [Next]_vars, ~up, up', created # <<>>
                  PROVE  /\ created' = created
                         /\ \A u \in Users : role[u] = "admin" => role'[u] = "admin"
                         /\ \E u \in Users : Exists(u) /\ role'[u] = "admin"
      OBVIOUS
    <2>1. Start
      BY DEF Next, Stop, BeginRegister, Register, CheckLogin, OpenSession, CloseSession,
         BeginRequest, LockTarget, CountAdmins, Write, Commit, Abort, AccountInv, TypeOK, vars
    <2>2. /\ created' = created
          /\ \A u \in Users : role[u] = "admin" => role'[u] = "admin"
          /\ \E u \in Users : Exists(u)' /\ role'[u] = "admin"
      BY <2>1, StartEffect DEF AccountInv
    <2>. QED  BY <2>2 DEF Exists
  <1>. QED  BY <1>1, AccountAlways, PTL DEF Spec, EstablishedAccountsKept

-----------------------------------------------------------------------------
(* The last active administrator                                            *)

\* The accounts that are active administrators other than the one a transaction
\* is about to remove.
Others(q) == {u \in Users \ {op[q].target} : ActiveAdmin(u)}

\* There is an active administrator, also without the one about to be removed; or
\* the server has never run on a database with accounts.
Untouched ==
    /\ ~up \/ created = <<>>
    /\ ~registering /\ \A u \in Users : role[u] = "user" /\ status[u] = "active"

AdminStays ==
    /\ (\E u \in Users : ActiveAdmin(u)) \/ Untouched
    /\ \A q \in Requests : Removing(q) => Others(q) # {}

\* Whoever counts two administrators finds one beside its target.
LEMMA CountFindsOther ==
    ASSUME AnotherAdmin, NEW t
    PROVE  \E u \in Users \ {t} : ActiveAdmin(u)
  <1>. DEFINE A == {u \in Users : ActiveAdmin(u)}
  <1>1. SUFFICES ASSUME \A u \in Users \ {t} : ~ActiveAdmin(u) PROVE FALSE
    OBVIOUS
  <1>2. A \subseteq {t}
    BY <1>1
  <1>3. IsFiniteSet({t}) /\ Cardinality({t}) = 1
    BY FS_Singleton
  <1>4. Cardinality(A) <= 1
    BY <1>2, <1>3, FS_Subset
  <1>5. Cardinality(A) \in Nat
    BY <1>2, <1>3, FS_Subset, FS_CardinalityType
  <1>. QED  BY <1>4, <1>5 DEF AnotherAdmin

\* A step that takes no administrator away and brings no removal forward.
LEMMA AdminFrame ==
    ASSUME AdminStays, \E u \in Users : ActiveAdmin(u),
           \A u \in Users : ActiveAdmin(u) => ActiveAdmin(u)',
           \A q \in Requests : Removing(q)' => Removing(q) /\ op'[q] = op[q]
    PROVE  AdminStays'
  BY DEF AdminStays, Others

\* A step of neither accounts nor requests.
LEMMA AdminUntouched ==
    ASSUME AdminStays, UNCHANGED <<accounts, up, registering, request, op>>
    PROVE  AdminStays'
  <1>1. \A u \in Users : ActiveAdmin(u)' <=> ActiveAdmin(u)
    BY DEF accounts, ActiveAdmin, Exists
  <1>2. \A q \in Requests : (Removing(q)' <=> Removing(q)) /\ Others(q)' = Others(q)
    BY <1>1 DEF accounts, Removing, Removes, NewStatus, NewRole, Others
  <1>. QED  BY <1>1, <1>2 DEF AdminStays, Untouched, accounts

\* A commit leaves another administrator, unless a second removal is under way.
LEMMA CommitLeavesAdmin ==
    ASSUME AccountInv, AdminStays, RemovalsDoNotOverlap, NEW q \in Requests, Commit(q)
    PROVE  AdminStays'
  <1>0. PICK t : t = op[q].target
    OBVIOUS
  <1>1. /\ Release(q) /\ request[q] = "commit" /\ created' = created /\ up' = up
        /\ status' = [status EXCEPT ![t] = NewStatus(q)]
        /\ role' = [role EXCEPT ![t] = NewRole(q)]
    BY <1>0 DEF Commit
  <1>2. /\ t \in Users /\ TypeOK
        /\ status'[t] = NewStatus(q) /\ role'[t] = NewRole(q)
    BY <1>0, <1>1, Targets DEF AccountInv, TypeOK
  <1>3. \A u \in Users \ {t} : status'[u] = status[u] /\ role'[u] = role[u]
    BY <1>1, <1>2 DEF TypeOK
  <1>4. \A u \in Users \ {t} : ActiveAdmin(u) => ActiveAdmin(u)'
    BY <1>1, <1>3 DEF ActiveAdmin, Exists
  <1>5. ActiveAdmin(t) /\ ~Removing(q) => ActiveAdmin(t)'
    BY <1>0, <1>1, <1>2 DEF ActiveAdmin, Exists, Removing, Removes
  <1>6. up /\ created # <<>>
    BY <1>1 DEF AccountInv, LocksHeld, TargetsExist, Exists
  <1>7. \E u \in Users : ActiveAdmin(u)'
    <2>1. CASE Removing(q)
      BY <1>0, <1>4, <2>1 DEF AdminStays, Others
    <2>2. CASE ~Removing(q)
      BY <1>4, <1>5, <1>6, <2>2 DEF AdminStays, Untouched
    <2>. QED  BY <2>1, <2>2
  <1>8. ASSUME NEW p \in Requests, Removing(p)' PROVE Others(p)' # {}
    <2>1. p # q /\ request'[p] = request[p] /\ op'[p] = op[p]
      BY <1>1, <1>2, <1>8, ReleaseEffect DEF Removing
    <2>2. request[p] \in {"write", "commit"} /\ op[p].target # t
      BY <1>0, <1>1, <1>8, <2>1, OneTargetEach DEF Removing, AccountInv
    <2>3. op[p].target \in Users
      BY <1>2, <2>2, Targets
    <2>4. Removing(p)
      BY <1>3, <1>8, <2>1, <2>2, <2>3 DEF Removing, Removes, NewStatus, NewRole
    <2>5. ~Removing(q)
      BY <2>1, <2>4 DEF RemovalsDoNotOverlap
    <2>6. PICK u \in Users \ {op[p].target} : ActiveAdmin(u)
      BY <2>4 DEF AdminStays, Others
    <2>7. ActiveAdmin(u)'
      BY <1>4, <1>5, <2>5, <2>6
    <2>. QED  BY <2>1, <2>6, <2>7 DEF Others
  <1>. QED  BY <1>7, <1>8 DEF AdminStays

\* No step loses the last administrator while removals do not overlap.
LEMMA AdminStep ==
    ASSUME AccountInv, AdminStays, RemovalsDoNotOverlap, [Next]_vars
    PROVE  AdminStays'
  <1>. USE AccountConstants
  <1>0. TypeOK /\ LocksHeld
    BY DEF AccountInv
  <1>1. CASE UNCHANGED vars
    BY <1>1, AdminUntouched DEF vars, requests
  <1>2. CASE Start
    <2>1. \A q \in Requests : ~Removing(q)'
      BY <1>0, <1>2 DEF Start, requests, LocksHeld, Removing
    <2>2. (\E u \in Users : ActiveAdmin(u)') \/ Untouched'
      <3>1. /\ status' = status /\ registering' = registering /\ created' \in Seq(Users)
            /\ role' \in [Users -> Roles]
            /\ \A u \in Users : role[u] = "admin" => role'[u] = "admin"
            /\ created # <<>> => created' = created
            /\ created' # <<>> => \E u \in Users : Exists(u)' /\ role'[u] = "admin"
        BY <1>0, <1>2, StartEffect DEF Start
      <3>2. CASE \E u \in Users : ActiveAdmin(u)
        BY <3>1, <3>2 DEF ActiveAdmin, Exists
      <3>3. CASE Untouched /\ created' # <<>>
        BY <3>1, <3>3 DEF Untouched, ActiveAdmin
      <3>4. CASE Untouched /\ created' = <<>>
        <4>1. created = <<>>
          BY <3>1, <3>4
        <4>2. role' = role
          BY <1>2, <3>4, <4>1 DEF Start, Migrations, Defaults, PromoteFirst, InsertBootstrap
        <4>. QED  BY <3>1, <3>4, <4>2 DEF Untouched
      <3>. QED  BY <3>2, <3>3, <3>4 DEF AdminStays
    <2>. QED  BY <2>1, <2>2 DEF AdminStays
  <1>3. CASE Stop
    <2>1. /\ \A q \in Requests : ~Removing(q)'
          /\ ~registering' /\ ~up' /\ UNCHANGED accounts
      BY <1>3 DEF Stop, Removing
    <2>. QED  BY <2>1 DEF AdminStays, Untouched, ActiveAdmin, Exists, accounts
  <1>9. CASE BeginRegister
    <2>1. \E u \in Users : role[u] = "admin"
      <3>1. PICK s \in Sessions : Usable(s) /\ role[owner[s]] = "admin"
        BY <1>9 DEF BeginRegister
      <3>2. owner[s] \in Users
        BY <1>0, <3>1 DEF TypeOK, Usable
      <3>. QED  BY <3>1, <3>2
    <2>2. \E u \in Users : ActiveAdmin(u)
      BY <2>1 DEF AdminStays, Untouched, Roles
    <2>3. UNCHANGED <<accounts, up, request, op>>
      BY <1>9 DEF BeginRegister, requests
    <2>4. \A u \in Users : ActiveAdmin(u) => ActiveAdmin(u)'
      BY <2>3 DEF ActiveAdmin, Exists, accounts
    <2>5. \A q \in Requests : Removing(q)' => Removing(q) /\ op'[q] = op[q]
      BY <2>3 DEF Removing, Removes, NewStatus, NewRole, accounts
    <2>. QED  BY <2>2, <2>4, <2>5, AdminFrame
  <1>4. CASE Register
    <2>1. PICK u \in Users, r \in Roles :
             /\ ~Exists(u) /\ created' = Append(created, u)
             /\ role' = [role EXCEPT ![u] = r]
      BY <1>4 DEF Register
    <2>2. registering /\ status' = status /\ UNCHANGED requests
      BY <1>4 DEF Register
    <2>3. \A v \in Users : Exists(v) => v # u /\ Exists(v)' /\ role'[v] = role[v]
      BY <1>0, <2>1 DEF Exists, TypeOK
    <2>4. \A v \in Users : ActiveAdmin(v) => ActiveAdmin(v)'
      BY <2>2, <2>3 DEF ActiveAdmin
    <2>5. ASSUME NEW q \in Requests, Removing(q)' PROVE Removing(q) /\ op'[q] = op[q]
      <3>1. /\ request[q] \in {"write", "commit"} /\ request' = request /\ op' = op
        BY <2>2, <2>5 DEF Removing, requests
      <3>2. op[q].target \in Users /\ Exists(op[q].target)
        BY <1>0, <3>1, Targets DEF AccountInv, TargetsExist
      <3>3. role'[op[q].target] = role[op[q].target]
        BY <2>3, <3>2
      <3>. QED  BY <2>2, <2>5, <3>1, <3>3 DEF Removing, Removes, NewStatus, NewRole
    <2>. QED  BY <2>2, <2>4, <2>5, AdminFrame DEF AdminStays, Untouched
  <1>5. ASSUME NEW s \in Sessions, CheckLogin(s) \/ OpenSession(s) \/ CloseSession(s)
        PROVE  AdminStays'
    BY <1>5, AdminUntouched DEF CheckLogin, OpenSession, CloseSession, requests
  <1>6. ASSUME NEW q \in Requests, BeginRequest(q) \/ LockTarget(q) \/ Write(q) \/ Abort(q)
        PROVE  AdminStays'
    <2>1. UNCHANGED <<accounts, up, registering>>
      BY <1>6 DEF BeginRequest, LockTarget, Write, Abort
    <2>2. ASSUME NEW p \in Requests, Removing(p)' PROVE Removing(p) /\ op'[p] = op[p]
      <3>1. CASE LockTarget(q) \/ Write(q)
        BY <1>0, <2>1, <2>2, <3>1 DEF LockTarget, Write, accounts, Removing, Removes, NewStatus,
           NewRole, TypeOK
      <3>2. CASE BeginRequest(q)
        <4>1. p # q /\ request'[p] = request[p] /\ op'[p] = op[p]
          BY <1>0, <2>2, <3>2 DEF BeginRequest, Removing, TypeOK
        <4>. QED  BY <2>1, <2>2, <4>1 DEF accounts, Removing, Removes, NewStatus, NewRole
      <3>3. CASE Abort(q)
        <4>1. p # q /\ request'[p] = request[p] /\ op'[p] = op[p]
          BY <1>0, <2>2, <3>3, ReleaseEffect DEF Abort, Removing
        <4>. QED  BY <2>1, <2>2, <4>1 DEF accounts, Removing, Removes, NewStatus, NewRole
      <3>. QED  BY <1>6, <3>1, <3>2, <3>3
    <2>. QED  BY <2>1, <2>2 DEF AdminStays, Untouched, Others, ActiveAdmin, Exists, accounts
  <1>7. ASSUME NEW q \in Requests, CountAdmins(q) PROVE AdminStays'
    <2>1. UNCHANGED <<accounts, up, registering, op>>
      BY <1>7 DEF CountAdmins
    <2>2. Others(q)' # {}
      <3>1. PICK u \in Users \ {op[q].target} : ActiveAdmin(u)
        BY <1>7, CountFindsOther DEF CountAdmins
      <3>. QED  BY <2>1, <3>1 DEF Others, ActiveAdmin, Exists, accounts
    <2>3. ASSUME NEW p \in Requests \ {q}, Removing(p)' PROVE Removing(p)
      BY <1>0, <1>7, <2>1, <2>3 DEF CountAdmins, accounts, Removing, Removes, NewStatus, NewRole,
         TypeOK
    <2>. QED  BY <2>1, <2>2, <2>3 DEF AdminStays, Untouched, Others, ActiveAdmin, Exists, accounts
  <1>8. ASSUME NEW q \in Requests, Commit(q) PROVE AdminStays'
    BY <1>8, CommitLeavesAdmin
  <1>. QED  BY <1>1, <1>2, <1>3, <1>4, <1>5, <1>6, <1>7, <1>8, <1>9 DEF Next

\* The running server that has accounts has an active administrator, as long as no
\* two transactions that each remove one stand between their counts and their
\* commits: overlapping removals are the only way to lose the last.
THEOREM AdminRemains == Spec /\ []RemovalsDoNotOverlap => []ActiveAdminRemains
  <1>1. Init => AdminStays
    BY DEF Init, AdminStays, Untouched, Removing
  <1>2. AdminStays => ActiveAdminRemains
    BY DEF AdminStays, Untouched, ActiveAdminRemains
  <1>3. AccountInv /\ AdminStays /\ RemovalsDoNotOverlap /\ [Next]_vars => AdminStays'
    BY AdminStep
  <1>. QED  BY <1>1, <1>2, <1>3, AccountAlways, PTL DEF Spec
=============================================================================
