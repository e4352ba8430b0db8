-------------------------- MODULE ShareAccess_proofs --------------------------
(***************************************************************************)
(* Proofs about ShareAccess, for any number of accounts, shares, leases,     *)
(* policies and concurrent requests, and any bound on versions.              *)
(***************************************************************************)
EXTENDS ShareAccess, TLAPS

\* What a request that is about to write has read.
Meant ==
    \A h \in Handlers : /\ pc[h] = "insert" => held[h].to \in Grantees
                        /\ pc[h] = "locked" => held[h].op \in Transitions
TypeInv == TypeOK /\ Meant

\* A transition has locked the open share it writes.
HoldsOpen(h) == rowLock[held[h].share] = h /\ IsOpen(held[h].share)
Locks == \A h \in Handlers : pc[h] = "locked" => HoldsOpen(h)

\* What has been read of a share is of an older version, or of this policy.
Fits(x) ==
    x.share # None =>
        /\ share[x.share] # None
        /\ x.version \in Nat /\ x.version <= share[x.share].version
        /\ x.version = share[x.share].version => x.policy = share[x.share].policy
Read ==
    /\ \A l \in Leases : lease[l] # None => Fits(lease[l])
    /\ \A h \in Handlers : pc[h] = "issue" => Fits(held[h])

ShareInv == TypeInv /\ Locks /\ Read

\* What a step may do to the rows of agent_shares.
RowGrows(s) ==
    share[s] # None =>
        /\ share'[s] \in Share
        /\ \/ share'[s].version = share[s].version /\ share'[s].policy = share[s].policy
           \/ share'[s].version > share[s].version
        /\ ~IsOpen(s) => share'[s].status = share[s].status
SharesGrow == \A s \in Shares : RowGrows(s)

-----------------------------------------------------------------------------
\* Records of agent_shares stay records of agent_shares.
LEMMA RowTypes ==
    ASSUME NEW r \in Share
    PROVE  /\ r # None
           /\ \A st \in Open \cup Closed :
                 /\ [r EXCEPT !.status = st] \in Share
                 /\ [r EXCEPT !.status = st].status = st
                 /\ [r EXCEPT !.status = st].version = r.version
                 /\ [r EXCEPT !.status = st].policy = r.policy
           /\ \A w \in Windows :
                 /\ [r EXCEPT !.window = w] \in Share
                 /\ [r EXCEPT !.window = w].status = r.status
                 /\ [r EXCEPT !.window = w].version = r.version
                 /\ [r EXCEPT !.window = w].policy = r.policy
           /\ r.version \in Nat /\ r.policy \in Policies /\ r.grantee \in Grantees
           /\ r.status \in Open \cup Closed
  BY RecordAssumption, ShareAssumption DEF Share, Versions

\* Expiring shares keeps everything but the status of open ones.
LEMMA Expiring ==
    ASSUME TypeOK, NEW statuses \in SUBSET Open, Expire(statuses)
    PROVE  /\ share' \in [Shares -> Share \cup {None}]
           /\ SharesGrow
           /\ \A s \in Shares : rowLock[s] # None => share'[s] = share[s]
  <1>1. ASSUME NEW s \in Shares
        PROVE  share'[s] \in Share \cup {None} /\ RowGrows(s)
    <2>1. CASE share[s] # None /\ share[s].status \in statuses /\ share[s].window = "over"
      <3>1. share'[s] = [share[s] EXCEPT !.status = "expired"] /\ share[s] \in Share
        BY <2>1 DEF TypeOK, Expire, Expired
      <3>2. IsOpen(s) /\ "expired" \in Open \cup Closed
        BY <2>1 DEF IsOpen, Closed
      <3>. QED  BY <3>1, <3>2, RowTypes DEF RowGrows
    <2>2. CASE ~(share[s] # None /\ share[s].status \in statuses /\ share[s].window = "over")
      BY <2>2 DEF TypeOK, Expire, Expired, RowGrows
    <2>. QED  BY <2>1, <2>2
  <1>2. share' = [s \in Shares |-> share'[s]]
    BY DEF Expire, Expired
  <1>3. share' \in [Shares -> Share \cup {None}]
    BY <1>1, <1>2
  <1>. QED  BY <1>1, <1>3 DEF Expire, SharesGrow

\* A step that leaves agent_shares alone lets it grow.
LEMMA NoGrowth == TypeOK /\ UNCHANGED share => SharesGrow
  BY DEF TypeOK, SharesGrow, RowGrows

\* The types of what a request that ends leaves behind.
LEMMA Finishing ==
    ASSUME TypeInv, NEW h \in Handlers, NEW open \in BOOLEAN, Finish(h, open),
           open => held[h] \in Held,
           \A i \in Handlers \ {h} : pc[i] = "locked" =>
               held[i].share \in Shares /\ share'[held[i].share] \in Share
    PROVE  /\ pc' \in [Handlers -> {"idle", "begun", "issue", "renew", "insert", "locked", "away"}]
           /\ held' \in [Handlers -> Held \cup {None}]
           /\ served' \in [Handlers -> BOOLEAN]
           /\ \A i \in Handlers : pc'[i] # "idle" \/ served'[i] => held'[i] \in Held
           /\ \A i \in Handlers : pc'[i] = "locked" =>
                 held'[i].share \in Shares /\ share'[held'[i].share] \in Share
           /\ Meant'
  BY DEF TypeInv, TypeOK, Meant, Finish

-----------------------------------------------------------------------------
\* The record of a request.
LEMMA HeldFields ==
    ASSUME NEW r \in Held
    PROVE  /\ r.user \in Users /\ r.request \in Requests /\ r.to \in Users
           /\ r.share \in Shares \cup {None} /\ r.version \in Versions \cup {0}
           /\ r.policy \in Policies \cup {None}
           /\ r.op \in Transitions \cup {"create", "issue", "renew"}
           /\ \A s \in Shares \cup {None} : [r EXCEPT !.share = s] \in Held
           /\ \A u \in Users : [r EXCEPT !.to = u] \in Held
           /\ \A s \in Shares \cup {None}, v \in Versions \cup {0}, p \in Policies \cup {None} :
                 [r EXCEPT !.share = s, !.version = v, !.policy = p] \in Held
  BY DEF Held

\* The access a user is found to have.
LEMMA AccessFields ==
    ASSUME TypeOK, NEW u \in Users, NEW a \in Accesses(u)
    PROVE  /\ a.share \in Shares \cup {None} /\ a.version \in Versions \cup {0}
           /\ a.policy \in Policies \cup {None}
           /\ a.share # None => /\ share[a.share] \in Share
                                /\ a.version = share[a.share].version
                                /\ a.policy = share[a.share].policy
  <1>1. CASE a = [share |-> None, version |-> 0, policy |-> None]
    BY <1>1
  <1>2. ASSUME NEW s \in Shares, Resolvable(s, u),
               a = [share |-> s, version |-> share[s].version, policy |-> share[s].policy]
        PROVE  /\ a.share = s /\ share[s] \in Share
               /\ a.version = share[s].version /\ a.policy = share[s].policy
               /\ a.version \in Versions /\ a.policy \in Policies
    BY <1>2 DEF TypeOK, Resolvable, Share
  <1>. QED  BY <1>1, <1>2 DEF Accesses

\* A step of a request keeps the types.
LEMMA TypeHandler ==
    ASSUME TypeInv, NEW h \in Handlers, Request(h)
    PROVE  TypeInv'
  <1>0. TypeOK /\ Meant
    BY DEF TypeInv
  <1>1. CASE Begin(h)
    <2>1. PICK u \in active, op \in Transitions \cup {"create", "issue", "renew"}, r \in Requests :
             held' = [held EXCEPT ![h] = [user |-> u, op |-> op, request |-> r, to |-> Owner,
                                       share |-> None, version |-> 0, policy |-> None]]
      BY <1>1 DEF Begin
    <2>2. held' \in [Handlers -> Held \cup {None}] /\ held'[h] \in Held
      BY <1>0, <2>1 DEF TypeOK, Held, Users
    <2>. QED  BY <1>0, <1>1, <2>1, <2>2 DEF Begin, TypeInv, TypeOK, Meant, Goto, rows
  <1>2. CASE Resolve(h)
    <2>1. /\ {"active"} \in SUBSET Open /\ Expire({"active"})
          /\ held[h] \in Held /\ held[h].op \in {"issue", "renew"}
      BY <1>0, <1>2 DEF Resolve, TypeOK, Open
    <2>2. /\ share' \in [Shares -> Share \cup {None}]
          /\ \A s \in Shares : share[s] \in Share => share'[s] \in Share
      BY <1>0, <2>1, Expiring, RecordAssumption DEF SharesGrow, RowGrows
    <2>3. CASE Finish(h, FALSE)
      BY <1>0, <1>2, <2>2, <2>3 DEF Finish, Resolve, TypeInv, TypeOK, Meant
    <2>4. ASSUME NEW a \in Accesses(held[h].user),
                 held' = [held EXCEPT ![h].share = a.share, ![h].version = a.version,
                                     ![h].policy = a.policy],
                 Goto(h, held[h].op), UNCHANGED served
          PROVE  TypeInv'
      <3>1. held' = [held EXCEPT ![h] = [held[h] EXCEPT !.share = a.share,
                                          !.version = a.version, !.policy = a.policy]]
        BY <2>1, <2>4, <1>0 DEF TypeOK, Held
      <3>2. [held[h] EXCEPT !.share = a.share, !.version = a.version, !.policy = a.policy] \in Held
        BY <1>0, <2>1, <2>4, HeldFields, AccessFields
      <3>3. /\ held' \in [Handlers -> Held \cup {None}] /\ held'[h] \in Held
            /\ \A i \in Handlers \ {h} : held'[i] = held[i]
        BY <1>0, <3>1, <3>2 DEF TypeOK
      <3>4. /\ pc' = [pc EXCEPT ![h] = held[h].op] /\ held[h].op \in {"issue", "renew"}
            /\ UNCHANGED <<active, rowLock, lease, served>>
        BY <1>2, <2>1, <2>4 DEF Resolve, Goto
      <3>. QED  BY <1>0, <2>2, <3>3, <3>4 DEF TypeInv, TypeOK, Meant
    <2>. QED  BY <1>2, <2>3, <2>4 DEF Resolve
  <1>3. CASE Issue(h)
    <2>1. PICK l \in Leases :
            lease' = [lease EXCEPT ![l] =
                [subject |-> held[h].user, request |-> held[h].request, share |-> held[h].share,
                 version |-> held[h].version, policy |-> held[h].policy]]
      BY <1>3 DEF Issue
    <2>2. held[h] \in Held
      BY <1>0, <1>3 DEF Issue, TypeOK
    <2>3. lease' \in [Leases -> Lease \cup {None}]
      BY <1>0, <2>1, <2>2 DEF TypeOK, Lease, Held
    <2>. QED  BY <1>0, <1>3, <2>3 DEF Issue, Finish, TypeInv, TypeOK, Meant
  <1>4. CASE Renew(h)
    BY <1>0, <1>4 DEF Renew, Finish, TypeInv, TypeOK, Meant, rows
  <1>5. CASE Recheck(h)
    BY <1>0, <1>5 DEF Recheck, RecheckAt, Goto, Finish, TypeInv, TypeOK, Meant, rows
  <1>6. CASE CheckGrantee(h)
    <2>1. PICK g \in Grantees : held' = [held EXCEPT ![h].to = g]
      BY <1>6 DEF CheckGrantee
    <2>2. held[h] \in Held /\ g \in Users
      BY <1>0, <1>6 DEF CheckGrantee, TypeOK, Users
    <2>3. held' = [held EXCEPT ![h] = [held[h] EXCEPT !.to = g]] /\ [held[h] EXCEPT !.to = g].to = g
      BY <1>0, <2>1, <2>2 DEF TypeOK, Held
    <2>4. [held[h] EXCEPT !.to = g] \in Held
      BY <2>2, HeldFields
    <2>. QED  BY <1>0, <1>6, <2>3, <2>4 DEF CheckGrantee, Goto, TypeInv, TypeOK, Meant, rows
  <1>7. CASE Invite(h)
    <2>1. PICK s \in Shares, p \in Policies, w \in Windows :
            /\ share[s] = None
            /\ share' = [share EXCEPT ![s] = [grantee |-> held[h].to, status |-> "pending",
                                            window |-> w, policy |-> p, version |-> 1]]
      BY <1>7 DEF Invite
    <2>2. 1 \in Versions
      BY ShareAssumption DEF Versions
    <2>3. share' \in [Shares -> Share \cup {None}] /\ share'[s] \in Share
      BY <1>0, <1>7, <2>1, <2>2 DEF Invite, TypeOK, Meant, Share, Open
    <2>. QED  BY <1>0, <1>7, <2>1, <2>3 DEF Invite, Finish, TypeInv, TypeOK, Meant
  <1>8. CASE Lock(h)
    <2>1. PICK s \in Shares : /\ share[s] # None
                              /\ rowLock' = [rowLock EXCEPT ![s] = h]
                              /\ held' = [held EXCEPT ![h].share = s]
      BY <1>8 DEF Lock
    <2>2. held[h] \in Held /\ held[h].op \in Transitions /\ share[s] \in Share
      BY <1>0, <1>8, <2>1 DEF Lock, TypeOK
    <2>3. /\ held' = [held EXCEPT ![h] = [held[h] EXCEPT !.share = s]]
          /\ [held[h] EXCEPT !.share = s].op = held[h].op /\ [held[h] EXCEPT !.share = s].share = s
      BY <1>0, <2>1, <2>2 DEF TypeOK, Held
    <2>4. [held[h] EXCEPT !.share = s] \in Held
      BY <2>2, HeldFields
    <2>. QED  BY <1>0, <1>8, <2>1, <2>2, <2>3, <2>4 DEF Lock, Goto, TypeInv, TypeOK, Meant
  <1>9. CASE Apply(h)
    <2>. DEFINE s == held[h].share
    <2>1. s \in Shares /\ share[s] \in Share /\ held[h].op \in Transitions /\ held[h] \in Held
      BY <1>0, <1>9 DEF Apply, TypeOK, Meant
    <2>2. /\ share' \in [Shares -> Share \cup {None}]
          /\ share'[s] \in Share /\ \A t \in Shares \ {s} : share'[t] = share[t]
      <3>1. CASE /\ held[h].op # "update"
                 /\ share' = [share EXCEPT ![s].status = NextStatus(held[h].op)]
        <4>1. NextStatus(held[h].op) \in Open \cup Closed
          BY <2>1, <3>1 DEF NextStatus, Transitions, Open, Closed
        <4>2. share' = [share EXCEPT ![s] = [share[s] EXCEPT !.status = NextStatus(held[h].op)]]
          BY <3>1
        <4>. QED  BY <1>0, <2>1, <4>1, <4>2, RowTypes DEF TypeOK
      <3>2. ASSUME share[s].version < MaxVersion, NEW p \in Policies, NEW w \in Windows,
                   share' = [share EXCEPT ![s] = Updated(s, p, w)]
            PROVE  /\ share' \in [Shares -> Share \cup {None}]
                   /\ share'[s] \in Share /\ \A t \in Shares \ {s} : share'[t] = share[t]
        <4>1. share[s].version + 1 \in Versions
          BY <2>1, <3>2, ShareAssumption DEF Share, Versions
        <4>2. Updated(s, p, w) \in Share
          BY <2>1, <4>1 DEF Updated, Share
        <4>. QED  BY <1>0, <2>1, <3>2, <4>2 DEF TypeOK
      <3>. QED  BY <1>9, <3>1, <3>2 DEF Apply
    <2>3. rowLock' \in [Shares -> Handlers \cup {None}] /\ lease' \in [Leases -> Lease \cup {None}]
      BY <1>0, <1>9 DEF Apply, TypeOK
    <2>. QED  BY <1>0, <1>9, <2>1, <2>2, <2>3 DEF Apply, Finish, TypeInv, TypeOK, Meant
  <1>10. CASE Fail(h)
    BY <1>0, <1>10 DEF Fail, Finish, TypeInv, TypeOK, Meant
  <1>11. CASE Away(h) \/ Return(h)
    BY <1>0, <1>11 DEF Away, Return, Goto, TypeInv, TypeOK, Meant, rows
  <1>. QED  BY <1>1, <1>2, <1>3, <1>4, <1>5, <1>6, <1>7, <1>8, <1>9, <1>10, <1>11 DEF Request, Serve, Manage

\* An account's end keeps the types, and closes only shares that no transaction
\* has locked.
LEMMA Deactivating ==
    ASSUME TypeOK, NEW u \in Users, Deactivate(u)
    PROVE  /\ share' \in [Shares -> Share \cup {None}] /\ SharesGrow
           /\ \A s \in Shares : rowLock[s] # None => share'[s] = share[s]
  <1>1. ASSUME NEW s \in Shares
        PROVE  share'[s] \in Share \cup {None} /\ RowGrows(s)
    <2>1. CASE IsOpen(s) /\ Involves(s, u)
      <3>1. share'[s] = [share[s] EXCEPT !.status = "revoked"] /\ share[s] \in Share
        BY <2>1 DEF TypeOK, Deactivate, IsOpen
      <3>. QED  BY <2>1, <3>1, RowTypes DEF RowGrows, Closed
    <2>2. CASE ~(IsOpen(s) /\ Involves(s, u))
      BY <2>2 DEF TypeOK, Deactivate, RowGrows
    <2>. QED  BY <2>1, <2>2
  <1>2. share' = [s \in Shares |-> share'[s]]
    BY DEF Deactivate
  <1>3. share' \in [Shares -> Share \cup {None}]
    BY <1>1, <1>2
  <1>. QED  BY <1>1, <1>3 DEF Deactivate, SharesGrow

\* So does the passing of a window, which never changes a status.
LEMMA Passing ==
    ASSUME TypeOK, NEW s \in Shares, TimePasses(s)
    PROVE  /\ share' \in [Shares -> Share \cup {None}] /\ SharesGrow
           /\ \A t \in Shares : IsOpen(t) => IsOpen(t)'
  <1>1. PICK w \in Windows : share' = [share EXCEPT ![s] = [share[s] EXCEPT !.window = w]]
    BY DEF TimePasses, Windows
  <1>2. share[s] \in Share
    BY DEF TimePasses, IsOpen, TypeOK
  <1>3. /\ share'[s] \in Share /\ share'[s] # None
        /\ share'[s].status = share[s].status /\ share'[s].version = share[s].version
        /\ share'[s].policy = share[s].policy
    BY <1>1, <1>2, RowTypes DEF TypeOK
  <1>4. \A t \in Shares \ {s} : share'[t] = share[t]
    BY <1>1 DEF TypeOK
  <1>5. share' \in [Shares -> Share \cup {None}]
    BY <1>1, <1>3 DEF TypeOK
  <1>6. SharesGrow
    BY <1>3, <1>4 DEF TypeOK, SharesGrow, RowGrows
  <1>. QED  BY <1>3, <1>4, <1>5, <1>6 DEF IsOpen

\* Every step keeps the types.
LEMMA TypeStep == TypeInv /\ [Next]_vars => TypeInv'
  <1>. SUFFICES ASSUME TypeInv, [Next]_vars PROVE TypeInv'
    OBVIOUS
  <1>0. TypeOK /\ Meant
    BY DEF TypeInv
  <1>1. ASSUME NEW h \in Handlers, Request(h)
        PROVE  TypeInv'
    BY <1>1, TypeHandler
  <1>2. CASE ListShares
    <2>1. Open \in SUBSET Open /\ Expire(Open)
      BY <1>2 DEF ListShares
    <2>2. /\ share' \in [Shares -> Share \cup {None}]
          /\ \A s \in Shares : share[s] \in Share => share'[s] \in Share
      BY <1>0, <2>1, Expiring, RecordAssumption DEF SharesGrow, RowGrows
    <2>. QED  BY <1>0, <1>2, <2>2 DEF ListShares, TypeInv, TypeOK, Meant
  <1>3. ASSUME NEW u \in Users, Deactivate(u) PROVE TypeInv'
    <2>1. /\ share' \in [Shares -> Share \cup {None}]
          /\ \A s \in Shares : share[s] \in Share => share'[s] \in Share
      BY <1>0, <1>3, Deactivating, RecordAssumption DEF SharesGrow, RowGrows
    <2>2. lease' \in [Leases -> Lease \cup {None}] /\ active' \subseteq Users
      BY <1>0, <1>3 DEF Deactivate, TypeOK
    <2>. QED  BY <1>0, <1>3, <2>1, <2>2 DEF Deactivate, TypeInv, TypeOK, Meant
  <1>4. ASSUME NEW u \in Users, Activate(u) PROVE TypeInv'
    BY <1>0, <1>4 DEF Activate, TypeInv, TypeOK, Meant
  <1>5. ASSUME NEW s \in Shares, TimePasses(s) PROVE TypeInv'
    <2>1. /\ share' \in [Shares -> Share \cup {None}]
          /\ \A t \in Shares : share[t] \in Share => share'[t] \in Share
      BY <1>0, <1>5, Passing, RecordAssumption DEF SharesGrow, RowGrows
    <2>. QED  BY <1>0, <1>5, <2>1 DEF TimePasses, TypeInv, TypeOK, Meant
  <1>6. ASSUME NEW l \in Leases, LeaseEnds(l) PROVE TypeInv'
    BY <1>0, <1>6 DEF LeaseEnds, TypeInv, TypeOK, Meant
  <1>7. CASE UNCHANGED vars
    BY <1>0, <1>7 DEF vars, TypeInv, TypeOK, Meant
  <1>. QED  BY <1>1, <1>2, <1>3, <1>4, <1>5, <1>6, <1>7 DEF Next

-----------------------------------------------------------------------------
\* The transaction that writes a share raises its version or moves it out of an
\* open status.
LEMMA Applying ==
    ASSUME TypeInv, Locks, NEW h \in Handlers, Apply(h)
    PROVE  /\ SharesGrow
           /\ \A s \in Shares \ {held[h].share} : share'[s] = share[s]
  <1>. DEFINE s == held[h].share
  <1>1. /\ s \in Shares /\ share[s] \in Share /\ IsOpen(s)
        /\ share \in [Shares -> Share \cup {None}] /\ share'[s] \in Share \cup {None}
        /\ held[h].op \in Transitions
    <2>1. TypeInv'
      BY TypeStep DEF Next, Request, Manage
    <2>. QED  BY <2>1 DEF Apply, TypeInv, TypeOK, Meant, Locks, HoldsOpen
  <1>2. CASE held[h].op # "update" /\ share' = [share EXCEPT ![s].status = NextStatus(held[h].op)]
    <2>1. NextStatus(held[h].op) \in Open \cup Closed
      BY <1>1, <1>2 DEF NextStatus, Transitions, Open, Closed
    <2>2. share' = [share EXCEPT ![s] = [share[s] EXCEPT !.status = NextStatus(held[h].op)]]
      BY <1>2
    <2>3. /\ share'[s] \in Share
          /\ share'[s].version = share[s].version /\ share'[s].policy = share[s].policy
      BY <1>1, <2>1, <2>2, RowTypes
    <2>4. \A t \in Shares \ {s} : share'[t] = share[t]
      BY <1>1, <2>2
    <2>. QED  BY <1>1, <2>3, <2>4 DEF SharesGrow, RowGrows
  <1>3. ASSUME share[s].version < MaxVersion, NEW p \in Policies, NEW w \in Windows,
               share' = [share EXCEPT ![s] = Updated(s, p, w)]
        PROVE  SharesGrow /\ \A t \in Shares \ {s} : share'[t] = share[t]
    <2>1. share'[s] = Updated(s, p, w) /\ \A t \in Shares \ {s} : share'[t] = share[t]
      BY <1>1, <1>3
    <2>2. share[s].version \in Nat /\ share[s].version + 1 \in Versions
      BY <1>1, <1>3, ShareAssumption DEF Share, Versions
    <2>3. Updated(s, p, w) \in Share /\ Updated(s, p, w).version = share[s].version + 1
      BY <1>1, <2>2 DEF Updated, Share
    <2>4. share'[s] \in Share /\ share'[s].version > share[s].version
      BY <2>1, <2>2, <2>3
    <2>. QED  BY <1>1, <2>1, <2>4 DEF SharesGrow, RowGrows
  <1>. QED  BY <1>2, <1>3 DEF Apply

\* Rows are inserted, not overwritten.
LEMMA Inviting ==
    ASSUME TypeInv, NEW h \in Handlers, Invite(h)
    PROVE  SharesGrow /\ \A s \in Shares : share[s] # None => share'[s] = share[s]
  BY DEF Invite, TypeInv, TypeOK, SharesGrow, RowGrows

\* A step lets every share grow.
LEMMA Growth ==
    ASSUME TypeInv, Locks, [Next]_vars
    PROVE  SharesGrow
  <1>0. TypeOK
    BY DEF TypeInv
  <1>1. ASSUME NEW h \in Handlers, Request(h)
        PROVE  SharesGrow
    <2>1. CASE Resolve(h)
      BY <1>0, <2>1, Expiring DEF Resolve, Open
    <2>2. CASE Invite(h)
      BY <2>2, Inviting
    <2>3. CASE Apply(h)
      BY <2>3, Applying
    <2>4. CASE Begin(h) \/ Issue(h) \/ Renew(h) \/ Recheck(h)
      BY <1>0, <2>4, NoGrowth DEF Begin, Issue, Renew, Recheck, rows
    <2>5. CASE CheckGrantee(h) \/ Lock(h) \/ Fail(h) \/ Away(h) \/ Return(h)
      BY <1>0, <2>5, NoGrowth DEF CheckGrantee, Lock, Fail, Away, Return, rows
    <2>. QED  BY <1>1, <2>1, <2>2, <2>3, <2>4, <2>5 DEF Request, Serve, Manage
  <1>2. CASE ListShares
    BY <1>0, <1>2, Expiring DEF ListShares
  <1>3. ASSUME NEW u \in Users, Deactivate(u) PROVE SharesGrow
    BY <1>0, <1>3, Deactivating
  <1>4. ASSUME NEW s \in Shares, TimePasses(s) PROVE SharesGrow
    BY <1>0, <1>4, Passing
  <1>5. CASE \/ \E u \in Users : Activate(u)
             \/ \E l \in Leases : LeaseEnds(l)
             \/ UNCHANGED vars
    BY <1>0, <1>5, NoGrowth DEF Activate, LeaseEnds, vars
  <1>. QED  BY <1>1, <1>2, <1>3, <1>4, <1>5 DEF Next

\* A step keeps the locked shares open: who else would close one waits for it.
LEMMA LockStep ==
    ASSUME TypeInv, Locks, [Next]_vars
    PROVE  Locks'
  <1>0. TypeOK /\ TypeInv' /\ SharesGrow
    BY TypeStep, Growth DEF TypeInv
  <1>1. SUFFICES ASSUME NEW i \in Handlers, pc'[i] = "locked"
                 PROVE  HoldsOpen(i)'
    BY DEF Locks
  <1>. DEFINE s == held[i].share
  <1>. DEFINE StillOpen == IsOpen(s) => share'[s] # None /\ share'[s].status \in Open
  \* A transition that has locked its share keeps it through a step not its own.
  <1>2. ASSUME pc[i] = "locked", held'[i] = held[i], rowLock'[s] = i,
               StillOpen
        PROVE  HoldsOpen(i)'
    <2>1. s \in Shares /\ IsOpen(s)
      BY <1>0, <1>2 DEF TypeOK, Locks, HoldsOpen
    <2>. QED  BY <1>2, <2>1 DEF IsOpen, HoldsOpen
  <1>3. pc[i] = "locked" => s \in Shares /\ rowLock[s] = i /\ i # None
    BY <1>0, ShareAssumption DEF TypeOK, Locks, HoldsOpen
  <1>4. ASSUME NEW h \in Handlers, Request(h)
        PROVE  HoldsOpen(i)'
    <2>1. CASE Lock(h)
      <3>1. CASE h = i
        <4>1. PICK t \in Shares : /\ share[t] # None /\ Allowed(h, t)
                                  /\ rowLock' = [rowLock EXCEPT ![t] = h]
                                  /\ held' = [held EXCEPT ![h].share = t]
          BY <2>1 DEF Lock
        <4>2. /\ held[h] \in Held /\ held[h].op \in Transitions /\ share[t] \in Share
              /\ UNCHANGED share
          BY <1>0, <2>1, <4>1 DEF Lock, TypeOK
        <4>3. held'[h].share = t
          BY <1>0, <4>1, <4>2 DEF TypeOK, Held
        <4>4. IsOpen(t)
          BY <4>1, <4>2 DEF Allowed, Transitions, IsOpen, Open
        <4>. QED  BY <1>0, <3>1, <4>1, <4>2, <4>3, <4>4 DEF IsOpen, HoldsOpen, TypeOK
      <3>2. CASE h # i
        <4>1. /\ pc[i] = "locked" /\ held'[i] = held[i] /\ UNCHANGED share
              /\ rowLock'[s] = i
          BY <1>0, <1>1, <1>3, <2>1, <3>2, ShareAssumption DEF Lock, Unlocked, Goto, TypeOK
        <4>. QED  BY <1>2, <4>1 DEF IsOpen
      <3>. QED  BY <3>1, <3>2
    <2>2. CASE Apply(h)
      <3>1. h # i /\ pc[i] = "locked" /\ held'[i] = held[i]
        BY <1>0, <1>1, <2>2 DEF Apply, Finish, TypeOK
      <3>2. held[h].share # s /\ held[h].share \in Shares
        BY <1>0, <1>3, <2>2, <3>1 DEF Apply, Locks, HoldsOpen, TypeOK
      <3>3. rowLock'[s] = i /\ share'[s] = share[s]
        BY <1>0, <1>3, <2>2, <3>1, <3>2, Applying DEF Apply, TypeOK
      <3>. QED  BY <1>2, <3>1, <3>3 DEF IsOpen
    <2>3. CASE Resolve(h)
      <3>1. h # i /\ pc[i] = "locked" /\ held'[i] = held[i] /\ UNCHANGED rowLock
        BY <1>0, <1>1, <2>3 DEF Resolve, Finish, Goto, TypeOK
      <3>2. share'[s] = share[s]
        BY <1>0, <1>3, <2>3, <3>1, Expiring DEF Resolve, Open
      <3>. QED  BY <1>2, <1>3, <3>1, <3>2 DEF IsOpen
    <2>4. CASE Invite(h)
      <3>1. h # i /\ pc[i] = "locked" /\ held'[i] = held[i] /\ UNCHANGED rowLock
        BY <1>0, <1>1, <2>4 DEF Invite, Finish, TypeOK
      <3>2. share'[s] = share[s]
        BY <1>3, <2>4, <3>1, Inviting DEF Locks, HoldsOpen, IsOpen
      <3>. QED  BY <1>2, <1>3, <3>1, <3>2 DEF IsOpen
    <2>5. CASE \/ Begin(h) \/ Issue(h) \/ Renew(h) \/ Recheck(h) \/ CheckGrantee(h)
               \/ Away(h) \/ Return(h)
      <3>1. /\ h # i /\ pc[i] = "locked" /\ held'[i] = held[i]
            /\ UNCHANGED <<share, rowLock>>
        BY <1>0, <1>1, <2>5 DEF Begin, Issue, Renew, Recheck, RecheckAt, CheckGrantee,
                              Away, Return, Finish, Goto, TypeOK, rows
      <3>. QED  BY <1>2, <1>3, <3>1 DEF IsOpen
    <2>6. CASE Fail(h)
      <3>1. h # i /\ pc[i] = "locked" /\ held'[i] = held[i] /\ UNCHANGED share
        BY <1>0, <1>1, <2>6 DEF Fail, Finish, TypeOK
      <3>2. rowLock'[s] = i
        BY <1>3, <2>6, <3>1 DEF Fail
      <3>. QED  BY <1>2, <3>1, <3>2 DEF IsOpen
    <2>. QED  BY <1>4, <2>1, <2>2, <2>3, <2>4, <2>5, <2>6 DEF Request, Serve, Manage
  <1>5. CASE ListShares
    <2>1. share'[s] = share[s] /\ UNCHANGED <<pc, held, rowLock>>
      BY <1>0, <1>1, <1>3, <1>5, Expiring DEF ListShares
    <2>. QED  BY <1>1, <1>2, <1>3, <2>1 DEF IsOpen
  <1>6. ASSUME NEW u \in Users, Deactivate(u)
        PROVE  HoldsOpen(i)'
    <2>1. UNCHANGED <<pc, held, rowLock>>
      BY <1>6 DEF Deactivate
    <2>2. share'[s] = share[s]
      BY <1>0, <1>1, <1>3, <1>6, <2>1, Deactivating
    <2>. QED  BY <1>1, <1>2, <1>3, <2>1, <2>2 DEF IsOpen
  <1>7. ASSUME NEW t \in Shares, TimePasses(t)
        PROVE  HoldsOpen(i)'
    <2>1. UNCHANGED <<pc, held, rowLock>>
      BY <1>7 DEF TimePasses
    <2>2. StillOpen
      BY <1>0, <1>1, <1>3, <1>7, <2>1, Passing DEF IsOpen
    <2>. QED  BY <1>1, <1>2, <1>3, <2>1, <2>2 DEF IsOpen
  <1>8. CASE \/ \E u \in Users : Activate(u)
             \/ \E l \in Leases : LeaseEnds(l)
             \/ UNCHANGED vars
    <2>1. UNCHANGED <<pc, held, rowLock, share>>
      BY <1>8 DEF Activate, LeaseEnds, vars
    <2>. QED  BY <1>1, <1>2, <1>3, <2>1 DEF IsOpen
  <1>. QED  BY <1>4, <1>5, <1>6, <1>7, <1>8 DEF Next

\* What fits a share fits it as it grows: a version names one policy for good.
LEMMA FitsGrown ==
    ASSUME TypeOK, SharesGrow, NEW x, x.share \in Shares \cup {None}, Fits(x)
    PROVE  Fits(x)'
  <1>1. CASE x.share = None
    BY <1>1 DEF Fits
  <1>2. CASE x.share # None
    <2>. DEFINE s == x.share
    <2>1. /\ s \in Shares /\ share[s] \in Share /\ share'[s] \in Share
          /\ x.version \in Nat /\ x.version <= share[s].version
          /\ x.version = share[s].version => x.policy = share[s].policy
      BY <1>2 DEF TypeOK, SharesGrow, RowGrows, Fits
    <2>2. share[s].version \in Nat /\ share'[s].version \in Nat /\ share'[s] # None
      BY <2>1, RowTypes
    <2>3. \/ share'[s].version = share[s].version /\ share'[s].policy = share[s].policy
          \/ share'[s].version > share[s].version
      BY <2>1, RecordAssumption DEF SharesGrow, RowGrows
    <2>4. x.version <= share'[s].version
      BY <2>1, <2>2, <2>3
    <2>5. x.version = share'[s].version => x.policy = share'[s].policy
      BY <2>1, <2>2, <2>3
    <2>. QED  BY <2>1, <2>2, <2>4, <2>5 DEF Fits
  <1>. QED  BY <1>1, <1>2

\* A step keeps what has been read true: a lease is written only from what a
\* request has read, and a request reads a share's version and policy together.
LEMMA ReadStep ==
    ASSUME TypeInv, Locks, Read, [Next]_vars
    PROVE  Read'
  <1>0. TypeOK /\ SharesGrow
    BY Growth DEF TypeInv
  <1>1. ASSUME NEW l \in Leases, lease'[l] # None, lease'[l] = lease[l]
        PROVE  Fits(lease[l])'
    <2>1. lease[l] \in Lease /\ Fits(lease[l])
      BY <1>0, <1>1 DEF TypeOK, Read
    <2>2. lease[l].share \in Shares \cup {None}
      BY <2>1 DEF Lease
    <2>3. ASSUME NEW x, x = lease[l] PROVE Fits(x)'
      BY <1>0, <2>1, <2>2, <2>3, FitsGrown
    <2>4. PICK x : x = lease[l]
      OBVIOUS
    <2>5. Fits(x)'
      BY <2>3, <2>4
    <2>. QED  BY <1>1, <2>4, <2>5 DEF Fits
  <1>2. ASSUME NEW i \in Handlers, pc[i] = "issue", held'[i] = held[i]
        PROVE  Fits(held[i])'
    <2>1. held[i] \in Held /\ Fits(held[i])
      BY <1>0, <1>2 DEF TypeOK, Read
    <2>2. held[i].share \in Shares \cup {None}
      BY <2>1, HeldFields
    <2>3. ASSUME NEW x, x = held[i] PROVE Fits(x)'
      BY <1>0, <2>1, <2>2, <2>3, FitsGrown
    <2>4. PICK x : x = held[i]
      OBVIOUS
    <2>5. Fits(x)'
      BY <2>3, <2>4
    <2>. QED  BY <1>2, <2>4, <2>5 DEF Fits
  <1>3. ASSUME \A l \in Leases : lease'[l] # None => lease'[l] = lease[l],
               \A i \in Handlers : pc'[i] = "issue" => pc[i] = "issue" /\ held'[i] = held[i]
        PROVE  Read'
    BY <1>1, <1>2, <1>3 DEF Read
  <1>4. ASSUME NEW h \in Handlers, Request(h)
        PROVE  Read'
    <2>1. CASE Resolve(h)
      <3>1. CASE Finish(h, FALSE)
        BY <1>0, <1>3, <2>1, <3>1 DEF Resolve, Finish, TypeOK
      <3>2. ASSUME NEW a \in Accesses(held[h].user),
                   held' = [held EXCEPT ![h].share = a.share, ![h].version = a.version,
                                       ![h].policy = a.policy],
                   Goto(h, held[h].op)
            PROVE  Read'
        <4>1. held[h] \in Held /\ UNCHANGED lease
          BY <1>0, <2>1 DEF Resolve, TypeOK
        <4>2. /\ held'[h].share = a.share /\ held'[h].version = a.version
              /\ held'[h].policy = a.policy
              /\ \A i \in Handlers \ {h} : held'[i] = held[i] /\ pc'[i] = pc[i]
          BY <1>0, <3>2, <4>1 DEF TypeOK, Held, Goto
        <4>3. /\ a.share \in Shares \cup {None}
              /\ a.share # None => /\ share[a.share] \in Share
                                   /\ a.version = share[a.share].version
                                   /\ a.policy = share[a.share].policy
          BY <1>0, <3>2, <4>1, AccessFields, HeldFields
        <4>4. a.share # None => share[a.share] # None /\ a.version \in Nat
                                /\ a.version <= share[a.share].version
          BY <4>3, RowTypes
        <4>5. Fits(a)
          BY <4>3, <4>4 DEF Fits
        <4>6. Fits(a)'
          BY <1>0, <4>3, <4>5, FitsGrown
        <4>7. Fits(held[h])'
          BY <4>2, <4>6 DEF Fits
        <4>. QED  BY <1>1, <1>2, <4>1, <4>2, <4>7 DEF Read
      <3>. QED  BY <2>1, <3>1, <3>2 DEF Resolve
    <2>2. CASE Issue(h)
      <3>1. PICK l \in Leases :
              lease' = [lease EXCEPT ![l] =
                [subject |-> held[h].user, request |-> held[h].request, share |-> held[h].share,
                 version |-> held[h].version, policy |-> held[h].policy]]
        BY <2>2 DEF Issue
      <3>2. pc[h] = "issue" /\ UNCHANGED share
        BY <2>2 DEF Issue
      <3>3. /\ lease'[l].share = held[h].share /\ lease'[l].version = held[h].version
            /\ lease'[l].policy = held[h].policy
            /\ \A k \in Leases \ {l} : lease'[k] = lease[k]
        BY <1>0, <3>1 DEF TypeOK
      <3>4. Fits(held[h])
        BY <3>2 DEF Read
      <3>5. Fits(lease[l])'
        BY <3>2, <3>3, <3>4 DEF Fits
      <3>6. \A i \in Handlers : pc'[i] = "issue" => pc[i] = "issue" /\ held'[i] = held[i]
        BY <1>0, <2>2 DEF Issue, Finish, TypeOK
      <3>. QED  BY <1>1, <1>2, <3>3, <3>5, <3>6 DEF Read
    <2>3. CASE \/ Begin(h) \/ Renew(h) \/ Recheck(h) \/ CheckGrantee(h)
               \/ Away(h) \/ Return(h)
      BY <1>0, <1>3, <2>3 DEF Begin, Renew, Recheck, RecheckAt, CheckGrantee, Away, Return, Finish, Goto,
                             TypeOK, rows
    <2>4. CASE Invite(h) \/ Lock(h) \/ Fail(h)
      BY <1>0, <1>3, <2>4 DEF Invite, Lock, Fail, Finish, Goto, TypeOK
    <2>5. CASE Apply(h)
      <3>1. \A l \in Leases : lease'[l] # None => lease'[l] = lease[l]
        BY <2>5 DEF Apply
      <3>2. \A i \in Handlers : pc'[i] = "issue" => pc[i] = "issue" /\ held'[i] = held[i]
        BY <1>0, <2>5 DEF Apply, Finish, TypeOK
      <3>. QED  BY <1>3, <3>1, <3>2
    <2>. QED  BY <1>4, <2>1, <2>2, <2>3, <2>4, <2>5 DEF Request, Serve, Manage
  <1>5. CASE \/ ListShares
             \/ \E u \in Users : Activate(u) \/ Deactivate(u)
             \/ \E s \in Shares : TimePasses(s)
             \/ \E l \in Leases : LeaseEnds(l)
             \/ UNCHANGED vars
    <2>1. UNCHANGED <<pc, held>>
      BY <1>5 DEF ListShares, Activate, Deactivate, TimePasses, LeaseEnds, vars
    <2>2. \A l \in Leases : lease'[l] # None => lease'[l] = lease[l]
      BY <1>0, <1>5 DEF ListShares, Activate, Deactivate, TimePasses, LeaseEnds, vars, TypeOK
    <2>. QED  BY <1>3, <2>1, <2>2
  <1>. QED  BY <1>4, <1>5 DEF Next

-----------------------------------------------------------------------------
\* No share and no lease at the start.
LEMMA InvInit == Init => ShareInv
  BY ShareAssumption DEF Init, ShareInv, TypeInv, TypeOK, Meant, Locks, Read

\* Every step keeps the inductive invariant.
LEMMA InvStep == ShareInv /\ [Next]_vars => ShareInv'
  BY TypeStep, LockStep, ReadStep DEF ShareInv

\* The inductive invariant holds throughout.
LEMMA Invariance == Spec => []ShareInv
  BY InvInit, InvStep, PTL DEF Spec

\* Rows and requests keep their types, for any number of them.
THEOREM Typing == Spec => []TypeOK
  <1>1. ShareInv => TypeOK
    BY DEF ShareInv, TypeInv
  <1>. QED  BY <1>1, Invariance, PTL

\* A live lease that carries a share's current version was issued under its
\* current policy, whatever a request had read before and however late it writes
\* (CreateAccessLease, TransitionShare).
THEOREM VersionsNamePolicies == Spec => []VersionNamesPolicy
  <1>1. ShareInv => VersionNamesPolicy
    BY DEF ShareInv, Read, Fits, VersionNamesPolicy
  <1>. QED  BY <1>1, Invariance, PTL

\* No interleaving of transitions, expiry and the end of accounts opens a closed
\* share again (TransitionShare).
THEOREM ClosedForGood == Spec => ClosedShareStaysClosed
  <1>1. ShareInv /\ [Next]_vars =>
          [\A s \in Shares : share[s] # None /\ ~IsOpen(s) =>
                share'[s].status = share[s].status]_vars
    BY Growth DEF ShareInv, SharesGrow, RowGrows
  <1>. QED  BY <1>1, Invariance, PTL DEF Spec, ClosedShareStaysClosed
=============================================================================
