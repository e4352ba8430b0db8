----------------------------- MODULE ShareAccess -----------------------------
(***************************************************************************)
(* Sharing one agent: invitations and their transitions, the access leases   *)
(* that back every ticket, and the requests served under them               *)
(* (internal/database/access_repository.go, called from                     *)
(* admin_share_handlers.go, hapi_gateway.go and tunnel.go).                 *)
(*                                                                          *)
(* A handler first reads the session, then the access (one query), then     *)
(* writes (another statement or transaction): anything may happen between.   *)
(* A transaction on a share holds its row FOR UPDATE from its first read.    *)
(* The clock is not a number: a share's window and a lease run out by        *)
(* actions of their own.  A lease that is revoked or expired is absent from   *)
(* lease, since every query asks for a live one.                             *)
(***************************************************************************)
EXTENDS Naturals

CONSTANTS
    Owner,       \* the account that registered the agent
    Grantees,    \* the accounts it may be shared with
    Admins,      \* those that are administrators
    Shares,      \* rows agent_shares may come to hold
    Leases,      \* rows of agent_access_leases live at a time
    Requests,    \* request ids
    Policies,    \* share policies, as far as they differ
    Handlers,    \* concurrent requests
    MaxVersion,  \* bound on policy_version
    None

Users == {Owner} \cup Grantees

ASSUME ShareAssumption ==
    /\ Owner \notin Grantees /\ Admins \subseteq Users
    /\ None \notin Users \cup Shares \cup Leases \cup Requests \cup Policies \cup Handlers
    /\ MaxVersion \in Nat \ {0}

VARIABLES
    active,   \* the accounts whose status is active
    share,    \* agent_shares: a record, or None for a row not inserted
    rowLock,  \* the handler that holds a share FOR UPDATE, or None
    lease,    \* the live leases: a record, or None
    pc,       \* where each handler is
    held,     \* what it has read
    served    \* its stream or connection is open

rows == <<active, share, rowLock, lease>>
vars == <<active, share, rowLock, lease, pc, held, served>>

Windows == {"early", "now", "over"}
Open == {"pending", "active"}
Closed == {"declined", "revoked", "expired"}
Versions == 1 .. MaxVersion
Share == [grantee : Grantees, status : Open \cup Closed, window : Windows,
          policy : Policies, version : Versions]
Lease == [subject : Users, request : Requests, share : Shares \cup {None},
          version : Versions \cup {0}, policy : Policies \cup {None}]
\* None stands for a row that is not there.
ASSUME RecordAssumption == None \notin Share \cup Lease

Transitions == {"accept", "decline", "revoke", "update"}
Held == [user : Users, op : Transitions \cup {"create", "issue", "renew"},
         request : Requests, to : Users, share : Shares \cup {None},
         version : Versions \cup {0}, policy : Policies \cup {None}]

IsOpen(s) == share[s] # None /\ share[s].status \in Open
Involves(s, u) == u = Owner \/ share[s].grantee = u

\* The access ListAccessibleAgents returns to a user.
Resolvable(s, u) ==
    /\ share[s] # None /\ share[s].grantee = u
    /\ share[s].status = "active" /\ share[s].window = "now"
Accesses(u) ==
    IF Owner \notin active THEN {}
    ELSE IF u = Owner THEN {[share |-> None, version |-> 0, policy |-> None]}
    ELSE {[share |-> s, version |-> share[s].version, policy |-> share[s].policy] :
             s \in {t \in Shares : Resolvable(t, u)}}

Init ==
    /\ active = Users
    /\ share = [s \in Shares |-> None] /\ rowLock = [s \in Shares |-> None]
    /\ lease = [l \in Leases |-> None]
    /\ pc = [h \in Handlers |-> "idle"] /\ held = [h \in Handlers |-> None]
    /\ served = [h \in Handlers |-> FALSE]

Goto(h, next) == pc' = [pc EXCEPT ![h] = next]

\* (mutant) a refused request forgets what it read and keeps its stream
KeepOpen(h, open) ==
    /\ pc' = [pc EXCEPT ![h] = "idle"]
    /\ held' = [held EXCEPT ![h] = IF open THEN @ ELSE None]
    /\ served' = [served EXCEPT ![h] = @ \/ open]

\* The handler is done, served or refused.
Finish(h, open) ==
    /\ pc' = [pc EXCEPT ![h] = "idle"]
    /\ held' = [held EXCEPT ![h] = IF open THEN @ ELSE None]
    /\ served' = [served EXCEPT ![h] = open]

-----------------------------------------------------------------------------
(* Requests                                                                 *)

\* requireSession: an active account asks for something.
Begin(h) ==
    /\ pc[h] = "idle" /\ ~served[h]
    /\ \E u \in active, op \in Transitions \cup {"create", "issue", "renew"}, r \in Requests :
          held' = [held EXCEPT ![h] = [user |-> u, op |-> op, request |-> r, to |-> Owner,
                                       share |-> None, version |-> 0, policy |-> None]]
    /\ Goto(h, "begun")
    /\ UNCHANGED <<rows, served>>

\* The first statement of ListAccessibleAgents and that of ListShares.
Expired(statuses) ==
    [s \in Shares |->
        IF share[s] # None /\ share[s].status \in statuses /\ share[s].window = "over"
        THEN [share[s] EXCEPT !.status = "expired"] ELSE share[s]]
Expire(statuses) ==
    /\ share' = Expired(statuses)
    /\ \A s \in Shares : share'[s] # share[s] => rowLock[s] = None

Resolve(h) ==
    /\ pc[h] = "begun" /\ held[h].op \in {"issue", "renew"}
    /\ Expire({"active"})
    /\ \/ Accesses(held[h].user) = {} /\ Finish(h, FALSE)
       \/ \E a \in Accesses(held[h].user) :
             /\ held' = [held EXCEPT ![h].share = a.share, ![h].version = a.version,
                                     ![h].policy = a.policy]
             /\ Goto(h, held[h].op)
             /\ UNCHANGED served
    /\ UNCHANGED <<active, rowLock, lease>>

\* CreateAccessLease: the share's foreign key waits for a transaction on it.
Issue(h) ==
    /\ pc[h] = "issue"
    /\ held[h].share # None => rowLock[held[h].share] = None
    /\ \E l \in Leases :
          /\ lease[l] = None
          /\ lease' = [lease EXCEPT ![l] =
                [subject |-> held[h].user, request |-> held[h].request, share |-> held[h].share,
                 version |-> held[h].version, policy |-> held[h].policy]]
    /\ Finish(h, FALSE)
    /\ UNCHANGED <<active, share, rowLock>>

\* RenewAccessRequest: its row need not name the same share.
Renews(l, h) ==
    /\ lease[l] # None /\ lease[l].subject = held[h].user
    /\ lease[l].request = held[h].request /\ lease[l].version = held[h].version
Renew(h) ==
    /\ pc[h] = "renew"
    /\ Finish(h, \E l \in Leases : Renews(l, h))
    /\ UNCHANGED rows

\* sessionAuthorized and gatewayAuthorized: every 25 seconds, in the select.
RecheckLease(h) == "renew"  \* (mutant) only the lease is asked for again
RecheckAt(h) == "begun"
Recheck(h) ==
    /\ served[h] /\ pc[h] = "idle"
    /\ \/ held[h].user \in active /\ Goto(h, RecheckAt(h)) /\ UNCHANGED <<held, served>>
       \/ held[h].user \notin active /\ Finish(h, FALSE)
    /\ UNCHANGED rows

\* A stream's handler reads its body or writes to its client: it is not in its
\* select, and nothing bounds how long the client makes it wait.
Away(h) ==
    /\ served[h] /\ pc[h] = "idle"
    /\ Goto(h, "away")
    /\ UNCHANGED <<rows, held, served>>
Return(h) ==
    /\ pc[h] = "away"
    /\ Goto(h, "idle")
    /\ UNCHANGED <<rows, held, served>>

\* The peer leaves, the statement fails or its context is cancelled.
Fail(h) ==
    /\ pc[h] # "idle" \/ served[h]
    /\ rowLock' = [s \in Shares |-> IF rowLock[s] = h THEN None ELSE rowLock[s]]
    /\ Finish(h, FALSE)
    /\ UNCHANGED <<active, share, lease>>

-----------------------------------------------------------------------------
(* Invitations and their transitions                                        *)

CheckGrantee(h) ==
    /\ pc[h] = "begun" /\ held[h].op = "create" /\ held[h].user = Owner
    /\ \E g \in Grantees \cap active : held' = [held EXCEPT ![h].to = g]
    /\ Goto(h, "insert")
    /\ UNCHANGED <<rows, served>>

\* agent_shares_open_unique
Invite(h) ==
    /\ pc[h] = "insert"
    /\ \A s \in Shares : IsOpen(s) => share[s].grantee # held[h].to
    /\ \E s \in Shares, p \in Policies, w \in Windows :
          /\ share[s] = None
          /\ share' = [share EXCEPT ![s] = [grantee |-> held[h].to, status |-> "pending",
                                            window |-> w, policy |-> p, version |-> 1]]
    /\ Finish(h, FALSE)
    /\ UNCHANGED <<active, rowLock, lease>>

Allowed(h, s) ==
    \/ /\ held[h].op \in {"accept", "decline"}
       /\ held[h].user = share[s].grantee /\ share[s].status = "pending"
    \/ /\ held[h].op = "revoke" /\ IsOpen(s)
       /\ held[h].user \in {Owner} \cup Admins
    \/ held[h].op = "update" /\ held[h].user = Owner /\ IsOpen(s)

\* SELECT ... FOR UPDATE
NotWaiting(s) == s \in Shares  \* (mutant) a plain SELECT
Unlocked(s) == rowLock[s] = None
Lock(h) ==
    /\ pc[h] = "begun" /\ held[h].op \in Transitions
    /\ \E s \in Shares :
          /\ share[s] # None /\ Unlocked(s)
          /\ Allowed(h, s)
          /\ rowLock' = [rowLock EXCEPT ![s] = h]
          /\ held' = [held EXCEPT ![h].share = s]
    /\ Goto(h, "locked")
    /\ UNCHANGED <<active, share, lease, served>>

NextStatus(op) ==
    CASE op = "accept" -> "active" [] op = "decline" -> "declined" [] op = "revoke" -> "revoked"

\* (mutant) an update leaves policy_version alone
Overwritten(s, p, w) == [share[s] EXCEPT !.policy = p, !.window = w]
Updated(s, p, w) ==
    [share[s] EXCEPT !.policy = p, !.window = w, !.version = share[s].version + 1]

\* The update, the leases it revokes and the commit that shows both.
Apply(h) ==
    /\ pc[h] = "locked"
    /\ LET s == held[h].share IN
       /\ \/ /\ held[h].op # "update"
             /\ share' = [share EXCEPT ![s].status = NextStatus(held[h].op)]
          \/ /\ held[h].op = "update" /\ share[s].version < MaxVersion
             /\ \E p \in Policies, w \in Windows : share' = [share EXCEPT ![s] = Updated(s, p, w)]
       /\ lease' = [l \in Leases |-> IF lease[l] # None /\ lease[l].share = s
                                     THEN None ELSE lease[l]]
       /\ rowLock' = [rowLock EXCEPT ![s] = None]
    /\ Finish(h, FALSE)
    /\ UNCHANGED active

ListShares ==
    /\ active # {}
    /\ Expire(Open)
    /\ UNCHANGED <<active, rowLock, lease, pc, held, served>>

-----------------------------------------------------------------------------
(* Accounts and time                                                        *)

\* UpdateUserLifecycle, as AccountLifecycle has it: leases and open shares end.
Deactivate(u) ==
    /\ u \in active
    /\ \A s \in Shares : IsOpen(s) /\ Involves(s, u) => rowLock[s] = None
    /\ active' = active \ {u}
    /\ lease' = [l \in Leases |-> IF lease[l] # None /\ u \in {lease[l].subject, Owner}
                                  THEN None ELSE lease[l]]
    /\ share' = [s \in Shares |-> IF IsOpen(s) /\ Involves(s, u)
                                  THEN [share[s] EXCEPT !.status = "revoked"] ELSE share[s]]
    /\ UNCHANGED <<rowLock, pc, held, served>>

Activate(u) ==
    /\ u \in Users \ active
    /\ active' = active \cup {u}
    /\ UNCHANGED <<share, rowLock, lease, pc, held, served>>

\* valid_from or valid_until of an open share passes.
TimePasses(s) ==
    /\ IsOpen(s) /\ share[s].window # "over"
    /\ share' = [share EXCEPT ![s].window = IF share[s].window = "early" THEN "now" ELSE "over"]
    /\ UNCHANGED <<active, rowLock, lease, pc, held, served>>

\* A lease expires, or its ticket could not be used (RevokeAccessLease).
LeaseEnds(l) ==
    /\ lease[l] # None
    /\ lease' = [lease EXCEPT ![l] = None]
    /\ UNCHANGED <<active, share, rowLock, pc, held, served>>

-----------------------------------------------------------------------------
Serve(h) == Resolve(h) \/ Issue(h) \/ Renew(h) \/ Recheck(h)
Manage(h) == CheckGrantee(h) \/ Invite(h) \/ Lock(h) \/ Apply(h)
Request(h) == Begin(h) \/ Serve(h) \/ Manage(h) \/ Fail(h) \/ Away(h) \/ Return(h)

Next ==
    \/ \E h \in Handlers : Request(h)
    \/ ListShares
    \/ \E u \in Users : Deactivate(u) \/ Activate(u)
    \/ \E s \in Shares : TimePasses(s)
    \/ \E l \in Leases : LeaseEnds(l)

Spec == Init /\ [][Next]_vars

\* A handler that has begun goes on, and a statement that waits for a row gets it
\* in the end (PostgreSQL queues them).  A served handler that comes to its select
\* again and again takes the tick that waits there (Go picks any ready case); no
\* fairness brings it back from its client (Return).
FairSpec ==
    /\ Spec
    /\ \A h \in Handlers :
          /\ WF_vars(Serve(h)) /\ SF_vars(Resolve(h)) /\ SF_vars(Recheck(h))
          /\ WF_vars(pc[h] = "locked" /\ (Apply(h) \/ Fail(h)))

-----------------------------------------------------------------------------
(* Properties                                                               *)

\* Type invariant of the rows and the handlers.
TypeOK ==
    /\ active \subseteq Users
    /\ share \in [Shares -> Share \cup {None}]
    /\ rowLock \in [Shares -> Handlers \cup {None}]
    /\ lease \in [Leases -> Lease \cup {None}]
    /\ pc \in [Handlers -> {"idle", "begun", "issue", "renew", "insert", "locked", "away"}]
    /\ held \in [Handlers -> Held \cup {None}]
    /\ served \in [Handlers -> BOOLEAN]
    /\ \A h \in Handlers : pc[h] # "idle" \/ served[h] => held[h] \in Held
    /\ \A h \in Handlers : pc[h] = "locked" =>
          held[h].share \in Shares /\ share[held[h].share] \in Share

\* A live lease of a share that carries its current policy_version was issued,
\* with its ticket, under the share's current policy: even a lease inserted
\* after an update, by a request that had read the share before it
\* (TransitionShare, CreateAccessLease).
VersionNamesPolicy ==
    \A l \in Leases :
        /\ lease[l] # None /\ lease[l].share # None
        /\ lease[l].version = share[lease[l].share].version
        => lease[l].policy = share[lease[l].share].policy

\* A share once declined, revoked or expired is never open again, however its
\* transitions, its expiry and the end of an account meet (TransitionShare).
ClosedShareStaysClosed ==
    [][\A s \in Shares : share[s] # None /\ ~IsOpen(s) => share'[s].status = share[s].status]_vars

HasAccess(u) == u \in active /\ Accesses(u) # {}
Withdrawn(h) == served[h] /\ ~HasAccess(held[h].user)

\* A stream or connection whose user lost the access, by revocation, expiry or
\* the end of an account, ends unless the access comes back, or unless its handler
\* waits for its own client for ever: without a write deadline it is then never
\* asked about again (sessionAuthorized, streamGatewayResponse).
WithdrawnAccessEnds ==
    \A h \in Handlers : []<>~Withdrawn(h) \/ <>[](pc[h] = "away")
=============================================================================
