--------------------------- MODULE DeviceLifecycle ---------------------------
(***************************************************************************)
(* One device: binding it to an account, its refresh and access tokens, and  *)
(* unbinding it (internal/database/repository.go and the device handlers of   *)
(* internal/api/server.go).  Statements of different requests interleave; a   *)
(* row read FOR UPDATE is held to the end of its transaction.  A token is     *)
(* drawn at random and never twice, and only the row's latest are good: each  *)
(* is modelled by the account it was issued to.  The factory reset an        *)
(* account may order when it unbinds the device is a flag in the row's       *)
(* lan_hint.                                                                 *)
(***************************************************************************)
CONSTANTS
    Users,     \* accounts
    Handlers,  \* concurrent requests
    Casts,     \* who may take part: each behaviour has one of these sets
    None

ASSUME DeviceAssumption ==
    /\ Users # {}
    /\ None \notin Users \cup Handlers

VARIABLES
    owner,    \* devices.user_id, or None while there is no row
    state,    \* devices.bind_state
    refresh,  \* device_refresh_token_hash: whom it was issued to, or None
    access,   \* device_access_token_hash, likewise
    pc,       \* where each request is
    user,     \* the account it acts for
    unbound,  \* (history) the accounts that have unbound the device since it was theirs
    taken,    \* (history) the tokens are those of an account it was taken from
    stray,    \* (history) the access token's exchange wrote it to a row that was
              \* no longer its account's
    reset     \* the account whose factory reset is pending, or None

device == <<owner, state, refresh, access>>
history == <<unbound, taken, stray>>
deviceVars == <<device, pc, user, history, reset>>

DeviceInit ==
    /\ owner \in Users \cup {None} /\ state \in {"active", "revoked"}
    /\ owner = None => state = "revoked"
    /\ refresh = None /\ access = None
    /\ \E cast \in Casts :
          pc = [h \in Handlers |-> IF h \in cast THEN "idle" ELSE "away"]
    /\ user = [h \in Handlers |-> None]
    /\ unbound = {} /\ taken = FALSE /\ stray = FALSE /\ reset = None

\* (mutant) the account is read again from the request, which has ended
Forget(h, next) ==
    /\ pc' = [pc EXCEPT ![h] = next] /\ user' = [user EXCEPT ![h] = None]
Goto(h, next) ==
    /\ pc' = [pc EXCEPT ![h] = next]
    /\ user' = [user EXCEPT ![h] = IF next = "idle" THEN None ELSE @]

-----------------------------------------------------------------------------
(* bindDevice: BindDevice, then IssueDeviceTokens                           *)

Begin(h) ==
    /\ pc[h] = "idle"
    /\ \E u \in Users : user' = [user EXCEPT ![h] = u]
    /\ pc' = [pc EXCEPT ![h] = "bind"]
    /\ UNCHANGED <<device, history, reset>>

\* INSERT ... ON CONFLICT (device_uid) DO UPDATE: the tokens stay as they are,
\* and so does a pending reset if the request brings no lan_hint; one it brings
\* replaces the whole, the flag included.
Upsert(h) ==
    /\ owner' = user[h] /\ state' = "active"
    /\ reset' \in {reset, None, user[h]}
    /\ unbound' = unbound \ {user[h]}
    /\ Goto(h, "issue")
    /\ UNCHANGED <<refresh, access, stray>>

MayBind(h) == owner = user[h] \/ state = "revoked"

\* The row, held FOR UPDATE up to the upsert.
BindKnown(h) ==
    /\ pc[h] = "bind" /\ owner # None
    /\ \/ MayBind(h) /\ Upsert(h)
       \/ ~MayBind(h) /\ Goto(h, "idle") /\ UNCHANGED <<device, unbound, stray, reset>>
    /\ UNCHANGED taken

\* There is no row to hold, and by the upsert there may be one.
BindUnknown(h) ==
    /\ pc[h] = "bind" /\ owner = None
    /\ Goto(h, "insert")
    /\ UNCHANGED <<device, history, reset>>
Insert(h) ==
    /\ pc[h] = "insert"
    /\ Upsert(h)
    /\ taken' = (taken \/ owner \notin {None, user[h]})

\* UPDATE ... WHERE user_id=$1 AND device_uid=$2 AND bind_state='active'
AnyActive(h) == state = "active"  \* (mutant) without user_id
StillBound(h) == owner = user[h] /\ state = "active"

IssueDeviceTokens(h) ==
    /\ pc[h] = "issue"
    /\ \/ /\ StillBound(h)
          /\ refresh' = user[h] /\ access' = user[h]
          /\ taken' = FALSE /\ stray' = FALSE
       \/ ~StillBound(h) /\ UNCHANGED <<refresh, access, taken, stray>>
    /\ Goto(h, "idle")
    /\ UNCHANGED <<owner, state, unbound, reset>>

\* A statement fails or the request is cancelled: what is committed stays.
Fail(h) ==
    /\ pc[h] \notin {"idle", "away"}
    /\ Goto(h, "idle")
    /\ UNCHANGED <<device, history, reset>>

-----------------------------------------------------------------------------
(* deviceToken: ExchangeRefresh reads the row, then updates it              *)

ExchangeRead(h) ==
    /\ pc[h] = "idle" /\ state = "active"
    /\ refresh # None
    /\ pc' = [pc EXCEPT ![h] = "exchange"]
    /\ user' = [user EXCEPT ![h] = refresh]
    /\ UNCHANGED <<device, history, reset>>

\* ... WHERE device_uid=$1: whatever has become of the row
ExchangeWrite(h) ==
    /\ pc[h] = "exchange"
    /\ access' = user[h]
    /\ stray' = ~StillBound(h)
    /\ Goto(h, "idle")
    /\ UNCHANGED <<owner, state, refresh, unbound, taken, reset>>

-----------------------------------------------------------------------------
(* revokeDevice, ackPendingReset, patchDevice                               *)

\* (mutant) the tokens are left to expire
KeepTokens == UNCHANGED <<refresh, access>>
DropTokens == refresh' = None /\ access' = None

\* (mutant) the flag is set when asked for and never cleared
OrderAlso(u, asked) == reset' = IF asked THEN u ELSE reset
Order(u, asked) == reset' = IF asked THEN u ELSE None

RevokeDevice(u) ==
    /\ owner = u /\ state = "active"
    /\ state' = "revoked" /\ DropTokens
    /\ \E asked \in BOOLEAN : Order(u, asked)
    /\ unbound' = unbound \cup {u} /\ taken' = FALSE /\ stray' = FALSE
    /\ UNCHANGED <<owner, pc, user>>

AckPendingReset(u) ==
    /\ owner = u
    /\ reset' = None
    /\ UNCHANGED <<device, pc, user, history>>

\* A lan_hint in the patch replaces the whole of it, the flag included.
PatchDevice(u) ==
    /\ owner = u
    /\ reset' \in {None, u}
    /\ UNCHANGED <<device, pc, user, history>>

-----------------------------------------------------------------------------
DeviceNext ==
    \/ \E h \in Handlers :
          \/ Begin(h) \/ BindKnown(h) \/ BindUnknown(h) \/ Insert(h)
          \/ IssueDeviceTokens(h) \/ Fail(h) \/ ExchangeRead(h) \/ ExchangeWrite(h)
    \/ \E u \in Users : RevokeDevice(u) \/ AckPendingReset(u) \/ PatchDevice(u)

DeviceSpec == DeviceInit /\ [][DeviceNext]_deviceVars

-----------------------------------------------------------------------------
(* Properties                                                               *)

\* Type invariant of the row and the requests.
DeviceTypeOK ==
    /\ owner \in Users \cup {None} /\ state \in {"active", "revoked"}
    /\ refresh \in Users \cup {None} /\ access \in Users \cup {None}
    /\ pc \in [Handlers -> {"away", "idle", "bind", "insert", "issue", "exchange"}]
    /\ user \in [Handlers -> Users \cup {None}]
    /\ unbound \subseteq Users /\ {taken, stray} \subseteq BOOLEAN
    /\ reset \in Users \cup {None}
    /\ \A h \in Handlers : pc[h] \notin {"away", "idle"} => user[h] \in Users
    /\ refresh # None => owner \in Users

\* The tokens a device row holds were issued to the account the device is bound
\* to now, and no refresh token to one that unbound it and has not bound it
\* since.  There are two exceptions.  When two accounts bind a new device at once
\* the second takes the row over, and the first's tokens stay good until its own
\* replace them.  An exchange that overlaps the unbinding writes its access token
\* all the same (BindDevice, IssueDeviceTokens, ExchangeRefresh, RevokeDevice).
TokensBelongToOwner ==
    /\ refresh # None =>
          /\ refresh \notin unbound
          /\ ~taken => state = "active" /\ refresh = owner
    /\ access # None /\ ~taken /\ ~stray => state = "active" /\ access = owner

\* A factory reset pending for an unbound device was ordered by the account that
\* unbound it last: an order that a new owner inherited with the row ends, at the
\* latest, with its own unbinding, whoever sets the flag by a lan_hint meanwhile
\* (BindDevice, PatchDevice, RevokeDevice, AckPendingReset).
ResetIsLastOwners == state = "revoked" /\ reset # None => reset = owner

\* server.go: a device bound to another account is a conflict.
DeviceStaysWithOwner ==
    [][owner # None /\ owner' # owner => state = "revoked"]_deviceVars
=============================================================================
