------------------------------- MODULE Pairing -------------------------------
(***************************************************************************)
(* Pairing an agent with a device by a six-digit code                        *)
(* (internal/database/agent_repository.go, CreatePairingClaim and            *)
(* ConfirmPairingClaim), beside the life of the device itself                *)
(* (DeviceLifecycle).  A claim is made only for an active device of the       *)
(* account; confirming uses it up in a transaction that is rolled back when   *)
(* the device is gone.  Claims are never deleted, used and expired ones        *)
(* keep their code.                                                          *)
(***************************************************************************)
EXTENDS Naturals, DeviceLifecycle

CONSTANTS
    Codes,     \* the codes CreatePairingClaim may draw
    Creators,  \* concurrent requests to create a claim
    Agents     \* concurrent requests to confirm one, each of an agent

ASSUME PairingAssumption ==
    /\ Codes # {} /\ None \notin Codes \cup Agents \cup Creators
    /\ Agents \cap Creators = {}

VARIABLES
    maker,     \* pairing_claims: who made the claim on a code, or None
    consumed,  \* consumed_by_agent_id, or None
    expired,   \* the codes past their expires_at
    rowLock,   \* the confirmation that holds a claim's row, or None
    step,      \* where each request is
    wants,     \* the account and code of each request
    given      \* how often each code was answered with the device

claims == <<maker, consumed, expired, rowLock, given>>
vars == <<deviceVars, claims, step, wants>>

Requests == Creators \cup Agents
NoWant == [user |-> None, code |-> None]

Init ==
    /\ DeviceInit
    /\ maker = [c \in Codes |-> None] /\ consumed = [c \in Codes |-> None]
    /\ expired = {}
    /\ rowLock = [c \in Codes |-> None]
    /\ \E cast \in Casts :
          /\ \A h \in Handlers : pc[h] = "idle" <=> h \in cast
          /\ step = [r \in Requests |-> IF r \in cast THEN "idle" ELSE "away"]
    /\ wants = [r \in Requests |-> NoWant]
    /\ given = [c \in Codes |-> 0]

AnyOwned(u) == owner = u  \* (mutant) without bind_state
\* EXISTS(... WHERE user_id=$1 AND device_uid=$2 AND bind_state='active')
Active(u) == owner = u /\ state = "active"

Enter(r, next, u, c) ==
    /\ step' = [step EXCEPT ![r] = next]
    /\ wants' = [wants EXCEPT ![r] = [user |-> u, code |-> c]]
Leave(r) ==
    /\ step' = [step EXCEPT ![r] = "idle"]
    /\ wants' = [wants EXCEPT ![r] = NoWant]

-----------------------------------------------------------------------------
(* CreatePairingClaim                                                       *)

CheckDevice(r, u) ==
    /\ step[r] = "idle" /\ Active(u)
    /\ Enter(r, "create", u, None)
    /\ UNCHANGED <<deviceVars, claims>>

\* claim_code is UNIQUE: a code drawn before is drawn again, five times at most.
Unused(c) == maker[c] = None
CreateClaim(r) ==
    /\ step[r] = "create"
    /\ \/ \E c \in Codes : Unused(c) /\ maker' = [maker EXCEPT ![c] = wants[r].user]
       \/ \E c \in Codes : ~Unused(c) /\ UNCHANGED maker
    /\ Leave(r)
    /\ UNCHANGED <<deviceVars, consumed, expired, rowLock, given>>

-----------------------------------------------------------------------------
(* ConfirmPairingClaim: one transaction                                     *)

\* NOW() is the start of the transaction: the statement may wait for a row that
\* expires meanwhile.
BeginConfirm(r, u, c) ==
    /\ step[r] = "idle" /\ maker[c] # None /\ c \notin expired
    /\ Enter(r, "consume", u, c)
    /\ UNCHANGED <<deviceVars, claims>>

\* (mutant) without consumed_at IS NULL
UsedOrOpen(r, c) == maker[c] = wants[r].user
Open(r, c) == maker[c] = wants[r].user /\ consumed[c] = None

\* UPDATE ... WHERE user_id=$1 AND claim_code=$2 AND consumed_at IS NULL: waits
\* for the transaction that holds the row, and looks at it again then.
Consume(r) ==
    LET c == wants[r].code IN
    /\ step[r] = "consume" /\ rowLock[c] = None
    /\ \/ /\ Open(r, c)
          /\ rowLock' = [rowLock EXCEPT ![c] = r]
          /\ Enter(r, "device", wants[r].user, c)
          /\ UNCHANGED <<deviceVars, maker, consumed, expired, given>>
       \/ ~Open(r, c) /\ Leave(r) /\ UNCHANGED <<deviceVars, claims>>

Commit(r) == consumed' = [consumed EXCEPT ![wants[r].code] = r]

\* The device of the claim is read, and the transaction ends: without the
\* device it is rolled back, and the claim is open again.
ReadDevice(r) ==
    /\ step[r] = "device"
    /\ \/ /\ Active(wants[r].user)
          /\ Enter(r, "commit", wants[r].user, wants[r].code)
          /\ UNCHANGED rowLock
       \/ /\ ~Active(wants[r].user)
          /\ rowLock' = [rowLock EXCEPT ![wants[r].code] = None]
          /\ Leave(r)
    /\ UNCHANGED <<deviceVars, maker, consumed, expired, given>>

CommitConfirm(r) ==
    /\ step[r] = "commit"
    /\ Commit(r)
    /\ given' = [given EXCEPT ![wants[r].code] = @ + 1]
    /\ rowLock' = [rowLock EXCEPT ![wants[r].code] = None]
    /\ Leave(r)
    /\ UNCHANGED <<deviceVars, maker, expired>>

\* (mutant) without defer tx.Rollback()
StillLocked(r) == rowLock
Unlocked(r) == [c \in Codes |-> IF rowLock[c] = r THEN None ELSE rowLock[c]]

\* The request is cancelled, or a statement fails: the transaction is undone.
Abort(r) ==
    /\ step[r] \notin {"idle", "away"}
    /\ rowLock' = Unlocked(r)
    /\ Leave(r)
    /\ UNCHANGED <<deviceVars, maker, consumed, expired, given>>

Expire(c) ==
    /\ maker[c] # None /\ c \notin expired
    /\ expired' = expired \cup {c}
    /\ UNCHANGED <<deviceVars, maker, consumed, rowLock, step, wants, given>>

-----------------------------------------------------------------------------
DeviceStep == DeviceNext /\ UNCHANGED <<claims, step, wants>>

Next ==
    \/ DeviceStep
    \/ \E r \in Creators :
          CreateClaim(r) \/ \E u \in Users : CheckDevice(r, u)
    \/ \E r \in Agents :
          \/ Consume(r) \/ ReadDevice(r) \/ CommitConfirm(r)
          \/ \E u \in Users, c \in Codes : BeginConfirm(r, u, c)
    \/ \E r \in Requests : Abort(r)
    \/ \E c \in Codes : Expire(c)

Spec == Init /\ [][Next]_vars

-----------------------------------------------------------------------------
(* Properties                                                               *)

\* Type invariant of the device, the claims and the requests.
TypeOK ==
    /\ DeviceTypeOK
    /\ maker \in [Codes -> Users \cup {None}]
    /\ consumed \in [Codes -> Agents \cup {None}]
    /\ expired \subseteq Codes
    /\ rowLock \in [Codes -> Agents \cup {None}]
    /\ step \in [Requests -> {"away", "idle", "create", "consume", "device", "commit"}]
    /\ wants \in [Requests -> [user : Users \cup {None}, code : Codes \cup {None}]]
    /\ \A c \in Codes :
          /\ rowLock[c] # None => wants[rowLock[c]].code = c /\ maker[c] # None
          /\ consumed[c] # None => maker[c] # None

\* A code pairs one agent with the device: it is used up exactly when a
\* confirmation has been answered with the device, and never answered so twice,
\* whatever waits on its row or is cancelled, even if the code is drawn again
\* (CreatePairingClaim, ConfirmPairingClaim).
UsedUpOnce ==
    \A c \in Codes : given[c] = IF consumed[c] = None THEN 0 ELSE 1

\* The device a code of an account is confirmed with is that account's: not one
\* that unbound it and has not bound it since, unless it unbound it after the
\* device was read (ConfirmPairingClaim, RevokeDevice).
ConfirmedForOwner ==
    [][\A r \in Agents :
          step[r] = "device" /\ step'[r] = "commit"
             => /\ owner = maker[wants[r].code]
                /\ owner \notin unbound]_vars
=============================================================================
