--------------------------- MODULE Pairing_proofs ---------------------------
(* Proofs about Pairing and the device it extends, for any number of         *)
(* accounts, codes and concurrent requests.                                  *)
EXTENDS Pairing, TLAPS

-----------------------------------------------------------------------------
(* The device                                                               *)

\* The account a device is bound to has not unbound it since.
ActiveIsNotUnbound == state = "active" => owner \notin unbound

\* The inductive invariant of the device.
DeviceInv ==
    DeviceTypeOK /\ TokensBelongToOwner /\ ResetIsLastOwners /\ ActiveIsNotUnbound

\* A device comes from the factory, or was unbound, or is bound without tokens.
LEMMA DeviceStart == DeviceInit => DeviceInv
  <1>. SUFFICES ASSUME DeviceInit PROVE DeviceInv
    OBVIOUS
  <1>1. /\ pc \in [Handlers -> {"away", "idle", "bind", "insert", "issue", "exchange"}]
        /\ \A h \in Handlers : pc[h] \in {"away", "idle"}
    BY DEF DeviceInit
  <1>2. DeviceTypeOK
    BY <1>1 DEF DeviceInit, DeviceTypeOK
  <1>3. TokensBelongToOwner /\ ResetIsLastOwners /\ ActiveIsNotUnbound
    BY DEF DeviceInit, TokensBelongToOwner, ResetIsLastOwners, ActiveIsNotUnbound
  <1>. QED  BY <1>2, <1>3 DEF DeviceInv

\* Where a request goes, and that it alone goes there.
LEMMA GotoEffect ==
    ASSUME DeviceTypeOK, NEW h \in Handlers, NEW next \in {"idle", "insert", "issue"},
           pc[h] \notin {"away", "idle"}, Goto(h, next)
    PROVE  /\ pc' \in [Handlers -> {"away", "idle", "bind", "insert", "issue", "exchange"}]
           /\ pc'[h] = next
           /\ user' \in [Handlers -> Users \cup {None}]
           /\ \A g \in Handlers : pc'[g] \notin {"away", "idle"} => user'[g] \in Users
  <1>1. /\ pc' = [pc EXCEPT ![h] = next]
        /\ user' = [user EXCEPT ![h] = IF next = "idle" THEN None ELSE user[h]]
    BY DEF Goto
  <1>2. /\ pc \in [Handlers -> {"away", "idle", "bind", "insert", "issue", "exchange"}]
        /\ user \in [Handlers -> Users \cup {None}]
        /\ \A g \in Handlers : pc[g] \notin {"away", "idle"} => user[g] \in Users
    BY DEF DeviceTypeOK
  <1>3. /\ pc' \in [Handlers -> {"away", "idle", "bind", "insert", "issue", "exchange"}]
        /\ user' \in [Handlers -> Users \cup {None}]
        /\ pc'[h] = next /\ (next # "idle" => user'[h] \in Users)
    BY <1>1, <1>2
  <1>4. ASSUME NEW g \in Handlers, pc'[g] \notin {"away", "idle"} PROVE user'[g] \in Users
    <2>1. CASE g = h
      BY <1>3, <1>4, <2>1
    <2>2. CASE g # h
      BY <1>1, <1>2, <1>4, <2>2
    <2>. QED  BY <2>1, <2>2
  <1>. QED  BY <1>3, <1>4

\* A step of a request that leaves the row and its history alone.
LEMMA RowFrame ==
    ASSUME DeviceInv, UNCHANGED <<device, history, reset>>,
           pc' \in [Handlers -> {"away", "idle", "bind", "insert", "issue", "exchange"}],
           user' \in [Handlers -> Users \cup {None}],
           \A g \in Handlers : pc'[g] \notin {"away", "idle"} => user'[g] \in Users
    PROVE  DeviceInv'
  BY DEF DeviceInv, DeviceTypeOK, TokensBelongToOwner, ResetIsLastOwners, ActiveIsNotUnbound,
         device, history

\* The upsert, on a row that is the account's, unbound or not there, or else
\* taken over.
LEMMA UpsertKeeps ==
    ASSUME DeviceInv, NEW h \in Handlers, pc[h] \in {"bind", "insert"}, Upsert(h),
           taken' \in BOOLEAN,
           ~taken' => ~taken /\ (owner = None \/ MayBind(h))
    PROVE  DeviceInv'
  <1>1. user[h] \in Users /\ user[h] # None
    BY DeviceAssumption DEF DeviceInv, DeviceTypeOK
  <1>2. /\ owner' = user[h] /\ state' = "active" /\ reset' \in {reset, None, user[h]}
        /\ unbound' = unbound \ {user[h]} /\ UNCHANGED <<refresh, access, stray>>
    BY DEF Upsert
  <1>3. DeviceTypeOK'
    <2>1. /\ pc' \in [Handlers -> {"away", "idle", "bind", "insert", "issue", "exchange"}]
          /\ user' \in [Handlers -> Users \cup {None}]
          /\ \A g \in Handlers : pc'[g] \notin {"away", "idle"} => user'[g] \in Users
      BY GotoEffect DEF DeviceInv, Upsert
    <2>. QED  BY <1>1, <1>2, <2>1 DEF DeviceInv, DeviceTypeOK
  <1>4. ASSUME ~taken', refresh # None PROVE refresh = user[h]
    BY <1>4, DeviceAssumption DEF DeviceInv, DeviceTypeOK, TokensBelongToOwner, MayBind
  <1>5. ASSUME ~taken', access # None, ~stray PROVE access = user[h]
    BY <1>5, DeviceAssumption DEF DeviceInv, DeviceTypeOK, TokensBelongToOwner, MayBind
  <1>6. TokensBelongToOwner'
    BY <1>2, <1>4, <1>5 DEF DeviceInv, TokensBelongToOwner
  <1>7. ResetIsLastOwners' /\ ActiveIsNotUnbound'
    BY <1>2 DEF ResetIsLastOwners, ActiveIsNotUnbound
  <1>. QED  BY <1>3, <1>6, <1>7 DEF DeviceInv

\* Binding, with a row and without.
LEMMA BindKeeps ==
    ASSUME DeviceInv, NEW h \in Handlers, BindKnown(h) \/ BindUnknown(h) \/ Insert(h)
    PROVE  DeviceInv'
  <1>. taken \in BOOLEAN
    BY DEF DeviceInv, DeviceTypeOK
  <1>1. CASE BindKnown(h)
    <2>1. pc[h] = "bind" /\ taken' = taken
      BY <1>1 DEF BindKnown
    <2>2. CASE MayBind(h) /\ Upsert(h)
      BY <2>1, <2>2, UpsertKeeps
    <2>3. CASE Goto(h, "idle") /\ UNCHANGED <<device, unbound, stray, reset>>
      <3>1. UNCHANGED <<device, history, reset>>
        BY <2>1, <2>3 DEF history
      <3>. QED  BY <2>1, <2>3, <3>1, GotoEffect, RowFrame DEF DeviceInv
    <2>. QED  BY <1>1, <2>2, <2>3 DEF BindKnown
  <1>2. CASE BindUnknown(h)
    BY <1>2, GotoEffect, RowFrame DEF BindUnknown, DeviceInv
  <1>3. CASE Insert(h)
    <2>1. /\ pc[h] = "insert" /\ Upsert(h) /\ taken' \in BOOLEAN
          /\ ~taken' => ~taken /\ owner \in {None, user[h]}
      BY <1>3 DEF Insert
    <2>. QED  BY <2>1, UpsertKeeps DEF MayBind
  <1>. QED  BY <1>1, <1>2, <1>3

\* Tokens are issued to the account the row is bound to.
LEMMA IssueKeeps ==
    ASSUME DeviceInv, NEW h \in Handlers, IssueDeviceTokens(h)
    PROVE  DeviceInv'
  <1>1. /\ pc[h] = "issue" /\ user[h] \in Users /\ Goto(h, "idle")
        /\ UNCHANGED <<owner, state, unbound, reset>>
    BY DEF IssueDeviceTokens, DeviceInv, DeviceTypeOK
  <1>2. /\ pc' \in [Handlers -> {"away", "idle", "bind", "insert", "issue", "exchange"}]
        /\ user' \in [Handlers -> Users \cup {None}]
        /\ \A g \in Handlers : pc'[g] \notin {"away", "idle"} => user'[g] \in Users
    BY <1>1, GotoEffect DEF DeviceInv
  <1>3. CASE /\ StillBound(h) /\ refresh' = user[h] /\ access' = user[h]
             /\ taken' = FALSE /\ stray' = FALSE
    <2>1. DeviceTypeOK'
      BY <1>1, <1>2, <1>3 DEF DeviceInv, DeviceTypeOK, StillBound
    <2>2. TokensBelongToOwner'
      BY <1>1, <1>3 DEF DeviceInv, TokensBelongToOwner, StillBound, ActiveIsNotUnbound
    <2>3. ResetIsLastOwners' /\ ActiveIsNotUnbound'
      BY <1>1 DEF DeviceInv, ResetIsLastOwners, ActiveIsNotUnbound
    <2>. QED  BY <2>1, <2>2, <2>3 DEF DeviceInv
  <1>4. CASE UNCHANGED <<refresh, access, taken, stray>>
    BY <1>1, <1>2, <1>4, RowFrame DEF device, history
  <1>. QED  BY <1>3, <1>4 DEF IssueDeviceTokens

\* The exchange of a refresh token: read, then written to whatever row there is.
LEMMA ExchangeKeeps ==
    ASSUME DeviceInv, NEW h \in Handlers, ExchangeRead(h) \/ ExchangeWrite(h)
    PROVE  DeviceInv'
  <1>1. CASE ExchangeRead(h)
    <2>1. /\ pc' = [pc EXCEPT ![h] = "exchange"] /\ user' = [user EXCEPT ![h] = refresh]
          /\ refresh \in Users /\ UNCHANGED <<device, history, reset>>
      BY <1>1 DEF ExchangeRead, DeviceInv, DeviceTypeOK
    <2>. QED  BY <2>1, RowFrame DEF DeviceInv, DeviceTypeOK
  <1>2. CASE ExchangeWrite(h)
    <2>1. /\ pc[h] = "exchange" /\ user[h] \in Users /\ Goto(h, "idle")
          /\ access' = user[h] /\ stray' = ~StillBound(h)
          /\ UNCHANGED <<owner, state, refresh, unbound, taken, reset>>
      BY <1>2 DEF ExchangeWrite, DeviceInv, DeviceTypeOK
    <2>2. DeviceTypeOK'
      BY <2>1, GotoEffect DEF DeviceInv, DeviceTypeOK
    <2>3. TokensBelongToOwner'
      BY <2>1 DEF DeviceInv, TokensBelongToOwner, StillBound
    <2>4. ResetIsLastOwners' /\ ActiveIsNotUnbound'
      BY <2>1 DEF DeviceInv, ResetIsLastOwners, ActiveIsNotUnbound
    <2>. QED  BY <2>2, <2>3, <2>4 DEF DeviceInv
  <1>. QED  BY <1>1, <1>2

\* The owner's own steps: unbinding, acknowledging a reset, a patch.
LEMMA OwnerKeeps ==
    ASSUME DeviceInv, NEW u \in Users, RevokeDevice(u) \/ AckPendingReset(u) \/ PatchDevice(u)
    PROVE  DeviceInv'
  <1>1. CASE RevokeDevice(u)
    <2>1. /\ owner = u /\ owner' = u /\ state' = "revoked" /\ refresh' = None /\ access' = None
          /\ reset' \in {u, None} /\ unbound' = unbound \cup {u}
          /\ taken' = FALSE /\ stray' = FALSE /\ UNCHANGED <<pc, user>>
      BY <1>1 DEF RevokeDevice, DropTokens, Order
    <2>2. DeviceTypeOK'
      BY <2>1 DEF DeviceInv, DeviceTypeOK
    <2>3. TokensBelongToOwner' /\ ResetIsLastOwners' /\ ActiveIsNotUnbound'
      BY <2>1 DEF TokensBelongToOwner, ResetIsLastOwners, ActiveIsNotUnbound
    <2>. QED  BY <2>2, <2>3 DEF DeviceInv
  <1>2. CASE AckPendingReset(u) \/ PatchDevice(u)
    BY <1>2 DEF AckPendingReset, PatchDevice, DeviceInv, DeviceTypeOK, TokensBelongToOwner,
                ResetIsLastOwners, ActiveIsNotUnbound, device, history
  <1>. QED  BY <1>1, <1>2

\* Every step of the device keeps its invariant.
LEMMA DeviceKeeps ==
    ASSUME DeviceInv, DeviceNext
    PROVE  DeviceInv'
  <1>1. ASSUME NEW h \in Handlers, Begin(h) PROVE DeviceInv'
    <2>1. PICK u \in Users : user' = [user EXCEPT ![h] = u]
      BY <1>1 DEF Begin
    <2>2. pc' = [pc EXCEPT ![h] = "bind"] /\ UNCHANGED <<device, history, reset>>
      BY <1>1 DEF Begin
    <2>. QED  BY <2>1, <2>2, RowFrame DEF DeviceInv, DeviceTypeOK
  <1>2. ASSUME NEW h \in Handlers, Fail(h) PROVE DeviceInv'
    BY <1>2, GotoEffect, RowFrame DEF Fail, DeviceInv
  <1>. QED  BY <1>1, <1>2, BindKeeps, IssueKeeps, ExchangeKeeps, OwnerKeeps DEF DeviceNext

\* So does a step of the codes.
LEMMA DeviceFrame ==
    ASSUME DeviceInv, UNCHANGED deviceVars
    PROVE  DeviceInv'
  BY RowFrame DEF deviceVars, DeviceInv, DeviceTypeOK

-----------------------------------------------------------------------------
(* The codes                                                                *)

\* The types of the claims and of the requests.
ClaimTypes ==
    /\ maker \in [Codes -> Users \cup {None}]
    /\ consumed \in [Codes -> Agents \cup {None}]
    /\ expired \subseteq Codes
    /\ rowLock \in [Codes -> Agents \cup {None}]
    /\ given \in [Codes -> {0, 1}]
    /\ step \in [Requests -> {"away", "idle", "create", "consume", "device", "commit"}]
    /\ wants \in [Requests -> [user : Users \cup {None}, code : Codes \cup {None}]]

\* What a request is about, by where it is.  A confirmation between its
\* statements holds the row of a claim that is its account's and open.
InStep(r) ==
    /\ step[r] = "create" => wants[r].user \in Users
    /\ step[r] \in {"consume", "device", "commit"} =>
          wants[r].code \in Codes /\ wants[r].user \in Users
    /\ step[r] \in {"device", "commit"} =>
          /\ rowLock[wants[r].code] = r
          /\ consumed[wants[r].code] = None
          /\ maker[wants[r].code] = wants[r].user

\* What is true of a code: only a confirmation between its statements holds the
\* row, and only claims that were made are held, used up or answered.
InOrder(c) ==
    /\ rowLock[c] # None =>
          /\ step[rowLock[c]] \in {"device", "commit"}
          /\ wants[rowLock[c]].code = c /\ maker[c] # None
    /\ consumed[c] # None => maker[c] # None
    /\ given[c] = IF consumed[c] = None THEN 0 ELSE 1

\* The inductive invariant of the claims, and of the whole.
ClaimInv ==
    /\ ClaimTypes
    /\ \A r \in Requests : InStep(r)
    /\ \A c \in Codes : InOrder(c)
PairingInv == DeviceInv /\ ClaimInv

\* The inductive invariant is stronger than the invariants.
LEMMA PairingInvImplies == PairingInv => TypeOK /\ UsedUpOnce
  BY DEF PairingInv, DeviceInv, ClaimInv, ClaimTypes, InOrder, TypeOK, UsedUpOnce

\* At the start no code is drawn and no request has begun.
LEMMA PairingStart == Init => PairingInv
  <1>. SUFFICES ASSUME Init PROVE PairingInv
    OBVIOUS
  <1>1. DeviceInv
    BY DeviceStart DEF Init
  <1>2. ClaimTypes /\ \A r \in Requests : step[r] \in {"away", "idle"}
    BY DEF Init, ClaimTypes, NoWant
  <1>3. \A r \in Requests : InStep(r)
    BY <1>2 DEF InStep
  <1>4. \A c \in Codes : InOrder(c)
    BY DEF Init, InOrder
  <1>. QED  BY <1>1, <1>2, <1>3, <1>4 DEF PairingInv, ClaimInv

\* A request that goes on, or ends.
LEMMA StepEffect ==
    ASSUME ClaimTypes, NEW r \in Requests,
           NEW next \in {"idle", "create", "consume", "device", "commit"},
           NEW u \in Users \cup {None}, NEW c \in Codes \cup {None},
           \/ Enter(r, next, u, c)
           \/ Leave(r) /\ next = "idle" /\ u = None /\ c = None
    PROVE  /\ step' \in [Requests -> {"away", "idle", "create", "consume", "device", "commit"}]
           /\ wants' \in [Requests -> [user : Users \cup {None}, code : Codes \cup {None}]]
           /\ step'[r] = next /\ wants'[r].user = u /\ wants'[r].code = c
           /\ \A q \in Requests \ {r} : step'[q] = step[q] /\ wants'[q] = wants[q]
  <1>. DEFINE new == [user |-> u, code |-> c]
  <1>1. step' = [step EXCEPT ![r] = next] /\ wants' = [wants EXCEPT ![r] = new]
    BY DEF Enter, Leave, NoWant
  <1>2. /\ new \in [user : Users \cup {None}, code : Codes \cup {None}]
        /\ new.user = u /\ new.code = c
    OBVIOUS
  <1>. HIDE DEF new
  <1>. QED  BY <1>1, <1>2 DEF ClaimTypes

\* A step of one request that leaves the claims alone, and is not between the
\* statements of a confirmation.
LEMMA ClaimsFrame ==
    ASSUME ClaimInv, NEW r \in Requests, UNCHANGED claims,
           step[r] \notin {"device", "commit"},
           step' \in [Requests -> {"away", "idle", "create", "consume", "device", "commit"}],
           wants' \in [Requests -> [user : Users \cup {None}, code : Codes \cup {None}]],
           \A q \in Requests \ {r} : step'[q] = step[q] /\ wants'[q] = wants[q],
           InStep(r)'
    PROVE  ClaimInv'
  <1>1. UNCHANGED <<maker, consumed, expired, rowLock, given>>
    BY DEF claims
  <1>2. ClaimTypes'
    BY <1>1 DEF ClaimInv, ClaimTypes
  <1>3. ASSUME NEW q \in Requests PROVE InStep(q)'
    BY <1>1 DEF ClaimInv, InStep
  <1>4. ASSUME NEW c \in Codes PROVE InOrder(c)'
    <2>1. InOrder(c) /\ rowLock[c] \in Agents \cup {None}
      BY DEF ClaimInv, ClaimTypes
    <2>2. rowLock[c] # None => rowLock[c] \in Requests \ {r}
      BY <2>1 DEF InOrder, Requests
    <2>. QED  BY <1>1, <2>1, <2>2 DEF InOrder
  <1>. QED  BY <1>2, <1>3, <1>4 DEF ClaimInv

\* A claim is asked for.
LEMMA CheckKeeps ==
    ASSUME ClaimInv, NEW r \in Creators, NEW u \in Users, CheckDevice(r, u)
    PROVE  ClaimInv'
  <1>1. r \in Requests /\ step[r] = "idle" /\ Enter(r, "create", u, None) /\ UNCHANGED claims
    BY DEF CheckDevice, Requests
  <1>2. /\ step' \in [Requests -> {"away", "idle", "create", "consume", "device", "commit"}]
        /\ wants' \in [Requests -> [user : Users \cup {None}, code : Codes \cup {None}]]
        /\ step'[r] = "create" /\ wants'[r].user = u
        /\ \A q \in Requests \ {r} : step'[q] = step[q] /\ wants'[q] = wants[q]
    BY <1>1, StepEffect DEF ClaimInv
  <1>3. InStep(r)'
    BY <1>2 DEF InStep
  <1>. QED  BY <1>1, <1>2, <1>3, ClaimsFrame

\* A confirmation begins on a code that was drawn.
LEMMA BeginKeeps ==
    ASSUME ClaimInv, NEW r \in Agents, NEW u \in Users, NEW c \in Codes, BeginConfirm(r, u, c)
    PROVE  ClaimInv'
  <1>1. r \in Requests /\ step[r] = "idle" /\ Enter(r, "consume", u, c) /\ UNCHANGED claims
    BY DEF BeginConfirm, Requests
  <1>2. /\ step' \in [Requests -> {"away", "idle", "create", "consume", "device", "commit"}]
        /\ wants' \in [Requests -> [user : Users \cup {None}, code : Codes \cup {None}]]
        /\ step'[r] = "consume" /\ wants'[r].user = u /\ wants'[r].code = c
        /\ \A q \in Requests \ {r} : step'[q] = step[q] /\ wants'[q] = wants[q]
    BY <1>1, StepEffect DEF ClaimInv
  <1>3. InStep(r)'
    BY <1>2 DEF InStep
  <1>. QED  BY <1>1, <1>2, <1>3, ClaimsFrame

\* A claim is written under a code no claim had.
LEMMA CreateKeeps ==
    ASSUME ClaimInv, NEW r \in Creators, CreateClaim(r)
    PROVE  ClaimInv'
  <1>1. /\ r \in Requests /\ step[r] = "create" /\ Leave(r)
        /\ UNCHANGED <<consumed, expired, rowLock, given>>
    BY DEF CreateClaim, Requests
  <1>2. /\ step' \in [Requests -> {"away", "idle", "create", "consume", "device", "commit"}]
        /\ wants' \in [Requests -> [user : Users \cup {None}, code : Codes \cup {None}]]
        /\ step'[r] = "idle"
        /\ \A q \in Requests \ {r} : step'[q] = step[q] /\ wants'[q] = wants[q]
    BY <1>1, StepEffect DEF ClaimInv
  <1>3. /\ maker' \in [Codes -> Users \cup {None}]
        /\ \A c \in Codes : maker[c] # None => maker'[c] = maker[c]
    <2>1. wants[r].user \in Users
      BY <1>1 DEF ClaimInv, InStep
    <2>. QED  BY <2>1 DEF CreateClaim, Unused, ClaimInv, ClaimTypes
  <1>4. ClaimTypes'
    BY <1>1, <1>2, <1>3 DEF ClaimInv, ClaimTypes
  <1>5. ASSUME NEW q \in Requests PROVE InStep(q)'
    <2>1. CASE q = r
      BY <1>2, <2>1 DEF InStep
    <2>2. CASE q # r
      <3>1. InStep(q) /\ step'[q] = step[q] /\ wants'[q] = wants[q]
        BY <1>2, <2>2 DEF ClaimInv
      <3>. QED  BY <1>1, <1>3, <3>1, DeviceAssumption DEF InStep
    <2>. QED  BY <2>1, <2>2
  <1>6. ASSUME NEW c \in Codes PROVE InOrder(c)'
    <2>1. InOrder(c) /\ rowLock[c] \in Agents \cup {None}
      BY DEF ClaimInv, ClaimTypes
    <2>2. rowLock[c] # None => rowLock[c] \in Requests \ {r}
      BY <1>1, <2>1 DEF InOrder, Requests
    <2>. QED  BY <1>1, <1>2, <1>3, <2>1, <2>2 DEF InOrder
  <1>. QED  BY <1>4, <1>5, <1>6 DEF ClaimInv

\* The row of an open claim is taken, if no other transaction holds it.
LEMMA ConsumeKeeps ==
    ASSUME ClaimInv, NEW r \in Agents, Consume(r)
    PROVE  ClaimInv'
  <1>. DEFINE c == wants[r].code
              u == wants[r].user
  <1>1. /\ r \in Requests /\ step[r] = "consume" /\ c \in Codes /\ u \in Users
        /\ rowLock[c] = None
    BY DEF Consume, ClaimInv, InStep, Requests
  <1>2. CASE Leave(r) /\ UNCHANGED claims
    <2>1. /\ step' \in [Requests -> {"away", "idle", "create", "consume", "device", "commit"}]
          /\ wants' \in [Requests -> [user : Users \cup {None}, code : Codes \cup {None}]]
          /\ step'[r] = "idle"
          /\ \A q \in Requests \ {r} : step'[q] = step[q] /\ wants'[q] = wants[q]
      BY <1>1, <1>2, StepEffect DEF ClaimInv
    <2>2. InStep(r)'
      BY <2>1 DEF InStep
    <2>. QED  BY <1>1, <1>2, <2>1, <2>2, ClaimsFrame
  <1>3. CASE /\ Open(r, c) /\ rowLock' = [rowLock EXCEPT ![c] = r]
             /\ Enter(r, "device", u, c) /\ UNCHANGED <<maker, consumed, expired, given>>
    <2>1. /\ step' \in [Requests -> {"away", "idle", "create", "consume", "device", "commit"}]
          /\ wants' \in [Requests -> [user : Users \cup {None}, code : Codes \cup {None}]]
          /\ step'[r] = "device" /\ wants'[r].user = u /\ wants'[r].code = c
          /\ \A q \in Requests \ {r} : step'[q] = step[q] /\ wants'[q] = wants[q]
      BY <1>1, <1>3, StepEffect DEF ClaimInv
    <2>2. /\ rowLock' \in [Codes -> Agents \cup {None}] /\ rowLock'[c] = r
          /\ \A d \in Codes \ {c} : rowLock'[d] = rowLock[d]
      BY <1>1, <1>3 DEF ClaimInv, ClaimTypes
    <2>3. maker[c] = u /\ consumed[c] = None /\ r # None /\ u # None
      BY <1>1, <1>3, PairingAssumption, DeviceAssumption DEF Open
    <2>. HIDE DEF c, u
    <2>4. ClaimTypes'
      BY <1>3, <2>1, <2>2 DEF ClaimInv, ClaimTypes
    <2>5. ASSUME NEW q \in Requests PROVE InStep(q)'
      <3>1. CASE q = r
        BY <1>1, <1>3, <2>1, <2>2, <2>3, <3>1 DEF InStep
      <3>2. CASE q # r
        <4>1. InStep(q) /\ step'[q] = step[q] /\ wants'[q] = wants[q]
          BY <2>1, <3>2 DEF ClaimInv
        <4>2. step[q] \in {"device", "commit"} => q # None /\ wants[q].code # c
          BY <1>1, <4>1, PairingAssumption DEF InStep, Requests
        <4>. QED  BY <1>3, <2>2, <4>1, <4>2 DEF InStep
      <3>. QED  BY <3>1, <3>2
    <2>6. ASSUME NEW d \in Codes PROVE InOrder(d)'
      <3>1. InOrder(d) /\ rowLock[d] \in Agents \cup {None}
        BY DEF ClaimInv, ClaimTypes
      <3>2. CASE d = c
        BY <1>3, <2>1, <2>2, <2>3, <3>1, <3>2, DeviceAssumption DEF InOrder
      <3>3. CASE d # c
        <4>1. rowLock[d] # None => rowLock[d] \in Requests \ {r}
          BY <1>1, <3>1 DEF InOrder, Requests
        <4>. QED  BY <1>3, <2>1, <2>2, <3>1, <3>3, <4>1 DEF InOrder
      <3>. QED  BY <3>2, <3>3
    <2>. QED  BY <2>4, <2>5, <2>6 DEF ClaimInv
  <1>. QED  BY <1>2, <1>3 DEF Consume

\* A transaction ends: its request leaves, the rows it held are free, and of
\* the claims at most the one it holds is used up, and answered.
LEMMA ReleaseKeeps ==
    ASSUME ClaimInv, NEW r \in Requests, Leave(r), UNCHANGED <<maker, expired>>,
           rowLock' \in [Codes -> Agents \cup {None}],
           consumed' \in [Codes -> Agents \cup {None}],
           given' \in [Codes -> {0, 1}],
           \A c \in Codes : rowLock'[c] = IF rowLock[c] = r THEN None ELSE rowLock[c],
           \A c \in Codes :
              \/ consumed'[c] = consumed[c] /\ given'[c] = given[c]
              \/ rowLock[c] = r /\ r # None /\ consumed'[c] = r /\ given'[c] = 1
    PROVE  ClaimInv'
  <1>1. /\ step' \in [Requests -> {"away", "idle", "create", "consume", "device", "commit"}]
        /\ wants' \in [Requests -> [user : Users \cup {None}, code : Codes \cup {None}]]
        /\ step'[r] = "idle"
        /\ \A q \in Requests \ {r} : step'[q] = step[q] /\ wants'[q] = wants[q]
    BY StepEffect DEF ClaimInv
  <1>2. ClaimTypes'
    BY <1>1 DEF ClaimInv, ClaimTypes
  <1>3. ASSUME NEW q \in Requests PROVE InStep(q)'
    <2>1. CASE q = r
      BY <1>1, <2>1 DEF InStep
    <2>2. CASE q # r
      <3>1. InStep(q) /\ step'[q] = step[q] /\ wants'[q] = wants[q]
        BY <1>1, <2>2 DEF ClaimInv
      <3>. QED  BY <2>2, <3>1 DEF InStep
    <2>. QED  BY <2>1, <2>2
  <1>4. ASSUME NEW c \in Codes PROVE InOrder(c)'
    <2>1. InOrder(c) /\ rowLock[c] \in Agents \cup {None}
      BY DEF ClaimInv, ClaimTypes
    <2>2. rowLock'[c] # None => rowLock'[c] = rowLock[c] /\ rowLock[c] \in Requests \ {r}
      BY <2>1 DEF Requests
    <2>. QED  BY <1>1, <2>1, <2>2 DEF InOrder
  <1>. QED  BY <1>2, <1>3, <1>4 DEF ClaimInv

\* The rows a confirmation between its statements holds: that of its claim.
LEMMA HoldsOne ==
    ASSUME ClaimInv, NEW r \in Agents, step[r] \in {"device", "commit"}
    PROVE  /\ r \in Requests /\ r # None
           /\ wants[r].code \in Codes /\ wants[r].user \in Users
           /\ \A c \in Codes : rowLock[c] = r <=> c = wants[r].code
  BY PairingAssumption DEF ClaimInv, InStep, InOrder, Requests

\* The device is read: the confirmation goes on with its row, or lets go of it.
LEMMA ReadKeeps ==
    ASSUME ClaimInv, NEW r \in Agents, ReadDevice(r)
    PROVE  ClaimInv'
  <1>. DEFINE c == wants[r].code
              u == wants[r].user
  <1>1. /\ r \in Requests /\ step[r] = "device" /\ c \in Codes /\ u \in Users
        /\ \A d \in Codes : rowLock[d] = r <=> d = c
        /\ UNCHANGED <<maker, consumed, expired, given>>
    BY HoldsOne DEF ReadDevice
  <1>2. CASE Enter(r, "commit", u, c) /\ UNCHANGED rowLock
    <2>1. /\ step' \in [Requests -> {"away", "idle", "create", "consume", "device", "commit"}]
          /\ wants' \in [Requests -> [user : Users \cup {None}, code : Codes \cup {None}]]
          /\ step'[r] = "commit" /\ wants'[r].user = u /\ wants'[r].code = c
          /\ \A q \in Requests \ {r} : step'[q] = step[q] /\ wants'[q] = wants[q]
      BY <1>1, <1>2, StepEffect DEF ClaimInv
    <2>2. ClaimTypes'
      BY <1>1, <1>2, <2>1 DEF ClaimInv, ClaimTypes
    <2>3. ASSUME NEW q \in Requests PROVE InStep(q)'
      <3>1. InStep(q)
        BY DEF ClaimInv
      <3>2. CASE q = r
        BY <1>1, <1>2, <2>1, <3>1, <3>2 DEF InStep
      <3>3. CASE q # r
        BY <1>1, <1>2, <2>1, <3>1, <3>3 DEF InStep
      <3>. QED  BY <3>2, <3>3
    <2>4. ASSUME NEW d \in Codes PROVE InOrder(d)'
      <3>1. InOrder(d) /\ rowLock[d] \in Agents \cup {None}
        BY DEF ClaimInv, ClaimTypes
      <3>2. rowLock[d] # None => rowLock[d] \in Requests /\ rowLock'[d] = rowLock[d]
        BY <1>2, <3>1 DEF Requests
      <3>3. CASE rowLock[d] = r
        BY <1>1, <1>2, <2>1, <3>1, <3>3 DEF InOrder
      <3>4. CASE rowLock[d] # r
        BY <1>1, <1>2, <2>1, <3>1, <3>2, <3>4 DEF InOrder
      <3>. QED  BY <3>3, <3>4
    <2>. QED  BY <2>2, <2>3, <2>4 DEF ClaimInv
  <1>3. CASE Leave(r) /\ rowLock' = [rowLock EXCEPT ![c] = None]
    <2>1. /\ rowLock' \in [Codes -> Agents \cup {None}]
          /\ \A d \in Codes : rowLock'[d] = IF rowLock[d] = r THEN None ELSE rowLock[d]
      BY <1>1, <1>3 DEF ClaimInv, ClaimTypes
    <2>. QED  BY <1>1, <1>3, <2>1, ReleaseKeeps DEF ClaimInv, ClaimTypes
  <1>. QED  BY <1>2, <1>3 DEF ReadDevice

\* The confirmation commits: its claim, open till then, is used up and answered.
LEMMA CommitKeeps ==
    ASSUME ClaimInv, NEW r \in Agents, CommitConfirm(r)
    PROVE  ClaimInv'
  <1>. DEFINE c == wants[r].code
  <1>1. /\ r \in Requests /\ r # None /\ c \in Codes
        /\ \A d \in Codes : rowLock[d] = r <=> d = c
    BY HoldsOne DEF CommitConfirm
  <1>2. /\ Leave(r) /\ UNCHANGED <<maker, expired>>
        /\ consumed' = [consumed EXCEPT ![c] = r]
        /\ given' = [given EXCEPT ![c] = given[c] + 1]
        /\ rowLock' = [rowLock EXCEPT ![c] = None]
    BY DEF CommitConfirm, Commit
  <1>3. given[c] = 0
    BY <1>1 DEF CommitConfirm, ClaimInv, InStep, InOrder
  <1>. HIDE DEF c
  <1>4. /\ rowLock' \in [Codes -> Agents \cup {None}]
        /\ consumed' \in [Codes -> Agents \cup {None}]
        /\ given' \in [Codes -> {0, 1}]
        /\ \A d \in Codes : rowLock'[d] = IF rowLock[d] = r THEN None ELSE rowLock[d]
    BY <1>1, <1>2, <1>3 DEF ClaimInv, ClaimTypes
  <1>5. ASSUME NEW d \in Codes
        PROVE  \/ consumed'[d] = consumed[d] /\ given'[d] = given[d]
               \/ rowLock[d] = r /\ r # None /\ consumed'[d] = r /\ given'[d] = 1
    BY <1>1, <1>2, <1>3 DEF ClaimInv, ClaimTypes
  <1>. QED  BY <1>1, <1>2, <1>4, <1>5, ReleaseKeeps

\* A request is cancelled, and its transaction undone.
LEMMA AbortKeeps ==
    ASSUME ClaimInv, NEW r \in Requests, Abort(r)
    PROVE  ClaimInv'
  <1>1. /\ rowLock' \in [Codes -> Agents \cup {None}]
        /\ \A c \in Codes : rowLock'[c] = IF rowLock[c] = r THEN None ELSE rowLock[c]
    BY DEF Abort, Unlocked, ClaimInv, ClaimTypes
  <1>2. Leave(r) /\ UNCHANGED <<maker, consumed, expired, given>>
    BY DEF Abort
  <1>. QED  BY <1>1, <1>2, ReleaseKeeps DEF ClaimInv, ClaimTypes

\* The clock, and whatever happens to the device, change no claim.
LEMMA ClaimsApart ==
    ASSUME ClaimInv, UNCHANGED <<maker, consumed, rowLock, given, step, wants>>,
           expired' \subseteq Codes
    PROVE  ClaimInv'
  BY DEF ClaimInv, ClaimTypes, InStep, InOrder

\* Every step keeps the inductive invariant.
LEMMA PairingKeeps == PairingInv /\ [Next]_vars => PairingInv'
  <1>. SUFFICES ASSUME PairingInv, [Next]_vars PROVE PairingInv'
    OBVIOUS
  <1>. USE DEF PairingInv
  <1>1. expired \subseteq Codes
    BY DEF ClaimInv, ClaimTypes
  <1>2. CASE DeviceStep
    BY <1>1, <1>2, DeviceKeeps, ClaimsApart DEF DeviceStep, claims
  <1>3. ASSUME NEW r \in Creators, NEW u \in Users, CheckDevice(r, u) PROVE PairingInv'
    BY <1>3, CheckKeeps, DeviceFrame DEF CheckDevice
  <1>4. ASSUME NEW r \in Creators, CreateClaim(r) PROVE PairingInv'
    BY <1>4, CreateKeeps, DeviceFrame DEF CreateClaim
  <1>5. ASSUME NEW r \in Agents, NEW u \in Users, NEW c \in Codes, BeginConfirm(r, u, c)
        PROVE  PairingInv'
    BY <1>5, BeginKeeps, DeviceFrame DEF BeginConfirm
  <1>6. ASSUME NEW r \in Agents, Consume(r) PROVE PairingInv'
    <2>1. UNCHANGED deviceVars
      BY <1>6 DEF Consume
    <2>. QED  BY <1>6, <2>1, ConsumeKeeps, DeviceFrame
  <1>7. ASSUME NEW r \in Agents, ReadDevice(r) PROVE PairingInv'
    BY <1>7, ReadKeeps, DeviceFrame DEF ReadDevice
  <1>8. ASSUME NEW r \in Agents, CommitConfirm(r) PROVE PairingInv'
    BY <1>8, CommitKeeps, DeviceFrame DEF CommitConfirm
  <1>9. ASSUME NEW r \in Requests, Abort(r) PROVE PairingInv'
    BY <1>9, AbortKeeps, DeviceFrame DEF Abort
  <1>10. ASSUME NEW c \in Codes, Expire(c) PROVE PairingInv'
    BY <1>1, <1>10, ClaimsApart, DeviceFrame DEF Expire
  <1>11. CASE UNCHANGED vars
    BY <1>1, <1>11, ClaimsApart, DeviceFrame DEF vars, claims
  <1>. QED  BY <1>2, <1>3, <1>4, <1>5, <1>6, <1>7, <1>8, <1>9, <1>10, <1>11 DEF Next

\* The inductive invariant holds throughout.
LEMMA PairingInvAlways == Spec => []PairingInv
  <1>. QED  BY PairingStart, PairingKeeps, PTL DEF Spec

-----------------------------------------------------------------------------
(* The theorems                                                             *)

\* The rows and the requests keep their types, and a row in use is that of a
\* claim that was made.
THEOREM PairingTyping == Spec => []TypeOK
  <1>1. PairingInv => TypeOK
    BY PairingInvImplies
  <1>. QED  BY <1>1, PairingInvAlways, PTL

\* Whatever requests overlap, the tokens in a device's row were issued to the
\* account it is bound to, but for the two exceptions the property names.
THEOREM TokensOfOwner == Spec => []TokensBelongToOwner
  <1>1. PairingInv => TokensBelongToOwner
    BY DEF PairingInv, DeviceInv
  <1>. QED  BY <1>1, PairingInvAlways, PTL

\* A reset pending for an unbound device was ordered by the last to unbind it.
THEOREM ResetOfLastOwner == Spec => []ResetIsLastOwners
  <1>1. PairingInv => ResetIsLastOwners
    BY DEF PairingInv, DeviceInv
  <1>. QED  BY <1>1, PairingInvAlways, PTL

\* A code is used up exactly when it was answered with the device, and once.
THEOREM CodeUsedOnce == Spec => []UsedUpOnce
  <1>1. PairingInv => UsedUpOnce
    BY PairingInvImplies
  <1>. QED  BY <1>1, PairingInvAlways, PTL

\* The device a confirmation reads is that of the account that made the claim,
\* and that account has not unbound it.
THEOREM ConfirmedDevice == Spec => ConfirmedForOwner
  <1>. DEFINE Confirmed ==
                 \A r \in Agents :
                    step[r] = "device" /\ step'[r] = "commit"
                       => /\ owner = maker[wants[r].code]
                          /\ owner \notin unbound
  <1>1. ASSUME PairingInv, Next, NEW r \in Agents, step[r] = "device", step'[r] = "commit"
        PROVE  ReadDevice(r)
    <2>. r \in Requests /\ ClaimTypes
      BY <1>1 DEF PairingInv, ClaimInv, Requests
    <2>1. ASSUME NEW q \in Requests, NEW next \in {"idle", "create", "consume", "device"},
                 step' = [step EXCEPT ![q] = next]
          PROVE  FALSE
      BY <1>1, <2>1 DEF ClaimTypes
    <2>2. ASSUME NEW q \in Requests, Leave(q) PROVE FALSE
      BY <2>1, <2>2 DEF Leave
    <2>3. ~DeviceStep /\ \A c \in Codes : ~Expire(c)
      BY <1>1 DEF DeviceStep, Expire
    <2>4. \A q \in Creators : ~CreateClaim(q) /\ \A u \in Users : ~CheckDevice(q, u)
      BY <2>1, <2>2 DEF CreateClaim, CheckDevice, Enter, Requests
    <2>5. \A q \in Agents : ~Consume(q) /\ ~CommitConfirm(q)
      BY <2>1, <2>2 DEF Consume, CommitConfirm, Enter, Requests
    <2>6. \A q \in Agents, u \in Users, c \in Codes : ~BeginConfirm(q, u, c)
      BY <2>1 DEF BeginConfirm, Enter, Requests
    <2>7. \A q \in Requests : ~Abort(q)
      BY <2>2 DEF Abort
    <2>8. PICK q \in Agents : ReadDevice(q)
      BY <1>1, <2>3, <2>4, <2>5, <2>6, <2>7 DEF Next
    <2>9. q = r
      BY <1>1, <2>8 DEF ReadDevice, Enter, Leave, ClaimTypes, Requests
    <2>. QED  BY <2>8, <2>9
  <1>2. ASSUME PairingInv, Next, NEW r \in Agents, step[r] = "device", step'[r] = "commit"
        PROVE  owner = maker[wants[r].code] /\ owner \notin unbound
    <2>1. ReadDevice(r)
      BY <1>1, <1>2
    <2>2. Active(wants[r].user)
      <3>1. ~Leave(r)
        BY <1>2 DEF Leave, PairingInv, ClaimInv, ClaimTypes, Requests
      <3>. QED  BY <2>1, <3>1 DEF ReadDevice
    <2>3. maker[wants[r].code] = wants[r].user
      BY <1>2 DEF PairingInv, ClaimInv, InStep, Requests
    <2>. QED  BY <1>2, <2>2, <2>3 DEF Active, PairingInv, DeviceInv, ActiveIsNotUnbound
  <1>3. PairingInv /\ [Next]_vars => [Confirmed]_vars
    BY <1>2
  <1>. QED  BY <1>3, PairingInvAlways, PTL DEF Spec, ConfirmedForOwner
=============================================================================
