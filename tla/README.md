# EchoEar Cloud: TLA+ specifications

EchoEar Cloud is a Go server (gin, PostgreSQL) that lets phones and browsers
reach *agents*, the computers of its users. It keeps accounts, devices, shares
and pairing codes in the database, and relays websocket and HTTP traffic to an
agent through one in-memory registry. This directory holds a model of each of
its stateful parts, the TLC configurations that check them on small instances,
and TLAPS proofs of the most important invariants for all instances.

Run `tlc -config MCX.cfg MCX.tla` for a configuration named in PROJECT.json, and
`tlapm X_proofs.tla` for a proof module.

## Inventory

| Component | State | Operations | Model |
|---|---|---|---|
| tunnel (`internal/api/tunnel.go`) | `agents`, `mobiles`, `gateways`, `discoveries` under one RWMutex; per peer a `send` queue and a `closed` channel | attach, detach, relay, ping, access recheck | `Tunnel`, over `AgentRegistry` |
| HAPI gateway (`hapi_gateway.go`) | slots of proxied requests, `frames` and `closed` channels | attach, send the request in parts, stream the response, detach | `Tunnel` (all requests), `GatewayStream` (one) |
| realtime discovery (`tunnel.go`, `echoear_handlers.go`) | waiter channel for each request id | ask, answer, timeout, loss of the agent | `Tunnel`, `HapiMailbox` |
| connection mailbox (`agent_repository.go`) | `hapi_connection_requests`, `hapi_connection_responses` | enqueue, poll, complete, respond | `HapiMailbox`, over `CommandQueue` |
| accounts and sessions (`server.go`, `access_repository.go`, `repository.go`, the entrypoint's migrations) | `users`, `user_sessions` | login, logout, registration, administration, bootstrap at start | `AccountLifecycle` |
| shares and leases (`access_repository.go`, `admin_share_handlers.go`) | `agent_shares`, `agent_access_leases` | create, accept, decline, revoke, update; resolve, issue, renew | `ShareAccess` |
| share usage (`RecordShareUsage`) | `agent_share_usage_daily`, `agent_share_usage_events` | record once per event, refuse above the daily limit | `ShareUsage`, over `UsageLedger` |
| devices (`repository.go`, `server.go`) | `devices` with two token hashes and a pending reset in `lan_hint` | bind, unbind, issue and exchange tokens, order and acknowledge a reset, patch | `DeviceLifecycle` |
| pairing (`agent_repository.go`) | `pairing_claims` | create, confirm | `Pairing`, which extends `DeviceLifecycle` |
| ticket signing key (`EnsureAccessTicketSigningKey`) | one row of `app_settings` | start, restart | `SigningKey` |
| access tickets, validators, configuration, web pages | none, or read once | pure | not modelled |
| settings, audit log, agent directory | descriptive rows written by single statements | upserts | not modelled |
| containers, deployment, CI | scripts | run by one operator | not modelled |

How they interact. Handlers of gin run one per request, concurrently, and share
nothing but the database and the tunnel registry. A websocket handler has two
goroutines, its reader and its `writeLoop`, that meet in the peer's `send`
queue and `closed` channel. An HTTP request under a share reads the session,
resolves the access, takes a lease, and is then served by the tunnel; the
tunnel asks the database again every 25 seconds. A connection request tries the
tunnel for two seconds and then leaves a command in the mailbox. Pairing reads
the device that `BindDevice` and `RevokeDevice` write.

What is hard. Agents reconnect, so that the handler of an old connection ends
after its successor is registered; a lock is held while frames are queued to
slow phones; a request outlives the agent it was sent to; statements of
different requests interleave at PostgreSQL's READ COMMITTED, where a row lock
protects a row that exists and a plain SELECT protects nothing; reports and
polls are retried; processes restart and race at their start. PROJECT.json lists
each such place, at its line, under `hazards`, with the properties aimed at it.

## Modules

`Tunnel` is one `tunnelKey`. Identities (agents, phones, proxied requests,
discovery calls) are connections, each used once, so that a reconnecting agent
is another member of `Agents`. A step is a critical section of `hapiTunnel.mu`
or what a goroutine does between two of them: `pc` says where it is, `held` what
it took out of a map under the lock and uses after it, `todo` what a detaching
agent has still to visit; `under` and `asked` are history: the agent a request was
attached under, and the one a call registered for. `mu` is a variable because attaching an agent sends
to the phones while it holds the lock. `sendControl` queues, or closes the
peer after five seconds. A frame is the process it is about: a proxied request,
a discovery call's request id, or a notice to phones. What a response consists of
is left to `GatewayStream`; here a handler that got a chunk is in the place
"write" until the client has taken it. `MapRace` is the write of a phones map that another goroutine
ranges over without the lock (tunnel.go:193), which ends the process.

`GatewayStream` is the other half: one proxied request, from its access check to
its detach, with the frames the agent sends in any order (`told`), the one its
websocket reader holds (`wire`), the queue (`frames`), the start timer and the
status and chunks that reached the client (`answers`, `body`). A frame is named by
its place among those sent, so that order, gaps and repetition show. `dropped` is
what `deliverGateway` gave up; its select takes any case that is ready. `overdue` is
history: its 10-second timer gave a frame up.

`AccountLifecycle` has the writers of `users`: the entrypoint's SQL at every start,
statement by statement (`PromoteFirst`, `InsertBootstrap` with or without the
bootstrap credentials, and the promotion of 003 again), registrations, whose insert
is a step after the check of the administrator, and administrators' transactions,
with a row lock on the target, the key-share lock an inserted session takes on its
account, and a plain count of the administrators.

`ShareAccess` splits each request into the reads and writes the code makes of
the database, and holds a share's row from the read FOR UPDATE to the commit.
Windows and leases run out by actions of their own. A handler that reads a
request's body or writes to a client is "away" and asks nothing until it is back.

`ShareUsage` is `RecordShareUsage` as one transaction whose row lock lasts to
its end, with policy changes and midnight between its statements. A report names a
request; `lease` is the newest lease of that request in the last 24 hours, which
says the share it counts for. `IssueLease` is any client's use of the id; whether
`CreateAccessLease` refuses one for the day's total is left open, as it reads the
total and the policy without a lock. Without a lease a report ends and changes
nothing, which is no step.

`HapiMailbox` has the client's request from ticket to answer, the agent's
polls as transactions with row locks, SKIP LOCKED and rollback, and the agent's
completions and responses. `lease` is only what the request itself has done
with its lease; what shares do to leases is in `ShareAccess`. An answer is matched by
request id alone (tunnel.go:347): that to an earlier attempt ends a later one as well.

`AgentRegistry` is what the tunnel promises to those who send requests to an agent,
without lock, goroutines or visits after an unlock: one agent is in charge of the
key, a request is accepted by it once, and whoever loses its agent is cut off in
that same step. `CommandQueue` is what the mailbox promises, without transactions: a command waits
under its request id, a poll takes what waits in one step, and an id asked for
again stands for the newer command. `UsageLedger` is what the counting promises,
without totals, locks and retries: each event is entered once, within the limit
in force at that moment.

`DeviceLifecycle` is one device row and the requests that bind, unbind and refresh
it. A token, drawn at random and good only while it is the row's latest, is the
account it was issued to. `unbound`, `taken` and `stray` are history: who unbound the
device, and the two ways the code lets tokens of another account stay in the row.
`Pairing` extends it with the claims: a step of `Pairing` is a step of the device or
one of a claim.

`SigningKey` has any number of processes that start and stop on one database.

`MC*` modules hold model values, symmetry and the functions given to constants.

## Runs

| Run | What it asks | Bounds |
|---|---|---|
| tunnel_safety | the registry and its handlers agree; a late detach closes no request of the successor and fails none of its calls; a slot is held exactly from attach to detach; requests receive only their agent's frames; a frame that another agent gets is of a request that is over; the tunnel implements `AgentRegistry`; every waiting call can be reached; types | casts below, 1 slot of each kind, queues of 1 |
| tunnel_liveness | the lock is released; who lost its access leaves; calls and orphaned responses end | 2 agents, or 1 agent with a phone, a request of 1 or 2 frames, or a call |
| tunnel_legacy (violation) | a legacy agent gets no gateway frame | 1 gateway agent, 1 legacy agent, 1 request |
| accounts | sessions end with the account, a start displaces nobody and leaves an administrator, types | 2 accounts, 2 sessions, 2 administrators' requests |
| accounts_concurrent (violation) | an administrator remains | 2 accounts, 2 requests |
| shares | a policy version names one policy, a closed share stays closed, a stream ends after its access unless its handler never comes back, types | 1 share, 1 lease, 2 policies, 2 versions, 2 handlers |
| usage | totals match events; the reports implement `UsageLedger` | 2 shares, 1 request id, 2 events, 2 reporters, limits 0 to 2, 2 days |
| mailbox | the mailbox implements `CommandQueue`; the lease follows the request | 3 requests, 2 of one id, 2 polls |
| stream | the client gets one status, and the agent's chunks in order, without a gap until a frame ran out of time; every request ends, and the agent's reader is never kept | a queue of 2, a body of 1 or 3 parts, 4 response frames of 6 kinds in any order |
| devices | the tokens of a device are its owner's; a pending reset was ordered by the last owner; a code pairs once, for the account of the device | 2 accounts, 1 device, 3 of its requests, or 1 with 2 codes, 1 maker and 2 confirmations |
| device_first_bind (violation) | a bound device changes hands only after unbinding | 2 accounts, 2 requests, with and without a row at first |
| signing_key | one key for all processes | 3 processes, 1 with a key of its own |

The constant `Casts` says who may take part in one behaviour of `Tunnel`, so that
one run covers several small meetings instead of one that is too large: an agent
and its successor with a phone, with two calls of one request id, or with two
requests; one agent with two phones. A phone and a request meet only in the
agent's queue and in the agent that detaches both; meetings of more kinds at
once are not model-checked, and only the theorems speak of every cast. In
tunnel_safety a request's body is one frame, and in tunnel_liveness one or two; that
later parts are stray only when the request is over is `StraysAreOver`.

Why the bounds are enough. The hazards need two of a kind: a connection and its
successor, two holders of a slot, two transactions on a row. Two (three where a
third has to wait) of each are there, and every limit is reached: queues and
slots of one are full with one entry, and the daily limit can be below the events
offered. Only `MaxVersion`, `LastDay`, `MaxFrames` and `Seeds` bound what the code
leaves unbounded; each is passed by a guard, and at the bound an instance can
still withdraw, expire and end what it has begun. Four frames are a start, two
chunks and an end, and every disorder of them; with a queue of two they fill it,
wait behind it and are given up. Symmetry is used in runs of
safety properties only, over sets whose members no constant distinguishes.

Deadlock is checked in every run. `Tunnel`, where every process ends, has the
step `Terminated` for that.

Every property of every passing run has a mutant of a mapped definition in
PROJECT.json (a dropped guard, an off-by-one, a missing reset) that TLC refutes
under the same configuration. The mutants' operators stand before the
definition they change, marked `(mutant)`.

### Fairness

`Tunnel!FairSpec` assumes what the Go runtime gives a goroutine that can go on:
weak fairness of the server's own steps (`Obliged`), among them the timers of
`sendControl`, of a call and of a full response queue, since a timer ends. The
recheck of a revoked peer happens every 25 seconds. A closed connection returns
what is left in its buffer, finitely many frames, and then an error to its
reader: strong fairness, as other steps may intervene. That a peer connects,
sends or answers is not assumed, nor that a request's body arrives, nor that a
client reads what is written to it: cmd/api/main.go sets no WriteTimeout, so a
handler may stay in "write" for as long as its client neither reads nor leaves.

`GatewayStream!FairSpec` makes the same assumptions for one request: its timers fire,
`deliverGateway` ends by its ten seconds at the latest, and a write to a client that
left fails.

`ShareAccess!FairSpec` assumes that a request which has begun goes on, that a handler
which comes back to its select again and again is rechecked there at last (strong
fairness of `Recheck`: the ticker is one of several cases), and that PostgreSQL grants
a row lock to one that keeps waiting for it (strong fairness of `Resolve`): its
waiters are queued. It does not
assume that a handler comes back from reading the request or from writing to the
client (hapi_gateway.go:89, 169, no deadline): `WithdrawnAccessEnds` excepts one that
stays away for ever, whose stream the code does not end.

### Refinements

`HapiMailbox!ImplementsQueue` maps a row to the command it stands for, its status to
waiting, taken or over, and an accepted request to a command that was put. A
poll's transaction is seen at its commit, all its rows at once; beginning,
expiring, selecting and aborting are stutters. A completion that names an id
asked for again ends the newer command: `CommandQueue!Finish` says so openly, since
the code cannot tell them apart (agent_repository.go:147).

`ShareUsage!ImplementsLedger` keeps `limit`, `today` and `events` and forgets the rest. The
abstract step checks the limit against the events themselves at the moment of
entry; the code checks the totals it read before, under the share's row lock.

`Tunnel!ImplementsRegistry` maps a request to "cut off" as soon as its channel is closed
or a detach has it on its list (`Listed`): detach empties the map under the lock and
closes the channels one by one after it, and this mapping makes the whole of it the
one step `Leave`. Closing a listed channel is then a stutter, as are all steps of phones
and calls, unless a full queue closes a peer (`Close`). `AgentRegistry!End` keeps open
whether the request still stands in the map: `deliverGateway` closes a request that does
not take its frames, and its own handler removes it later. `MapRace` is `Crash`.

All three refinements are checked by TLC and proved.

### Disagreements found

* `tunnel_legacy`: a request attached while the agent supported the gateway is
  sent to a legacy agent that replaced it: `sendGatewayFrame` looks up the agent
  anew and asks nothing of it (hapi_gateway.go:278; tunnel_test.go:96).
* `accounts_concurrent`: two administrators who step down at once leave none:
  each locks its own row and counts the other (access_repository.go:203;
  repository.go:35). `AdminRemains` proves that nothing else does: as long as removals do
  not overlap between count and commit, an administrator remains.
* `device_first_bind`: of two first binds of a device the second takes the active
  device of the first (repository.go:388; server.go:444).

## Proofs

All theorems are for any constants that satisfy the assumption named in the
module of the component. Beside what the code fixes (there is an owner, a limit is a
natural number) these assumptions only keep the kinds of processes apart and
`None` apart from every value it stands beside; TLC evaluates them in the runs.
Each inductive invariant is the type invariant, the property, and what the list
below says had to be added.

`Tunnel_proofs`:

* `Typing`: `TypeOK`, which says more than types: what a goroutine took out of a map
  has the kind that its next step needs.
* `Registry`: `RegistryMatchesHandlers`. An agent is registered by a handler that
  closes its predecessor in the same critical section, so that of the handlers
  which run only the registered one is not closed. `MobileKeeps`, `GatewayKeeps`,
  `CallKeeps` and `DisconnectKeeps` give the frame of the steps of the other
  processes, which may close an agent but never register or unregister one.
* `NoEviction`: `SuccessorIsNotEvicted`, from the type invariant: the only step that
  unregisters an agent compares it with its own peer. No run lists it: what
  `ImplementsRegistry` asks of `Leave` is nearly the same.
* `Slots` and `Belonging`: `MobileHoldsSlot` and `GatewaysBelongToAgent`, each
  inductive beside the type invariant and `RegistryMatchesHandlers`.
* `OwnResponse` and `OwnEviction`: `ResponseFromOwnAgent` and `EvictsOnlyItsOwn`, from
  `UnderItsAgent`. Neither is inductive alone: a frame gets into a queue by way of
  an agent that looked the request up earlier, and a request is closed by an agent
  that listed it earlier, so the invariant also says that what these two hold was
  attached under them. For the calls, `AskedOf` says that one in the map was registered for
  the agent in charge, or for one that has lost its connection, and that the calls a
  detach lists are all of the latter kind; the history variable `asked` keeps the agent a call found.
* `RegistryImplemented`: `ImplementsRegistry`, by one lemma for each kind of process
  (`PromiseAgent` to `PromiseCall`). Beside the invariants above it needs `Placed`: an
  agent's handler comes to its detach closed, and a request between its attach and its
  detach has an agent. `ToldSame` and `OneCloses` give the steps that change nothing for
  the clients or close one peer; `JoinStep` and `LeaveStep` are the attach and the detach.
* `NothingForgotten`: `AgentRegistry!NoRequestForgotten` under the refinement mapping,
  proved over the six steps of the abstract registry only.
* `StraysAreOver`: `StrayFramesAreOver`. `FramesOwnOrOver` says of what is queued, and of what
  a request holds between looking the agent up and sending, that it is of the agent that
  accepted it or no longer registered; `OverStays` that no request is registered twice, and
  `QueueFrom` where a queued frame comes from. That the request is also closed or listed
  is `NothingForgotten`. This is the good half of the disagreement `tunnel_legacy`.
* `WaitersReachable`: `WaiterReachable`, beside the type invariant: a call registers
  under a free id and removes only its own registration, a detach lists the calls it
  takes out and gives each its result.

`GatewayStream_proofs`:

* `OneAnswer`: `AnsweredOnce`. `StatusFollowsPlace` ties the statuses to the handler's
  place: none before the loop, in the loop one exactly if the response has
  started, one after it unless the client left.
* `StreamTyping` and `BodyInOrder`: `TypeOK` and `BodyIsWhatAgentSent`. `FramesInOrder` says
  that what waits, in the queue and then in the reader's hand, is in the order of
  sending; `BodyOfTaken` says that the body is the chunks that followed a start
  among the frames already taken, and that only the last of these may end the
  response. Order
  follows for every behaviour, and completeness for those in which the 10-second timer
  of a delivery has given no frame up. After it the code lets a gap through: both
  selects take any case that is ready, so that a later chunk, or the end, may be queued
  and taken although the request is closed.

`ShareAccess_proofs`:

* `VersionsNamePolicies` and `ClosedForGood`: `VersionNamesPolicy` and
  `ClosedShareStaysClosed`. The invariant adds that a transition holds the lock of
  an open share from its read to its write (`Locks`), and that what a request or
  a lease remembers of a share is of an older version or of this very policy
  (`Fits`): a lease may be written long after it was read for, so the claim about
  leases alone is not inductive. `Growth` says once what any step may do to a row,
  with a lemma for each kind of step that writes one (`Expiring`, `Inviting`,
  `Applying`, `Deactivating`, `Passing`). `Typing` is the type invariant.

`ShareUsage_proofs`:

* `UsageTyping` and `Totals`: `TypeOK` and `TotalsMatchEvents`. `HeldReports` says that a
  report between its steps holds its share's row, so that the limit it read, its
  finding whether the event is new and its check of the total are still true when it
  writes; two such reports are about different shares. The totals are cardinalities
  of sets of events, so `FiniteDays` carries their finiteness along.
* `LedgerImplemented`: `ImplementsLedger`. The step that counts maps to the ledger's
  entry, since the total it checked is by `TotalsMatchEvents` the ledger's own count;
  the change of a limit and midnight map to themselves and every other step to a
  stutter.

`AccountLifecycle_proofs`:

* `AccountTyping`, `SessionsEnd` and `EstablishedKept`: `TypeOK`, `SessionsEndWithAccount` and
  `EstablishedAccountsKept`, from `AccountInv`. It adds that a transition holds its target's
  row from its read to its end (`LocksHeld`), that its target exists (`TargetsExist`), and
  that one which is to commit still has every open session of its target among those it
  ends (`RevokesAll`): a session inserted meanwhile would need the key-share lock that the
  transition denies it. `EstablishedKept` needs none of this but the order of the
  statements: `PromoteEffect` says that the promotion leaves an administrator among any
  accounts, `InsertEffect` that the insert then adds none.
* `AdminRemains`: `ActiveAdminRemains` of the behaviours in which `RemovalsDoNotOverlap`.
  `AdminStays` says that a transition which has counted another administrator still finds
  it when it writes; `CountFindsOther` turns the count into that administrator.

`HapiMailbox_proofs`:

* `MailboxTyping` and `LeaseFollows`: `TypeOK` and `LeaseFollowsRequest`. `MailboxInv` adds
  that a request is answered once, in its last step, and holds its lease until
  then; that two polls never hold one row; and that a poll takes only what waits.
* `Implementation`: `ImplementsQueue`. A poll's commit is the abstract poll: of the rows
  it took, all still wait, because nobody else may touch them.
* `DeliveredOnce`: a command is given once at most. `QueueInv` of `CommandQueue` (what waits was
  not given and stands under its own id) is shown inductive for the steps of the queue,
  under the refinement mapping, with no proof about rows and locks.

`Pairing_proofs`, about a device with its claims:

* `PairingTyping`, `TokensOfOwner`, `ResetOfLastOwner`, `ConfirmedDevice`:
  `TypeOK`, `TokensBelongToOwner`, `ResetIsLastOwners` and `ConfirmedForOwner`. `DeviceInv` adds that the owner of an active device has not unbound
  it since (`ActiveIsNotUnbound`): the code issues tokens to the account of an active
  row, and only with this does it follow that they are not those of an account that
  unbound the device.
* `CodeUsedOnce`: `UsedUpOnce`. `ClaimInv` adds that a confirmation between its statements
  holds the row of a claim that is open and of its account (`InStep`), and that only such
  a confirmation holds a claim's row (`InOrder`).

`SigningKey_proofs`: `KeyTyping` is `TypeOK`, `Agreement` is `OneKey`. The latter is not
inductive by itself: the strengthening says that what has been used is what the
database holds (`UsedIsStored`) and that whoever serves without a key of its own has
used its key (`OwnKeyIsUsed`).

Only model-checked: all liveness (`LockReleased`, `RevokedPeerLeaves` and the others run
under a `FairSpec`), since it needs ENABLED, which the prover does not reason about.
Every safety property of the passing runs is proved. The three violations are counterexamples of
the models and need no proof.

## Not modelled

Headers, paths and encodings of what is relayed, and how net/http marks the end
of a response: the code ends a truncated one by an ordinary return
(hapi_gateway.go:202), and the models say which is which by `ending`; cryptography of tickets
and envelopes; password hashing; the descriptive columns of devices and agents,
settings, the agent directory with its preferred device, and the audit log, which
no other part reads to decide anything; the clock as a number (a time that runs out is an
action); a loss of the database connection after a commit and before its
acknowledgement; deployment scripts. Serialization failures do not occur at READ
COMMITTED; deadlocks between transactions, which PostgreSQL resolves by
aborting one, are the `Abort` actions.

## Plan

1. (done) `Tunnel`, its runs, type invariant and registry theorems.
2. (done) The database components: `AccountLifecycle`, `ShareAccess`, `ShareUsage`,
   `HapiMailbox`, `SigningKey`, `DeviceLifecycle` with its reset, and `Pairing` composed
   with it.
3. (done) `GatewayStream`: one proxied request frame by frame.
4. (done) The abstract `CommandQueue`, `UsageLedger` and `AgentRegistry` and their refinements.
5. (done) Proofs of every safety property the passing runs check, of the three
   refinements, and of the condition under which an administrator remains.
6. Compositions still open: `HapiMailbox` with the leases of `ShareAccess` (a share
   revoked while its command waits), and `ShareAccess` with `AccountLifecycle`.
