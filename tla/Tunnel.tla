------------------------------- MODULE Tunnel -------------------------------
(***************************************************************************)
(* The in-memory relay of internal/api/tunnel.go and hapi_gateway.go, for   *)
(* one tunnelKey: the websocket handlers of an agent and of the phones      *)
(* ("mobiles") that talk to it, the HTTP requests proxied to the agent      *)
(* ("gateways"), and the realtime discovery calls waiting for its answer.   *)
(* Each identity stands for one connection, request or call and is used     *)
(* once.  A step is a critical section of hapiTunnel.mu, or what a          *)
(* goroutine does between two of them; attaching an agent keeps mu while it *)
(* sends, so mu is a variable.                                              *)
(***************************************************************************)
EXTENDS Naturals, Sequences, FiniteSets

CONSTANTS
    Agents,           \* connections with role=agent
    GatewayAgents,    \* those that connect with gateway=1
    DiscoveryAgents,  \* those that connect with discovery=1
    Mobiles,          \* connections with role=mobile
    Gateways,         \* proxied HTTP requests
    Calls,            \* requestDiscovery calls
    RequestIds,       \* request ids of the discovery calls
    RequestIdOf,      \* the request id of each call
    Revocable,        \* connections and requests whose access may end
    Casts,            \* who may take part: each behaviour has one of these sets
    MaxMobiles,       \* phones per agent (4 in the code)
    MaxGateways,      \* proxied requests per agent (128)
    SendCap,          \* frames queued to a peer (8)
    FrameCap,         \* response frames queued to a request (32)
    MaxParts,         \* frames of a long request body: start, chunks, end
    None

Peers == Agents \cup Mobiles
Procs == Peers \cup Gateways \cup Calls

ASSUME TunnelAssumption ==
    /\ GatewayAgents \subseteq Agents /\ DiscoveryAgents \subseteq Agents
    /\ Revocable \subseteq Peers \cup Gateways /\ Casts \subseteq SUBSET Procs
    /\ Agents \cap Mobiles = {} /\ Peers \cap Gateways = {}
    /\ (Peers \cup Gateways) \cap Calls = {} /\ Procs \cap RequestIds = {}
    /\ None \notin Procs \cup RequestIds \cup {"answer", "error"}
    /\ RequestIdOf \in [Calls -> RequestIds]
    /\ {MaxMobiles, MaxGateways, SendCap, FrameCap, MaxParts} \subseteq Nat \ {0}

VARIABLES
    mu,           \* the agent whose attach holds hapiTunnel.mu, or None
    agent,        \* agents[key]
    mobiles,      \* mobiles[key]
    gateways,     \* gateways[key]
    discoveries,  \* discoveries[key]: the call registered for each request id
    closed,       \* the peers and gateways whose closed channel is closed
    writing,      \* the peers whose writeLoop runs
    queue,        \* peer.send
    frames,       \* gateway.frames, each frame by the agent it came from
    waiter,       \* the result in each call's waiter channel, or None
    pc,           \* where each goroutine is
    held,         \* what it took out of a map under mu and uses after unlock
    todo,         \* what an agent's attach or detach still has to visit
    left,         \* the frames a gateway has still to send
    revoked,      \* the peers and gateways whose session or access has ended
    seen,         \* the gateways and request ids an agent process was told of
    under,        \* (history) the agent each gateway was attached under
    asked         \* (history) the agent each call was registered for

registry == <<agent, mobiles, gateways, discoveries>>
channels == <<closed, writing, queue, frames, waiter>>
control  == <<pc, held, todo, left>>
vars == <<mu, registry, channels, control, revoked, seen, under, asked>>

\* A tunnelMessage by what its receiver learns from it: the request of a
\* gateway_data frame, the id of a connection_request, or nothing an answer
\* depends on (ready, agent_online, agent_offline, invalid_frame, data,
\* disconnect).
Notice == None
Message == Gateways \cup RequestIds \cup {Notice}

PeerPc == {"idle", "connect", "announce", "ready", "state", "online", "offline",
           "read", "reject", "forward", "answer", "deliver",
           "detach", "evict", "disconnect", "done"}
GatewayPc == {"idle", "connect", "body", "frames", "stream", "write", "detach",
              "disconnect", "done"}
CallPc == {"idle", "ask", "wait", "cleanup", "done"}

\* The handler of a peer between its attach and its detach.
Attached == {"announce", "ready", "state", "online", "offline", "read",
             "reject", "forward", "answer", "deliver", "detach"}
\* A proxied request between its attach and its detach.
Proxied == {"body", "frames", "stream", "write", "detach"}

Init ==
    /\ mu = None /\ agent = None
    /\ mobiles = {} /\ gateways = {}
    /\ discoveries = [r \in RequestIds |-> None]
    /\ closed = {} /\ writing = {}
    /\ queue = [p \in Peers |-> <<>>]
    /\ frames = [g \in Gateways |-> <<>>]
    /\ waiter = [c \in Calls |-> None]
    /\ \E cast \in Casts : pc = [x \in Procs |-> IF x \in cast THEN "idle" ELSE "done"]
    /\ held = [x \in Procs |-> None]
    /\ todo = [a \in Agents |-> {}]
    /\ left = [g \in Gateways |-> 0]
    /\ revoked = {} /\ seen = {}
    /\ under = [g \in Gateways |-> None] /\ asked = [c \in Calls |-> None]

Unlocked == mu = None
Goto(x, label) == pc' = [pc EXCEPT ![x] = label]

-----------------------------------------------------------------------------
(* sendControl: the frame is queued, or the peer is closed already, or its   *)
(* queue stays full for five seconds and the peer is closed.                 *)

Queued(p, m) ==
    /\ Len(queue[p]) < SendCap
    /\ queue' = [queue EXCEPT ![p] = Append(@, m)]
    /\ UNCHANGED closed

\* (mutant) no five-second timer
NotQueuedWithoutTimer(p) ==
    /\ p \in closed
    /\ UNCHANGED <<closed, queue>>

NotQueued(p) ==
    /\ p \in closed \/ Len(queue[p]) >= SendCap
    /\ closed' = closed \cup {p}
    /\ UNCHANGED queue

sendControl(p, m) == Queued(p, m) \/ NotQueued(p)

-----------------------------------------------------------------------------
(* hapiTunnel: the access check, attach, the first status frames.            *)

\* The session or the access lease of a connection ends in the database.
Revoke(x) ==
    /\ x \in Revocable \ revoked
    /\ revoked' = revoked \cup {x}
    /\ UNCHANGED <<mu, registry, channels, control, seen, under, asked>>

\* The access check of a websocket or of a proxied request.
Connect(x) ==
    /\ pc[x] = "idle"
    /\ Goto(x, IF x \in revoked THEN "done" ELSE "connect")
    /\ UNCHANGED <<mu, registry, channels, held, todo, left, revoked, seen, under, asked>>

\* delete(t.gateways, peer.key)
ForgetNothing == UNCHANGED gateways  \* (mutant)
ForgetGateways == gateways' = {}

\* The peers and gateways an attaching agent closes.
SupersededAgent == {agent} \ {None}  \* (mutant)
SupersededGateways == gateways       \* (mutant)
Superseded == ({agent} \ {None}) \cup gateways

AttachAgent(a) ==
    /\ pc[a] = "connect" /\ Unlocked
    /\ mu' = a
    /\ closed' = closed \cup Superseded
    /\ ForgetGateways
    /\ agent' = a
    /\ todo' = [todo EXCEPT ![a] = mobiles]
    /\ Goto(a, "announce")
    /\ UNCHANGED <<mobiles, discoveries, writing, queue, frames, waiter,
                   held, left, revoked, seen, under, asked>>

\* attach sends agent_online to one mobile; mu stays held.
AnnounceOnline(a) ==
    /\ pc[a] = "announce"
    /\ \E m \in todo[a] :
          /\ sendControl(m, Notice)
          /\ todo' = [todo EXCEPT ![a] = @ \ {m}]
    /\ UNCHANGED <<mu, registry, writing, frames, waiter, pc, held, left,
                   revoked, seen, under, asked>>

\* attach unlocks and the handler starts the peer's writeLoop.
AnnounceDone(a) ==
    /\ pc[a] = "announce" /\ todo[a] = {}
    /\ mu' = None
    /\ writing' = writing \cup {a}
    /\ Goto(a, "ready")
    /\ UNCHANGED <<registry, closed, queue, frames, waiter, held, todo, left,
                   revoked, seen, under, asked>>

\* Detaching agents whose range over the live mobiles map is not finished.
Iterating == {a \in Agents : pc[a] = "evict" /\ todo[a] \cap Mobiles # {}}

AttachMobile(m) ==
    /\ pc[m] = "connect" /\ Unlocked
    /\ Cardinality(mobiles) < MaxMobiles
    /\ mobiles' = mobiles \cup {m}
    /\ writing' = writing \cup {m}
    /\ \E joined \in SUBSET Iterating :
          todo' = [a \in Agents |->
                     IF a \in joined THEN todo[a] \cup {m} ELSE todo[a]]
    /\ Goto(m, "ready")
    /\ UNCHANGED <<mu, agent, gateways, discoveries, closed, queue, frames,
                   waiter, held, left, revoked, seen, under, asked>>

RefuseMobile(m) ==
    /\ pc[m] = "connect" /\ Unlocked
    /\ Cardinality(mobiles) >= MaxMobiles
    /\ closed' = closed \cup {m}
    /\ Goto(m, "done")
    /\ UNCHANGED <<mu, registry, writing, queue, frames, waiter, held, todo,
                   left, revoked, seen, under, asked>>

\* The mobile's handler looks once whether an agent is there.
InitialState(m) ==
    /\ pc[m] = "state" /\ Unlocked
    /\ Goto(m, IF agent = None THEN "offline" ELSE "online")
    /\ UNCHANGED <<mu, registry, channels, held, todo, left, revoked, seen, under, asked>>

\* A handler sends ready, agent_online, agent_offline or invalid_frame to its
\* own peer.
SendOwn(p) ==
    /\ pc[p] \in {"ready", "online", "offline", "reject"}
    /\ sendControl(p, Notice)
    /\ Goto(p, IF pc[p] = "ready" /\ p \in Mobiles THEN "state" ELSE "read")
    /\ UNCHANGED <<mu, registry, writing, frames, waiter, held, todo, left,
                   revoked, seen, under, asked>>

-----------------------------------------------------------------------------
(* readLoop.  ReceiveX is the lookup under mu of a received frame, the step  *)
(* after it what the handler does with the peer, gateway or waiter it found. *)
(* A frame that finds nothing is dropped and not modelled.                   *)

\* Neither data nor, from an agent, one of the frames an agent may send.
ReceiveInvalid(p) ==
    /\ pc[p] = "read"
    /\ Goto(p, "reject")
    /\ UNCHANGED <<mu, registry, channels, held, todo, left, revoked, seen, under, asked>>

ReceiveFromMobile(m) ==
    /\ pc[m] = "read" /\ Unlocked
    /\ held' = [held EXCEPT ![m] = agent]
    /\ Goto(m, IF agent = None THEN "offline" ELSE "forward")
    /\ UNCHANGED <<mu, registry, channels, todo, left, revoked, seen, under, asked>>

\* data for a mobile, which the agent names by its connection id.
ReceiveForMobile(a) ==
    /\ pc[a] = "read" /\ Unlocked
    /\ \E m \in mobiles : held' = [held EXCEPT ![a] = m]
    /\ Goto(a, "forward")
    /\ UNCHANGED <<mu, registry, channels, todo, left, revoked, seen, under, asked>>

Forward(p) ==
    /\ pc[p] = "forward"
    /\ sendControl(held[p], Notice)
    /\ held' = [held EXCEPT ![p] = None]
    /\ Goto(p, "read")
    /\ UNCHANGED <<mu, registry, writing, frames, waiter, todo, left, revoked,
                   seen, under, asked>>

\* An agent answers only what an agent process was told of (connection ids
\* are random).  What a superseded agent had sent before it was closed names
\* gateways that are deregistered by then: dropped.
MayAnswer(a) == pc[a] = "read" /\ Unlocked /\ (a \notin closed \/ agent = a)

\* deliverGateway
ReceiveForGateway(a) ==
    /\ MayAnswer(a)
    /\ \E g \in gateways \cap seen : held' = [held EXCEPT ![a] = g]
    /\ Goto(a, "deliver")
    /\ UNCHANGED <<mu, registry, channels, todo, left, revoked, seen, under, asked>>

\* The response frame is queued, or the request is closed, or its queue stays
\* full for ten seconds and the request is closed.
DeliverFrame(a) ==
    /\ pc[a] = "deliver"
    /\ LET g == held[a] IN
         \/ /\ Len(frames[g]) < FrameCap
            /\ frames' = [frames EXCEPT ![g] = Append(@, a)]
            /\ UNCHANGED closed
         \/ /\ g \in closed \/ Len(frames[g]) >= FrameCap
            /\ closed' = closed \cup {g}
            /\ UNCHANGED frames
    /\ held' = [held EXCEPT ![a] = None]
    /\ Goto(a, "read")
    /\ UNCHANGED <<mu, registry, writing, queue, waiter, todo, left, revoked,
                   seen, under, asked>>

\* deliverDiscovery: only the current agent's answer counts.
ReceiveAnswer(a) ==
    /\ MayAnswer(a) /\ agent = a
    /\ \E r \in RequestIds \cap seen :
          /\ discoveries[r] # None
          /\ held' = [held EXCEPT ![a] = discoveries[r]]
    /\ Goto(a, "answer")
    /\ UNCHANGED <<mu, registry, channels, todo, left, revoked, seen, under, asked>>

\* Both senders to a waiter drop their result when it has one already.
Resolve(c, result) ==
    waiter' = [waiter EXCEPT ![c] = IF @ = None THEN result ELSE @]

DeliverAnswer(a) ==
    /\ pc[a] = "answer"
    /\ Resolve(held[a], "answer")
    /\ held' = [held EXCEPT ![a] = None]
    /\ Goto(a, "read")
    /\ UNCHANGED <<mu, registry, closed, writing, queue, frames, todo, left,
                   revoked, seen, under, asked>>

\* ReadMessage fails and detach closes the peer: the client went away, its
\* pongs stopped, or the server closed the connection.
ReadEnds(p) ==
    /\ pc[p] = "read"
    /\ closed' = closed \cup {p}
    /\ Goto(p, "detach")
    /\ UNCHANGED <<mu, registry, writing, queue, frames, waiter, held, todo,
                   left, revoked, seen, under, asked>>

-----------------------------------------------------------------------------
(* writeLoop                                                                *)

\* A frame leaves the queue; writing it may fail.
WriteFrame(p) ==
    /\ p \in writing /\ queue[p] # <<>>
    /\ queue' = [queue EXCEPT ![p] = Tail(@)]
    /\ \/ /\ p \notin closed
          /\ seen' = seen \cup ({Head(queue[p])} \ {Notice})
          /\ UNCHANGED <<closed, writing>>
       \/ /\ closed' = closed \cup {p}
          /\ writing' = writing \ {p}
          /\ UNCHANGED seen
    /\ UNCHANGED <<mu, registry, frames, waiter, control, revoked, under, asked>>

\* (mutant) the writer stops without closing the peer
PingFailsSilently(p) ==
    /\ p \in writing
    /\ writing' = writing \ {p}
    /\ UNCHANGED <<mu, registry, closed, queue, frames, waiter, control,
                   revoked, seen, under, asked>>

\* The periodic ping: the session is no longer valid, or the ping fails.
PingFails(p) ==
    /\ p \in writing
    /\ closed' = closed \cup {p}
    /\ writing' = writing \ {p}
    /\ UNCHANGED <<mu, registry, queue, frames, waiter, control, revoked, seen, under, asked>>

WriterStops(p) ==
    /\ p \in writing \cap closed
    /\ writing' = writing \ {p}
    /\ UNCHANGED <<mu, registry, closed, queue, frames, waiter, control,
                   revoked, seen, under, asked>>

-----------------------------------------------------------------------------
(* detach                                                                   *)

\* if t.agents[peer.key] == peer
AlwaysCurrent(a) == a \in Agents  \* (mutant)
IsCurrent(a) == agent = a

\* The current agent leaves: it empties the maps and remembers what to visit.
DetachAgent(a) ==
    /\ pc[a] = "detach" /\ Unlocked
    /\ IsCurrent(a)
    /\ agent' = None
    /\ ForgetGateways
    /\ discoveries' = [r \in RequestIds |-> None]
    /\ todo' = [todo EXCEPT ![a] = gateways \cup mobiles \cup
                    ({discoveries[r] : r \in RequestIds} \ {None})]
    /\ Goto(a, "evict")
    /\ UNCHANGED <<mu, mobiles, channels, held, left, revoked, seen, under, asked>>

\* An agent that was replaced leaves everything to its successor.
DetachReplacedAgent(a) ==
    /\ pc[a] = "detach" /\ Unlocked
    /\ ~IsCurrent(a)
    /\ Goto(a, "done")
    /\ UNCHANGED <<mu, registry, channels, held, todo, left, revoked, seen, under, asked>>

Visited(a, x) == todo' = [todo EXCEPT ![a] = @ \ {x}]

EvictGateway(a) ==
    /\ pc[a] = "evict"
    /\ \E g \in todo[a] \cap Gateways :
          closed' = closed \cup {g} /\ Visited(a, g)
    /\ UNCHANGED <<mu, registry, writing, queue, frames, waiter, pc, held, left,
                   revoked, seen, under, asked>>

EvictMobile(a) ==
    /\ pc[a] = "evict" /\ todo[a] \cap Gateways = {}
    /\ \E m \in todo[a] \cap Mobiles :
          sendControl(m, Notice) /\ Visited(a, m)
    /\ UNCHANGED <<mu, registry, writing, frames, waiter, pc, held, left,
                   revoked, seen, under, asked>>

EvictCall(a) ==
    /\ pc[a] = "evict" /\ todo[a] \subseteq Calls
    /\ \E c \in todo[a] : Resolve(c, "error") /\ Visited(a, c)
    /\ UNCHANGED <<mu, registry, closed, writing, queue, frames, pc, held, left,
                   revoked, seen, under, asked>>

EvictDone(a) ==
    /\ pc[a] = "evict" /\ todo[a] = {}
    /\ Goto(a, "done")
    /\ UNCHANGED <<mu, registry, channels, held, todo, left, revoked, seen, under, asked>>

\* delete(peers, connectionID); a range in progress no longer yields it.
LeakSlot(m) == UNCHANGED <<mobiles, todo>>  \* (mutant)
FreeSlot(m) ==
    /\ mobiles' = mobiles \ {m}
    /\ todo' = [a \in Agents |-> todo[a] \ {m}]

DetachMobile(m) ==
    /\ pc[m] = "detach" /\ Unlocked
    /\ FreeSlot(m)
    /\ held' = [held EXCEPT ![m] = agent]
    /\ Goto(m, IF agent = None THEN "done" ELSE "disconnect")
    /\ UNCHANGED <<mu, agent, gateways, discoveries, channels, left, revoked,
                   seen, under, asked>>

\* A mobile or a gateway that left tells the agent it captured.
Disconnect(x) ==
    /\ pc[x] = "disconnect"
    /\ sendControl(held[x], Notice)
    /\ held' = [held EXCEPT ![x] = None]
    /\ Goto(x, "done")
    /\ UNCHANGED <<mu, registry, writing, frames, waiter, todo, left, revoked,
                   seen, under, asked>>

\* detach ranges over the mobiles map after it unlocked mu while attach and
\* detach of a mobile write that map: the runtime may stop the whole process
\* ("concurrent map iteration and map write").
MapRace ==
    /\ Unlocked /\ Iterating # {}
    /\ \E m \in Mobiles : \/ pc[m] = "detach"
                          \/ pc[m] = "connect" /\ Cardinality(mobiles) < MaxMobiles
    /\ mu' = None /\ agent' = None
    /\ mobiles' = {} /\ gateways' = {}
    /\ discoveries' = [r \in RequestIds |-> None]
    /\ closed' = Peers \cup Gateways /\ writing' = {}
    /\ pc' = [x \in Procs |-> "done"]
    /\ held' = [x \in Procs |-> None]
    /\ todo' = [a \in Agents |-> {}]
    /\ UNCHANGED <<queue, frames, waiter, left, revoked, seen, under, asked>>

-----------------------------------------------------------------------------
(* hapiGateway: attachGateway, the request frames, the response, detach.     *)

AttachGateway(g) ==
    /\ pc[g] = "connect" /\ Unlocked
    /\ agent \in GatewayAgents /\ Cardinality(gateways) < MaxGateways
    /\ gateways' = gateways \cup {g}
    /\ under' = [under EXCEPT ![g] = agent]
    /\ Goto(g, "body")
    /\ UNCHANGED <<mu, agent, mobiles, discoveries, channels, held, todo, left,
                   revoked, seen, asked>>

RefuseGateway(g) ==
    /\ pc[g] = "connect" /\ Unlocked
    /\ agent \notin GatewayAgents \/ Cardinality(gateways) >= MaxGateways
    /\ Goto(g, "done")
    /\ UNCHANGED <<mu, registry, channels, held, todo, left, revoked, seen, under, asked>>

\* The body is read and goes inline or in parts; or it cannot be read.
ReadBody(g) ==
    /\ pc[g] = "body"
    /\ \/ left' \in {[left EXCEPT ![g] = n] : n \in {1, MaxParts}} /\ Goto(g, "frames")
       \/ Goto(g, "detach") /\ UNCHANGED left
    /\ UNCHANGED <<mu, registry, channels, held, todo, revoked, seen, under, asked>>

\* sendGatewayFrame looks the agent up again for every frame.
PickAgent(g) ==
    /\ pc[g] = "frames" /\ held[g] = None /\ Unlocked
    /\ held' = [held EXCEPT ![g] = agent]
    /\ Goto(g, IF agent = None THEN "detach" ELSE "frames")
    /\ UNCHANGED <<mu, registry, channels, todo, left, revoked, seen, under, asked>>

LastPartOffByOne(g) == left[g] = 0  \* (mutant)
LastPart(g) == left[g] = 1

SendFrame(g) ==
    /\ pc[g] = "frames" /\ held[g] # None
    /\ \/ /\ Queued(held[g], g)
          /\ left' = [left EXCEPT ![g] = @ - 1]
          /\ Goto(g, IF LastPart(g) THEN "stream" ELSE "frames")
       \/ /\ NotQueued(held[g])
          /\ Goto(g, "detach")
          /\ UNCHANGED left
    /\ held' = [held EXCEPT ![g] = None]
    /\ UNCHANGED <<mu, registry, writing, frames, waiter, todo, revoked, seen, under, asked>>

\* streamGatewayResponse takes a frame: it ends the response (an end, error or
\* bad frame), is passed on to the client, or changes nothing.
TakeFrame(g) ==
    /\ pc[g] = "stream" /\ frames[g] # <<>>
    /\ frames' = [frames EXCEPT ![g] = Tail(@)]
    /\ \E l \in {"stream", "write", "detach"} : Goto(g, l)
    /\ UNCHANGED <<mu, registry, closed, writing, queue, waiter, held, todo,
                   left, revoked, seen, under, asked>>

\* Writing has no deadline: it ends when the client reads or leaves.
WriteChunk(g) ==
    /\ pc[g] = "write"
    /\ Goto(g, "stream") \/ Goto(g, "detach")
    /\ UNCHANGED <<mu, registry, channels, held, todo, left, revoked, seen, under, asked>>

\* No response in time, access ended, request closed, or the client is gone.
StreamEnds(g) ==
    /\ pc[g] = "stream"
    /\ Goto(g, "detach")
    /\ UNCHANGED <<mu, registry, channels, held, todo, left, revoked, seen, under, asked>>

Remaining(g) == gateways  \* (mutant)
OtherGateways(g) == gateways \ {g}

DetachGateway(g) ==
    /\ pc[g] = "detach" /\ Unlocked
    /\ gateways' = OtherGateways(g)
    /\ closed' = closed \cup {g}
    /\ held' = [held EXCEPT ![g] = agent]
    /\ Goto(g, IF agent = None THEN "done" ELSE "disconnect")
    /\ UNCHANGED <<mu, agent, mobiles, discoveries, writing, queue, frames,
                   waiter, todo, left, revoked, seen, under, asked>>

-----------------------------------------------------------------------------
(* requestDiscovery                                                         *)

Supported == agent \in DiscoveryAgents

Register(c) ==
    /\ pc[c] = "idle" /\ Unlocked
    /\ Supported /\ discoveries[RequestIdOf[c]] = None
    /\ discoveries' = [discoveries EXCEPT ![RequestIdOf[c]] = c]
    /\ held' = [held EXCEPT ![c] = agent]
    /\ asked' = [asked EXCEPT ![c] = agent]
    /\ Goto(c, "ask")
    /\ UNCHANGED <<mu, agent, mobiles, gateways, channels, todo, left, revoked,
                   seen, under>>

\* errDiscoveryUnsupported, or errDiscoveryUnavailable for an id in use.
RefuseCall(c) ==
    /\ pc[c] = "idle" /\ Unlocked
    /\ ~Supported \/ discoveries[RequestIdOf[c]] # None
    /\ Goto(c, "done")
    /\ UNCHANGED <<mu, registry, channels, held, todo, left, revoked, seen, under, asked>>

Ask(c) ==
    /\ pc[c] = "ask"
    /\ \/ Queued(held[c], RequestIdOf[c]) /\ Goto(c, "wait")
       \/ NotQueued(held[c]) /\ Goto(c, "cleanup")
    /\ held' = [held EXCEPT ![c] = None]
    /\ UNCHANGED <<mu, registry, writing, frames, waiter, todo, left, revoked,
                   seen, under, asked>>

\* The result, the two-second timer or the client's cancellation.
WaitEnds(c) ==
    /\ pc[c] = "wait"
    /\ Goto(c, "cleanup")
    /\ UNCHANGED <<mu, registry, channels, held, todo, left, revoked, seen, under, asked>>

AnyRegistration(c) == discoveries[RequestIdOf[c]] # None  \* (mutant)
\* The registration is removed only if it is still this call's.
OwnRegistration(c) == discoveries[RequestIdOf[c]] = c

Cleanup(c) ==
    /\ pc[c] = "cleanup" /\ Unlocked
    /\ discoveries' = IF OwnRegistration(c)
                      THEN [discoveries EXCEPT ![RequestIdOf[c]] = None]
                      ELSE discoveries
    /\ Goto(c, "done")
    /\ UNCHANGED <<mu, agent, mobiles, gateways, channels, held, todo, left,
                   revoked, seen, under, asked>>

-----------------------------------------------------------------------------
\* Every connection, request and call has ended.
Terminated == (\A x \in Procs : pc[x] = "done") /\ UNCHANGED vars

AgentStep(a) ==
    \/ AttachAgent(a) \/ AnnounceOnline(a) \/ AnnounceDone(a)
    \/ ReceiveForMobile(a) \/ ReceiveForGateway(a) \/ DeliverFrame(a)
    \/ ReceiveAnswer(a) \/ DeliverAnswer(a)
    \/ DetachAgent(a) \/ DetachReplacedAgent(a)
    \/ EvictGateway(a) \/ EvictMobile(a) \/ EvictCall(a) \/ EvictDone(a)

MobileStep(m) ==
    \/ AttachMobile(m) \/ RefuseMobile(m) \/ InitialState(m)
    \/ ReceiveFromMobile(m) \/ DetachMobile(m)

PeerStep(p) ==
    \/ SendOwn(p) \/ ReceiveInvalid(p) \/ Forward(p) \/ ReadEnds(p)
    \/ WriteFrame(p) \/ PingFails(p) \/ WriterStops(p)

GatewayStep(g) ==
    \/ AttachGateway(g) \/ RefuseGateway(g) \/ ReadBody(g) \/ PickAgent(g)
    \/ SendFrame(g) \/ TakeFrame(g) \/ WriteChunk(g) \/ StreamEnds(g)
    \/ DetachGateway(g)

CallStep(c) == Register(c) \/ RefuseCall(c) \/ Ask(c) \/ WaitEnds(c) \/ Cleanup(c)

Next ==
    \/ \E x \in Revocable : Revoke(x)
    \/ \E x \in Peers \cup Gateways : Connect(x)
    \/ \E a \in Agents : AgentStep(a)
    \/ \E m \in Mobiles : MobileStep(m)
    \/ \E p \in Peers : PeerStep(p)
    \/ \E x \in Mobiles \cup Gateways : Disconnect(x)
    \/ \E g \in Gateways : GatewayStep(g)
    \/ \E c \in Calls : CallStep(c)
    \/ MapRace
    \/ Terminated

Spec == Init /\ [][Next]_vars

\* What the server does by itself: every send, lock and timer ends.  Whether a
\* peer connects, sends, reads or leaves, and when a body arrives, is not assumed.
Obliged(x) ==
    \/ x \in Agents /\ \/ AnnounceOnline(x) \/ AnnounceDone(x)
                       \/ DeliverFrame(x) \/ DeliverAnswer(x)
                       \/ DetachAgent(x) \/ DetachReplacedAgent(x)
                       \/ EvictGateway(x) \/ EvictMobile(x)
                       \/ EvictCall(x) \/ EvictDone(x)
    \/ x \in Mobiles /\ (InitialState(x) \/ DetachMobile(x))
    \/ x \in Peers /\ (SendOwn(x) \/ Forward(x))
    \/ x \in Mobiles \cup Gateways /\ Disconnect(x)
    \/ x \in Gateways /\ \/ PickAgent(x) \/ SendFrame(x) \/ DetachGateway(x)
                         \/ x \in closed \cup revoked /\ StreamEnds(x)
    \/ x \in Calls /\ (Ask(x) \/ WaitEnds(x) \/ Cleanup(x))

Fairness ==
    /\ \A x \in Procs : WF_vars(Obliged(x))
    /\ \A p \in Peers : /\ WF_vars(p \in revoked /\ PingFails(p))
                        \* a closed connection has finitely many frames left
                        /\ SF_vars(p \in closed /\ ReadEnds(p))

FairSpec == Spec /\ Fairness

-----------------------------------------------------------------------------
(* Properties                                                               *)

\* Type invariant of the maps, channels and goroutines: what a goroutine took
\* out of a map has the kind its next step needs.
TypeOK ==
    /\ mu \in Agents \cup {None} /\ agent \in Agents \cup {None}
    /\ mobiles \subseteq Mobiles /\ gateways \subseteq Gateways
    /\ discoveries \in [RequestIds -> Calls \cup {None}]
    /\ closed \subseteq Peers \cup Gateways /\ writing \subseteq Peers
    /\ queue \in [Peers -> Seq(Message)]
    /\ frames \in [Gateways -> Seq(Agents)]
    /\ waiter \in [Calls -> {"answer", "error", None}]
    /\ pc \in [Procs -> PeerPc \cup GatewayPc \cup CallPc]
    /\ held \in [Procs -> Procs \cup {None}]
    /\ \A a \in Agents : /\ pc[a] = "forward" => held[a] \in Mobiles
                         /\ pc[a] = "deliver" => held[a] \in Gateways
                         /\ pc[a] = "answer" => held[a] \in Calls
    /\ \A m \in Mobiles : pc[m] \in {"forward", "disconnect"} => held[m] \in Agents
    /\ \A g \in Gateways : /\ pc[g] = "disconnect" => held[g] \in Agents
                           /\ pc[g] = "frames" => held[g] \in Agents \cup {None}
                           /\ pc[g] \notin {"disconnect", "frames"} => held[g] = None
                           /\ pc[g] = "frames" => left[g] > 0
    /\ \A c \in Calls : pc[c] = "ask" => held[c] \in Agents
    /\ todo \in [Agents -> SUBSET Procs]
    /\ \A a \in Agents : pc[a] = "announce" => todo[a] \subseteq Mobiles
    /\ left \in [Gateways -> 0..MaxParts]
    /\ revoked \subseteq Peers \cup Gateways
    /\ seen \subseteq Gateways \cup RequestIds
    /\ under \in [Gateways -> Agents \cup {None}]
    /\ asked \in [Calls -> Agents \cup {None}]

\* The maps hold exactly the live handlers: a registered agent's handler still
\* runs, and a running agent handler that is not the registered one has been
\* closed by its successor (attach, detach).
RegistryMatchesHandlers ==
    /\ agent # None => pc[agent] \in Attached
    /\ \A a \in Agents : pc[a] \in Attached /\ a \notin closed => agent = a

\* A mobile holds one of the four slots exactly from its attach to its detach,
\* and then leaves no trace in an agent's list (attach, detach).
MobileHoldsSlot ==
    \A m \in Mobiles : /\ m \in mobiles <=> pc[m] \in Attached
                       /\ \A a \in Agents : m \in todo[a] => m \in mobiles

\* Every registered request was accepted by the agent that is registered now,
\* which offers the gateway, and its handler still runs: no request survives its
\* agent in the map and none of the 128 slots leaks (attach, detach, attachGateway).
GatewaysBelongToAgent ==
    \A g \in gateways : /\ under[g] = agent /\ agent \in GatewayAgents
                        /\ pc[g] \in Proxied

\* A response only ever carries frames of the agent the request was accepted
\* under, although deliverGateway does not check who sends the frame.
ResponseFromOwnAgent ==
    \A g \in Gateways : \A i \in DOMAIN frames[g] : frames[g][i] = under[g]

\* A call that waits can be reached: it is registered, has its result, or is on
\* the list of the detach that will fail it; and what is registered under a
\* request id is a call of that id that has not ended (requestDiscovery's
\* deferred cleanup, detach).
WaiterReachable ==
    /\ \A c \in Calls :
          pc[c] \in {"ask", "wait"} =>
              \/ discoveries[RequestIdOf[c]] = c \/ waiter[c] # None
              \/ \E a \in Agents : pc[a] = "evict" /\ c \in todo[a]
    /\ \A r \in RequestIds : discoveries[r] # None =>
          /\ RequestIdOf[discoveries[r]] = r
          /\ pc[discoveries[r]] \in {"ask", "wait", "cleanup"}

\* An agent loses its registration only by its own detach or to a newer agent's
\* attach: the late detach of a replaced agent never evicts its successor.
SuccessorIsNotEvicted ==
    [][agent # None /\ agent' = None =>
          pc[agent] = "detach" \/ pc'[agent] = "done"]_vars

\* Whom an agent's detach visits after unlocking is never a successor's: it closes
\* only requests the agent itself had accepted, and fails a discovery call only if
\* the agent it was registered for, this one or one that was replaced while the call
\* waited, has lost its connection (detach).
EvictsOnlyItsOwn ==
    [][\A a \in Agents : pc[a] = "evict" =>
          /\ \A g \in (todo[a] \ todo'[a]) \cap Gateways : under[g] = a
          /\ \A c \in (todo[a] \ todo'[a]) \cap Calls : asked[c] \in closed]_vars

\* However attaching, detaching and what a detach visits after its unlock
\* interleave, an agent takes over or leaves in one step, and cuts off in it every
\* request it had accepted (attach, attachGateway, detach).
Listed == UNION {todo[a] : a \in {b \in Agents : pc[b] = "evict"}}
Promised == INSTANCE AgentRegistry WITH
    Requests <- Gateways, Limit <- MaxGateways,
    gone <- closed \cap Agents, accepted <- gateways, by <- under,
    cut <- Gateways \cap (closed \cup Listed)
ImplementsRegistry == Promised!Spec

\* sendGatewayFrame looks the agent up for every frame, so that a frame may go to
\* another agent than the one that accepted its request, but only once the request
\* is over: out of the map, and closed or on the list of a detach that closes it.
StrayFramesAreOver ==
    \A a \in Agents : \A i \in DOMAIN queue[a] :
        queue[a][i] \in {g \in Gateways : under[g] # a} =>
            queue[a][i] \in (closed \cup Listed) \ gateways

\* attach never keeps mu for good, however slow the mobiles it notifies are.
LockReleased == mu # None ~> mu = None

\* A response whose agent is gone, or whose access has ended, ends, unless its
\* client stops reading what it was being sent.
OrphanedGatewayEnds ==
    \A g \in Gateways :
        pc[g] = "stream" /\ g \in closed \cup revoked ~> pc[g] \in {"write", "done"}

\* Every discovery call ends.
CallEnds == \A c \in Calls : pc[c] = "ask" ~> pc[c] = "done"

\* A peer whose session or access ended leaves the registry.
RevokedPeerLeaves ==
    \A p \in Peers \cap Revocable : p \in revoked /\ pc[p] \in Attached ~> pc[p] = "done"

\* tunnel_test.go: a legacy Agent must not accept same-host gateway requests.
LegacyAgentGetsNoGatewayFrame ==
    \A a \in Agents \ GatewayAgents : \A i \in DOMAIN queue[a] :
        queue[a][i] \notin Gateways
=============================================================================
