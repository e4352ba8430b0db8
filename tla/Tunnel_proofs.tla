--------------------------- MODULE Tunnel_proofs ---------------------------
(***************************************************************************)
(* Proofs about Tunnel, for any number of agents, phones, requests, calls   *)
(* and any capacities.                                                      *)
(***************************************************************************)
EXTENDS Tunnel, TLAPS

\* The kinds of process are disjoint and None is none of them.
LEMMA Kinds ==
    /\ Peers = Agents \cup Mobiles /\ Procs = Peers \cup Gateways \cup Calls
    /\ Agents \cap Mobiles = {} /\ Peers \cap Gateways = {}
    /\ (Peers \cup Gateways) \cap Calls = {} /\ None \notin Procs
    /\ None \notin RequestIds /\ Procs \cap RequestIds = {}
    /\ None # "answer" /\ None # "error"
    /\ RequestIdOf \in [Calls -> RequestIds]
    /\ GatewayAgents \subseteq Agents /\ DiscoveryAgents \subseteq Agents
    /\ Revocable \subseteq Peers \cup Gateways
  BY TunnelAssumption DEF Peers, Procs

\* The bounds are positive numbers.
LEMMA Caps == MaxMobiles \in Nat \ {0} /\ MaxGateways \in Nat \ {0} /\
              SendCap \in Nat \ {0} /\ FrameCap \in Nat \ {0} /\ MaxParts \in Nat \ {0}
  BY TunnelAssumption

\* sendControl keeps the types of what it touches.
LEMMA SendTypes ==
    ASSUME TypeOK, NEW p \in Peers, NEW m \in Message, sendControl(p, m)
    PROVE  /\ queue' \in [Peers -> Seq(Message)]
           /\ closed' \subseteq Peers \cup Gateways
  <1>. queue \in [Peers -> Seq(Message)] /\ closed \subseteq Peers \cup Gateways
    BY DEF TypeOK
  <1>1. CASE Queued(p, m)
    <2>1. Append(queue[p], m) \in Seq(Message)
      OBVIOUS
    <2>. QED  BY <1>1, <2>1 DEF Queued
  <1>2. CASE NotQueued(p)
    BY <1>2 DEF NotQueued
  <1>. QED  BY <1>1, <1>2 DEF sendControl

\* Notices, gateway requests and discovery requests are messages.
LEMMA MessageTypes ==
    Notice \in Message /\ Gateways \subseteq Message /\ RequestIds \subseteq Message
  BY DEF Notice, Message

\* The types hold at the start.
LEMMA TypeInit == Init => TypeOK
  BY Kinds, Caps DEF Init, TypeOK, PeerPc

\* The steps of an agent's handler keep the types.
LEMMA TypeAgent ==
    ASSUME TypeOK, NEW a \in Agents, AgentStep(a)
    PROVE  TypeOK'
  <1>. USE Kinds
  <1>1. CASE AttachAgent(a)
    BY <1>1 DEF AttachAgent, TypeOK, Goto, ForgetGateways, Superseded, Unlocked, PeerPc
  <1>2. CASE AnnounceOnline(a)
    <2>1. PICK m \in todo[a] : /\ sendControl(m, Notice)
                              /\ todo' = [todo EXCEPT ![a] = @ \ {m}]
      BY <1>2 DEF AnnounceOnline
    <2>2. m \in Peers
      BY <1>2 DEF AnnounceOnline, TypeOK
    <2>3. /\ queue' \in [Peers -> Seq(Message)]
          /\ closed' \subseteq Peers \cup Gateways
      BY <2>1, <2>2, SendTypes, MessageTypes
    <2>4. UNCHANGED <<mu, agent, mobiles, gateways, discoveries, writing, frames,
                      waiter, pc, held, left, revoked, seen, under, asked>>
      BY <1>2 DEF AnnounceOnline, registry
    <2>5. /\ todo' \in [Agents -> SUBSET Procs]
          /\ \A b \in Agents : pc'[b] = "announce" => todo'[b] \subseteq Mobiles
      BY <2>1, <2>4 DEF TypeOK
    <2>. QED  BY <2>3, <2>4, <2>5 DEF TypeOK
  <1>3. CASE AnnounceDone(a)
    BY <1>3 DEF AnnounceDone, TypeOK, registry, Goto, PeerPc
  <1>4. CASE ReceiveForMobile(a)
    BY <1>4 DEF ReceiveForMobile, TypeOK, registry, channels, Goto, PeerPc
  <1>5. CASE ReceiveForGateway(a)
    BY <1>5 DEF ReceiveForGateway, TypeOK, registry, channels, Goto, PeerPc
  <1>6. CASE DeliverFrame(a)
    <2>1. held[a] \in Gateways
      BY <1>6 DEF DeliverFrame, TypeOK
    <2>2. frames[held[a]] \in Seq(Agents) /\ Append(frames[held[a]], a) \in Seq(Agents)
      BY <2>1 DEF TypeOK
    <2>3. frames' \in [Gateways -> Seq(Agents)]
      <3>1. frames' = frames \/ frames' = [frames EXCEPT ![held[a]] = Append(frames[held[a]], a)]
        BY <1>6 DEF DeliverFrame
      <3>2. frames \in [Gateways -> Seq(Agents)]
        BY DEF TypeOK
      <3>. QED  BY <2>1, <2>2, <3>1, <3>2
    <2>4. closed' \subseteq Peers \cup Gateways
      BY <1>6, <2>1 DEF DeliverFrame, TypeOK
    <2>. QED  BY <1>6, <2>3, <2>4 DEF DeliverFrame, TypeOK, registry, Goto, PeerPc
  <1>7. CASE ReceiveAnswer(a)
    BY <1>7 DEF ReceiveAnswer, TypeOK, registry, channels, Goto, PeerPc
  <1>8. CASE DeliverAnswer(a)
    BY <1>8 DEF DeliverAnswer, TypeOK, registry, Goto, PeerPc, Resolve
  <1>9. CASE DetachAgent(a)
    BY <1>9 DEF DetachAgent, TypeOK, channels, Goto, PeerPc, ForgetGateways
  <1>10. CASE DetachReplacedAgent(a)
    BY <1>10 DEF DetachReplacedAgent, TypeOK, registry, channels, Goto, PeerPc
  <1>11. CASE EvictGateway(a)
    BY <1>11 DEF EvictGateway, TypeOK, registry, Visited
  <1>12. CASE EvictMobile(a)
    <2>1. PICK m \in todo[a] \cap Mobiles :
             sendControl(m, Notice) /\ Visited(a, m)
      BY <1>12 DEF EvictMobile
    <2>2. /\ queue' \in [Peers -> Seq(Message)]
          /\ closed' \subseteq Peers \cup Gateways
      BY <2>1, SendTypes, MessageTypes
    <2>3. UNCHANGED <<mu, agent, mobiles, gateways, discoveries, writing, frames,
                      waiter, pc, held, left, revoked, seen, under, asked>>
      BY <1>12 DEF EvictMobile, registry
    <2>4. /\ todo' \in [Agents -> SUBSET Procs]
          /\ \A b \in Agents : todo'[b] \subseteq todo[b]
      BY <2>1 DEF TypeOK, Visited
    <2>. QED  BY <2>2, <2>3, <2>4 DEF TypeOK
  <1>13. CASE EvictCall(a)
    BY <1>13 DEF EvictCall, TypeOK, registry, Visited, Resolve
  <1>14. CASE EvictDone(a)
    BY <1>14 DEF EvictDone, TypeOK, registry, channels, Goto, PeerPc
  <1>. QED
    BY <1>1, <1>2, <1>3, <1>4, <1>5, <1>6, <1>7, <1>8, <1>9, <1>10, <1>11,
       <1>12, <1>13, <1>14 DEF AgentStep

\* So do those of a mobile's handler,
LEMMA TypeMobile ==
    ASSUME TypeOK, NEW m \in Mobiles, MobileStep(m)
    PROVE  TypeOK'
  <1>. USE Kinds
  <1>1. CASE AttachMobile(m)
    BY <1>1 DEF AttachMobile, TypeOK, Goto, Iterating, Unlocked, PeerPc
  <1>2. CASE RefuseMobile(m)
    BY <1>2 DEF RefuseMobile, TypeOK, registry, Goto, PeerPc
  <1>3. CASE InitialState(m)
    BY <1>3 DEF InitialState, TypeOK, registry, channels, Goto, PeerPc
  <1>4. CASE ReceiveFromMobile(m)
    BY <1>4 DEF ReceiveFromMobile, TypeOK, registry, channels, Goto, PeerPc
  <1>5. CASE DetachMobile(m)
    BY <1>5 DEF DetachMobile, FreeSlot, TypeOK, channels, Goto, PeerPc
  <1>. QED  BY <1>1, <1>2, <1>3, <1>4, <1>5 DEF MobileStep

\* those of the writers and readers of a peer's socket,
LEMMA TypePeer ==
    ASSUME TypeOK, NEW p \in Peers, PeerStep(p)
    PROVE  TypeOK'
  <1>. USE Kinds
  <1>1. CASE SendOwn(p)
    <2>1. /\ queue' \in [Peers -> Seq(Message)]
          /\ closed' \subseteq Peers \cup Gateways
      BY <1>1, MessageTypes, SendTypes DEF SendOwn
    <2>. QED  BY <1>1, <2>1 DEF SendOwn, TypeOK, registry, Goto, PeerPc
  <1>2. CASE ReceiveInvalid(p)
    BY <1>2 DEF ReceiveInvalid, TypeOK, registry, channels, Goto, PeerPc
  <1>3. CASE Forward(p)
    <2>1. held[p] \in Peers
      BY <1>3 DEF Forward, TypeOK
    <2>2. /\ queue' \in [Peers -> Seq(Message)]
          /\ closed' \subseteq Peers \cup Gateways
      BY <1>3, <2>1, MessageTypes, SendTypes DEF Forward
    <2>. QED  BY <1>3, <2>2 DEF Forward, TypeOK, registry, Goto, PeerPc
  <1>4. CASE ReadEnds(p)
    BY <1>4 DEF ReadEnds, TypeOK, registry, Goto, PeerPc
  <1>5. CASE WriteFrame(p)
    <2>1. Tail(queue[p]) \in Seq(Message) /\ Head(queue[p]) \in Message
      BY <1>5 DEF WriteFrame, TypeOK
    <2>2. queue' \in [Peers -> Seq(Message)]
      BY <1>5, <2>1 DEF WriteFrame, TypeOK
    <2>3. /\ closed' \subseteq Peers \cup Gateways /\ writing' \subseteq Peers
          /\ seen' \subseteq Gateways \cup RequestIds
      BY <1>5, <2>1 DEF WriteFrame, TypeOK, Message
    <2>. QED  BY <1>5, <2>2, <2>3 DEF WriteFrame, TypeOK, registry, control
  <1>6. CASE PingFails(p)
    BY <1>6 DEF PingFails, TypeOK, registry, control
  <1>7. CASE WriterStops(p)
    BY <1>7 DEF WriterStops, TypeOK, registry, control
  <1>. QED  BY <1>1, <1>2, <1>3, <1>4, <1>5, <1>6, <1>7 DEF PeerStep

\* those of a proxied request,
LEMMA TypeGateway ==
    ASSUME TypeOK, NEW g \in Gateways, GatewayStep(g)
    PROVE  TypeOK'
  <1>. USE Kinds, Caps
  <1>1. CASE AttachGateway(g)
    BY <1>1 DEF AttachGateway, TypeOK, channels, Goto, GatewayPc
  <1>2. CASE RefuseGateway(g)
    BY <1>2 DEF RefuseGateway, TypeOK, registry, channels, Goto, GatewayPc
  <1>3. CASE ReadBody(g)
    <2>2. /\ left' \in [Gateways -> 0..MaxParts]
          /\ \A h \in Gateways : left'[h] = left[h] \/ left'[h] > 0
          /\ pc'[g] = "frames" => left'[g] > 0
      <3>1. CASE /\ left' \in {[left EXCEPT ![g] = n] : n \in {1, MaxParts}}
                 /\ Goto(g, "frames")
        <4>1. PICK n \in {1, MaxParts} : left' = [left EXCEPT ![g] = n]
          BY <3>1
        <4>2. n \in 0..MaxParts /\ n > 0
          OBVIOUS
        <4>. QED  BY <4>1, <4>2 DEF TypeOK
      <3>2. CASE Goto(g, "detach") /\ UNCHANGED left
        BY <3>2 DEF TypeOK, Goto
      <3>. QED  BY <1>3, <3>1, <3>2 DEF ReadBody
    <2>3. \E l \in {"frames", "detach"} : Goto(g, l)
      BY <1>3 DEF ReadBody
    <2>4. UNCHANGED <<mu, agent, mobiles, gateways, discoveries, closed, writing,
                      queue, frames, waiter, held, todo, revoked, seen, under, asked>>
      BY <1>3 DEF ReadBody, registry, channels
    <2>5. held[g] = None
      BY <1>3 DEF ReadBody, TypeOK
    <2>. QED  BY <2>2, <2>3, <2>4, <2>5 DEF TypeOK, Goto, GatewayPc
  <1>4. CASE PickAgent(g)
    BY <1>4 DEF PickAgent, TypeOK, registry, channels, Goto, GatewayPc
  <1>5. CASE SendFrame(g)
    <2>1. held[g] \in Peers /\ left[g] \in 0..MaxParts /\ left[g] > 0
      BY <1>5 DEF SendFrame, TypeOK
    <2>2. g \in Message
      BY MessageTypes
    <2>3. sendControl(held[g], g)
      BY <1>5 DEF SendFrame, sendControl
    <2>4. /\ queue' \in [Peers -> Seq(Message)]
          /\ closed' \subseteq Peers \cup Gateways
      BY <2>1, <2>2, <2>3, SendTypes
    <2>5. /\ left' \in [Gateways -> 0..MaxParts]
          /\ \A h \in Gateways : pc'[h] = "frames" => left'[h] > 0
      <3>1. \/ /\ left' = [left EXCEPT ![g] = @ - 1]
               /\ Goto(g, IF left[g] = 1 THEN "stream" ELSE "frames")
            \/ UNCHANGED left /\ Goto(g, "detach")
        BY <1>5 DEF SendFrame, LastPart
      <3>2. /\ left \in [Gateways -> 0..MaxParts]
            /\ pc \in [Procs -> PeerPc \cup GatewayPc \cup CallPc]
        BY DEF TypeOK
      <3>3. \A h \in Gateways : pc[h] = "frames" => left[h] > 0
        BY DEF TypeOK
      <3>4. CASE UNCHANGED left /\ Goto(g, "detach")
        BY <3>2, <3>3, <3>4 DEF Goto
      <3>5. CASE /\ left' = [left EXCEPT ![g] = @ - 1]
                 /\ Goto(g, IF left[g] = 1 THEN "stream" ELSE "frames")
        <4>1. left[g] - 1 \in 0..MaxParts /\ (left[g] # 1 => left[g] - 1 > 0)
          BY <2>1
        <4>. QED  BY <3>2, <3>3, <3>5, <4>1 DEF Goto
      <3>. QED  BY <3>1, <3>4, <3>5
    <2>6. /\ held' = [held EXCEPT ![g] = None]
          /\ UNCHANGED <<mu, agent, mobiles, gateways, discoveries, writing,
                         frames, waiter, todo, revoked, seen, under, asked>>
      BY <1>5 DEF SendFrame, registry
    <2>7. \E l \in {"stream", "frames", "detach"} : Goto(g, l)
      BY <1>5 DEF SendFrame
    <2>. QED  BY <2>4, <2>5, <2>6, <2>7 DEF TypeOK, Goto, GatewayPc
  <1>6. CASE TakeFrame(g)
    <2>1. Tail(frames[g]) \in Seq(Agents)
      BY <1>6 DEF TakeFrame, TypeOK
    <2>2. frames' \in [Gateways -> Seq(Agents)]
      BY <1>6, <2>1 DEF TakeFrame, TypeOK
    <2>3. PICK l \in {"stream", "write", "detach"} : pc' = [pc EXCEPT ![g] = l]
      BY <1>6 DEF TakeFrame, Goto
    <2>4. /\ pc' \in [Procs -> PeerPc \cup GatewayPc \cup CallPc]
          /\ \A x \in Procs : x # g => pc'[x] = pc[x]
          /\ pc'[g] \in {"stream", "write", "detach"}
      BY <1>6, <2>3 DEF TakeFrame, TypeOK, GatewayPc
    <2>5. UNCHANGED <<mu, agent, mobiles, gateways, discoveries, closed, writing,
                      queue, waiter, held, todo, left, revoked, seen, under, asked>>
      BY <1>6 DEF TakeFrame, registry
    <2>6. held[g] = None /\ g \in Procs
      BY <1>6 DEF TypeOK, TakeFrame
    <2>. QED  BY <2>2, <2>4, <2>5, <2>6 DEF TypeOK
  <1>7. CASE StreamEnds(g)
    BY <1>7 DEF StreamEnds, TypeOK, registry, channels, Goto, GatewayPc
  <1>8. CASE DetachGateway(g)
    BY <1>8 DEF DetachGateway, OtherGateways, TypeOK, Goto, GatewayPc
  <1>9. CASE WriteChunk(g)
    <2>1. \E l \in {"stream", "detach"} : Goto(g, l)
      BY <1>9 DEF WriteChunk
    <2>2. UNCHANGED <<mu, agent, mobiles, gateways, discoveries, closed, writing,
                      queue, frames, waiter, held, todo, left, revoked, seen, under, asked>>
      BY <1>9 DEF WriteChunk, registry, channels
    <2>3. held[g] = None
      BY <1>9 DEF WriteChunk, TypeOK
    <2>. QED  BY <2>1, <2>2, <2>3 DEF TypeOK, Goto, GatewayPc
  <1>. QED
    BY <1>1, <1>2, <1>3, <1>4, <1>5, <1>6, <1>7, <1>8, <1>9 DEF GatewayStep

\* and those of a discovery call.
LEMMA TypeCall ==
    ASSUME TypeOK, NEW c \in Calls, CallStep(c)
    PROVE  TypeOK'
  <1>. USE Kinds
  <1>1. CASE Register(c)
    BY <1>1 DEF Register, Supported, TypeOK, channels, Goto, CallPc
  <1>2. CASE RefuseCall(c)
    BY <1>2 DEF RefuseCall, TypeOK, registry, channels, Goto, CallPc
  <1>3. CASE Ask(c)
    <2>1. held[c] \in Peers
      BY <1>3 DEF Ask, TypeOK
    <2>2. RequestIdOf[c] \in Message
      BY MessageTypes
    <2>3. sendControl(held[c], RequestIdOf[c])
      BY <1>3 DEF Ask, sendControl
    <2>4. /\ queue' \in [Peers -> Seq(Message)]
          /\ closed' \subseteq Peers \cup Gateways
      BY <2>1, <2>2, <2>3, SendTypes
    <2>5. /\ pc' \in [Procs -> PeerPc \cup GatewayPc \cup CallPc]
          /\ \A x \in Procs : x # c => pc'[x] = pc[x]
          /\ pc'[c] # "ask"
      <3>1. PICK l \in {"wait", "cleanup"} : pc' = [pc EXCEPT ![c] = l]
        BY <1>3 DEF Ask, Goto
      <3>2. pc \in [Procs -> PeerPc \cup GatewayPc \cup CallPc] /\ c \in Procs
        BY DEF TypeOK
      <3>3. l \in CallPc /\ l # "ask"
        BY DEF CallPc
      <3>. QED  BY <3>1, <3>2, <3>3
    <2>6. /\ held' = [held EXCEPT ![c] = None]
          /\ UNCHANGED <<mu, agent, mobiles, gateways, discoveries, writing,
                         frames, waiter, todo, left, revoked, seen, under, asked>>
      BY <1>3 DEF Ask, registry
    <2>7. /\ held' \in [Procs -> Procs \cup {None}]
          /\ \A x \in Procs : x # c => held'[x] = held[x]
      BY <2>6 DEF TypeOK
    <2>8. c \notin Agents /\ c \notin Mobiles /\ c \notin Gateways
      OBVIOUS
    <2>9. \A x \in Agents \cup Mobiles \cup Gateways : pc'[x] = pc[x] /\ held'[x] = held[x]
      BY <2>5, <2>7, <2>8
    <2>10. \A d \in Calls : pc'[d] = "ask" => held'[d] \in Agents
      BY <2>5, <2>7 DEF TypeOK
    <2>. QED  BY <2>4, <2>5, <2>6, <2>7, <2>9, <2>10 DEF TypeOK
  <1>4. CASE WaitEnds(c)
    BY <1>4 DEF WaitEnds, TypeOK, registry, channels, Goto, CallPc
  <1>5. CASE Cleanup(c)
    BY <1>5 DEF Cleanup, OwnRegistration, TypeOK, channels, Goto, CallPc
  <1>. QED  BY <1>1, <1>2, <1>3, <1>4, <1>5 DEF CallStep

\* Every step keeps the types.
LEMMA TypeStep == TypeOK /\ [Next]_vars => TypeOK'
  <1>. SUFFICES ASSUME TypeOK, [Next]_vars PROVE TypeOK'
    OBVIOUS
  <1>. USE Kinds
  <1>1. ASSUME NEW x \in Revocable, Revoke(x) PROVE TypeOK'
    BY <1>1 DEF Revoke, TypeOK, registry, channels, control
  <1>2. ASSUME NEW x \in Peers \cup Gateways, Connect(x) PROVE TypeOK'
    BY <1>2 DEF Connect, TypeOK, registry, channels, Goto, PeerPc
  <1>3. ASSUME NEW x \in Mobiles \cup Gateways, Disconnect(x) PROVE TypeOK'
    <2>1. held[x] \in Peers
      BY <1>3 DEF Disconnect, TypeOK
    <2>2. /\ queue' \in [Peers -> Seq(Message)]
          /\ closed' \subseteq Peers \cup Gateways
      BY <1>3, <2>1, MessageTypes, SendTypes DEF Disconnect
    <2>. QED  BY <1>3, <2>2 DEF Disconnect, TypeOK, registry, Goto, PeerPc
  <1>4. CASE MapRace
    BY <1>4 DEF MapRace, TypeOK, PeerPc
  <1>5. CASE UNCHANGED vars
    BY <1>5 DEF TypeOK, vars, registry, channels, control
  <1>. QED
    BY <1>1, <1>2, <1>3, <1>4, <1>5, TypeAgent, TypeMobile, TypePeer, TypeGateway,
       TypeCall DEF Next, Terminated

\* The type invariant holds of the tunnel whatever the number of peers.
THEOREM Typing == Spec => []TypeOK
  BY TypeInit, TypeStep, PTL DEF Spec

-----------------------------------------------------------------------------
(* The agent registry.                                                      *)

\* No agent is registered at the start.
LEMMA RegistryInit == Init => RegistryMatchesHandlers
  BY Kinds DEF Init, RegistryMatchesHandlers, Attached

\* A step that leaves the registration alone, closes nothing again and moves
\* agents' handlers only within the attached phase keeps the invariant.
LEMMA RegistryFrame ==
    ASSUME TypeOK, RegistryMatchesHandlers, agent' = agent, closed \subseteq closed',
           \A a \in Agents : pc'[a] \in Attached <=> pc[a] \in Attached
    PROVE  RegistryMatchesHandlers'
  BY Kinds DEF TypeOK, RegistryMatchesHandlers

\* sendControl opens nothing that was closed.
LEMMA SendCloses ==
    ASSUME NEW p, NEW m, sendControl(p, m)
    PROVE  closed \subseteq closed'
  BY DEF sendControl, Queued, NotQueued

\* An agent's attach and detach keep the registration that of an attached handler.
LEMMA RegistryAgent ==
    ASSUME TypeOK, RegistryMatchesHandlers, NEW a \in Agents, AgentStep(a)
    PROVE  RegistryMatchesHandlers'
  <1>. USE Kinds
  <1>1. CASE AttachAgent(a)
    BY <1>1 DEF AttachAgent, TypeOK, RegistryMatchesHandlers, Goto, Superseded, Attached
  <1>2. CASE AnnounceOnline(a)
    BY <1>2, RegistryFrame, SendCloses DEF AnnounceOnline, registry
  <1>3. CASE AnnounceDone(a)
    BY <1>3, RegistryFrame DEF AnnounceDone, registry, Goto, Attached, TypeOK
  <1>4. CASE ReceiveForMobile(a) \/ ReceiveForGateway(a) \/ ReceiveAnswer(a)
    BY <1>4, RegistryFrame DEF ReceiveForMobile, ReceiveForGateway, ReceiveAnswer,
       MayAnswer, registry, channels, Goto, Attached, TypeOK
  <1>5. CASE DeliverFrame(a) \/ DeliverAnswer(a)
    BY <1>5, RegistryFrame DEF DeliverFrame, DeliverAnswer, registry, Goto, Attached, TypeOK
  <1>6. CASE DetachAgent(a)
    BY <1>6 DEF DetachAgent, IsCurrent, RegistryMatchesHandlers, channels, Goto,
       Attached, TypeOK
  <1>7. CASE DetachReplacedAgent(a)
    BY <1>7 DEF DetachReplacedAgent, IsCurrent, RegistryMatchesHandlers, registry,
       channels, Goto, Attached, TypeOK
  <1>8. CASE EvictGateway(a) \/ EvictMobile(a) \/ EvictCall(a)
    BY <1>8, RegistryFrame, SendCloses DEF EvictGateway, EvictMobile, EvictCall, registry
  <1>9. CASE EvictDone(a)
    BY <1>9, RegistryFrame DEF EvictDone, registry, channels, Goto, Attached, TypeOK
  <1>. QED
    BY <1>1, <1>2, <1>3, <1>4, <1>5, <1>6, <1>7, <1>8, <1>9 DEF AgentStep

\* What a phone, a request or a call does leaves the registration and the
\* agents' handlers alone.
LEMMA GotoOther ==
    ASSUME TypeOK, NEW x \in Procs \ Agents, NEW l, Goto(x, l)
    PROVE  \A a \in Agents : pc'[a] = pc[a]
  BY Kinds DEF TypeOK, Goto

\* A mobile's handler leaves the agents' registrations and handlers alone.
LEMMA MobileKeeps ==
    ASSUME TypeOK, NEW m \in Mobiles, MobileStep(m)
    PROVE  agent' = agent /\ closed \subseteq closed' /\ \A a \in Agents : pc'[a] = pc[a]
  <1>1. \E l : Goto(m, l)
    BY DEF MobileStep, AttachMobile, RefuseMobile, InitialState, ReceiveFromMobile,
       DetachMobile
  <1>2. agent' = agent /\ closed \subseteq closed'
    BY DEF MobileStep, AttachMobile, RefuseMobile, InitialState, ReceiveFromMobile,
       DetachMobile, registry, channels
  <1>. QED  BY <1>1, <1>2, GotoOther, Kinds

\* So does a proxied request,
LEMMA GatewayKeeps ==
    ASSUME TypeOK, NEW g \in Gateways, GatewayStep(g)
    PROVE  agent' = agent /\ closed \subseteq closed' /\ \A a \in Agents : pc'[a] = pc[a]
  <1>1. CASE SendFrame(g)
    <2>1. \E l : Goto(g, l)
      BY <1>1 DEF SendFrame
    <2>2. agent' = agent /\ closed \subseteq closed'
      BY <1>1 DEF SendFrame, Queued, NotQueued, registry
    <2>. QED  BY <2>1, <2>2, GotoOther, Kinds
  <1>2. CASE TakeFrame(g)
    <2>1. \E l : Goto(g, l)
      BY <1>2 DEF TakeFrame
    <2>2. agent' = agent /\ closed \subseteq closed'
      BY <1>2 DEF TakeFrame, registry
    <2>. QED  BY <2>1, <2>2, GotoOther, Kinds
  <1>3. CASE ReadBody(g)
    <2>1. \E l : Goto(g, l)
      BY <1>3 DEF ReadBody
    <2>2. agent' = agent /\ closed \subseteq closed'
      BY <1>3 DEF ReadBody, registry, channels
    <2>. QED  BY <2>1, <2>2, GotoOther, Kinds
  <1>4. CASE AttachGateway(g) \/ RefuseGateway(g) \/ PickAgent(g) \/ WriteChunk(g)
             \/ StreamEnds(g) \/ DetachGateway(g)
    <2>1. \E l : Goto(g, l)
      BY <1>4 DEF AttachGateway, RefuseGateway, PickAgent, WriteChunk,
         StreamEnds, DetachGateway
    <2>2. agent' = agent /\ closed \subseteq closed'
      BY <1>4 DEF AttachGateway, RefuseGateway, PickAgent, WriteChunk,
         StreamEnds, DetachGateway, registry, channels
    <2>. QED  BY <2>1, <2>2, GotoOther, Kinds
  <1>. QED  BY <1>1, <1>2, <1>3, <1>4 DEF GatewayStep

\* a discovery call,
LEMMA CallKeeps ==
    ASSUME TypeOK, NEW c \in Calls, CallStep(c)
    PROVE  agent' = agent /\ closed \subseteq closed' /\ \A a \in Agents : pc'[a] = pc[a]
  <1>1. \E l : Goto(c, l)
    BY DEF CallStep, Register, RefuseCall, Ask, WaitEnds, Cleanup
  <1>2. CASE Ask(c)
    BY <1>2, <1>1, GotoOther, Kinds DEF Ask, Queued, NotQueued, registry
  <1>3. CASE Register(c) \/ RefuseCall(c) \/ WaitEnds(c) \/ Cleanup(c)
    <2>1. agent' = agent /\ closed \subseteq closed'
      BY <1>3 DEF Register, RefuseCall, WaitEnds, Cleanup, registry, channels
    <2>. QED  BY <1>1, <2>1, GotoOther, Kinds
  <1>. QED  BY <1>2, <1>3 DEF CallStep

\* and a client that leaves.
LEMMA DisconnectKeeps ==
    ASSUME TypeOK, NEW x \in Mobiles \cup Gateways, Disconnect(x)
    PROVE  agent' = agent /\ closed \subseteq closed' /\ \A a \in Agents : pc'[a] = pc[a]
  BY SendCloses, GotoOther, Kinds DEF Disconnect, registry

\* A step of a peer's socket registers nobody.
LEMMA RegistryPeer ==
    ASSUME TypeOK, RegistryMatchesHandlers, NEW p \in Peers, PeerStep(p)
    PROVE  RegistryMatchesHandlers'
  <1>. USE Kinds
  <1>1. CASE SendOwn(p)
    BY <1>1, RegistryFrame, SendCloses DEF SendOwn, registry, Goto, Attached, TypeOK
  <1>2. CASE Forward(p)
    BY <1>2, RegistryFrame, SendCloses DEF Forward, registry, Goto, Attached, TypeOK
  <1>3. CASE ReceiveInvalid(p) \/ ReadEnds(p)
    BY <1>3, RegistryFrame DEF ReceiveInvalid, ReadEnds, registry, channels, Goto,
       Attached, TypeOK
  <1>4. CASE WriteFrame(p) \/ PingFails(p) \/ WriterStops(p)
    BY <1>4, RegistryFrame DEF WriteFrame, PingFails, WriterStops, registry, control
  <1>. QED  BY <1>1, <1>2, <1>3, <1>4 DEF PeerStep

\* Every step keeps the registration that of an attached handler.
LEMMA RegistryStep ==
    TypeOK /\ RegistryMatchesHandlers /\ [Next]_vars => RegistryMatchesHandlers'
  <1>. SUFFICES ASSUME TypeOK, RegistryMatchesHandlers, [Next]_vars
                PROVE  RegistryMatchesHandlers'
    OBVIOUS
  <1>. USE Kinds
  <1>1. ASSUME NEW x \in Revocable, Revoke(x) PROVE RegistryMatchesHandlers'
    BY <1>1, RegistryFrame DEF Revoke, registry, channels, control
  <1>2. ASSUME NEW x \in Peers \cup Gateways, Connect(x) PROVE RegistryMatchesHandlers'
    BY <1>2, RegistryFrame DEF Connect, registry, channels, Goto, Attached, TypeOK
  <1>3. CASE MapRace
    BY <1>3 DEF MapRace, RegistryMatchesHandlers, Attached
  <1>4. CASE UNCHANGED vars
    BY <1>4, RegistryFrame DEF vars, registry, channels, control
  <1>5. CASE \/ \E m \in Mobiles : MobileStep(m)
             \/ \E g \in Gateways : GatewayStep(g)
             \/ \E c \in Calls : CallStep(c)
             \/ \E x \in Mobiles \cup Gateways : Disconnect(x)
    BY <1>5, RegistryFrame, MobileKeeps, GatewayKeeps, CallKeeps, DisconnectKeeps
  <1>. QED
    BY <1>1, <1>2, <1>3, <1>4, <1>5, RegistryAgent, RegistryPeer
       DEF Next, Terminated

\* The maps never name a handler that has gone, and every agent handler that is
\* not the registered one was closed by its successor.
THEOREM Registry == Spec => []RegistryMatchesHandlers
  BY RegistryInit, RegistryStep, Typing, PTL DEF Spec

\* The late detach of a replaced agent never evicts its successor: only the
\* registered agent's own detach (or the end of the process) unregisters it.
THEOREM NoEviction == Spec => SuccessorIsNotEvicted
  <1>1. ASSUME TypeOK, Next, agent # None, agent' = None
        PROVE  pc[agent] = "detach" \/ pc'[agent] = "done"
    <2>. USE Kinds
    <2>1. CASE \E a \in Agents : AgentStep(a)
      BY <1>1, <2>1 DEF AgentStep, AttachAgent, AnnounceOnline, AnnounceDone,
         ReceiveForMobile, ReceiveForGateway, DeliverFrame, ReceiveAnswer,
         DeliverAnswer, DetachAgent, IsCurrent, DetachReplacedAgent, EvictGateway,
         EvictMobile, EvictCall, EvictDone, registry
    <2>2. CASE MapRace
      BY <1>1, <2>2 DEF MapRace, TypeOK
    <2>3. CASE \/ \E m \in Mobiles : MobileStep(m)
               \/ \E g \in Gateways : GatewayStep(g)
               \/ \E c \in Calls : CallStep(c)
               \/ \E x \in Mobiles \cup Gateways : Disconnect(x)
      BY <1>1, <2>3, MobileKeeps, GatewayKeeps, CallKeeps, DisconnectKeeps
    <2>4. CASE \/ \E x \in Revocable : Revoke(x)
               \/ \E x \in Peers \cup Gateways : Connect(x)
               \/ \E p \in Peers : PeerStep(p)
      BY <1>1, <2>4 DEF Revoke, Connect, PeerStep, SendOwn, ReceiveInvalid,
         Forward, ReadEnds, WriteFrame, PingFails, WriterStops, registry
    <2>. QED  BY <1>1, <2>1, <2>2, <2>3, <2>4 DEF Next, Terminated, vars, registry
  <1>. QED  BY <1>1, Typing, PTL DEF Spec, SuccessorIsNotEvicted

-----------------------------------------------------------------------------
(* What a step of each kind of process leaves alone.                         *)

\* A goroutine that goes on leaves the others where they are.
LEMMA GotoMoves ==
    ASSUME TypeOK, NEW x \in Procs, NEW l, Goto(x, l)
    PROVE  pc'[x] = l /\ \A y \in Procs \ {x} : pc'[y] = pc[y]
  BY DEF TypeOK, Goto

\* An agent's handler moves itself and its own list; requests keep their agent.
LEMMA AgentFrame ==
    ASSUME TypeOK, NEW a \in Agents, AgentStep(a)
    PROVE  /\ mobiles' = mobiles /\ under' = under
           /\ closed \subseteq closed'
           /\ \A x \in Procs \ {a} : pc'[x] = pc[x] /\ held'[x] = held[x]
           /\ \A b \in Agents \ {a} : todo'[b] = todo[b]
  <1>. USE Kinds DEF TypeOK
  <1>1. CASE AttachAgent(a)
    BY <1>1 DEF AttachAgent, Goto
  <1>2. CASE AnnounceOnline(a)
    BY <1>2, SendCloses DEF AnnounceOnline, registry
  <1>3. CASE AnnounceDone(a)
    BY <1>3 DEF AnnounceDone, registry, Goto
  <1>4. CASE ReceiveForMobile(a) \/ ReceiveForGateway(a) \/ ReceiveAnswer(a)
    BY <1>4 DEF ReceiveForMobile, ReceiveForGateway, ReceiveAnswer, registry, channels, Goto
  <1>5. CASE DeliverFrame(a) \/ DeliverAnswer(a)
    BY <1>5 DEF DeliverFrame, DeliverAnswer, registry, Goto
  <1>6. CASE DetachAgent(a) \/ DetachReplacedAgent(a) \/ EvictDone(a)
    BY <1>6 DEF DetachAgent, DetachReplacedAgent, EvictDone, registry, channels, Goto
  <1>7. CASE EvictGateway(a) \/ EvictMobile(a) \/ EvictCall(a)
    BY <1>7, SendCloses DEF EvictGateway, EvictMobile, EvictCall, Visited, registry
  <1>. QED
    BY <1>1, <1>2, <1>3, <1>4, <1>5, <1>6, <1>7 DEF AgentStep

\* A phone's handler only removes itself from, or joins, the lists of agents.
LEMMA MobileFrame ==
    ASSUME TypeOK, NEW m \in Mobiles, MobileStep(m)
    PROVE  /\ UNCHANGED <<agent, gateways, discoveries, frames, waiter, under>>
           /\ closed \subseteq closed'
           /\ \A x \in Procs \ {m} : pc'[x] = pc[x] /\ held'[x] = held[x]
           /\ \A a \in Agents : todo'[a] \ Mobiles = todo[a] \ Mobiles
  <1>. USE Kinds DEF TypeOK
  <1>1. CASE AttachMobile(m)
    BY <1>1 DEF AttachMobile, Goto
  <1>2. CASE DetachMobile(m)
    BY <1>2 DEF DetachMobile, FreeSlot, channels, Goto
  <1>3. CASE RefuseMobile(m) \/ InitialState(m) \/ ReceiveFromMobile(m)
    BY <1>3 DEF RefuseMobile, InitialState, ReceiveFromMobile, registry, channels, Goto
  <1>. QED  BY <1>1, <1>2, <1>3 DEF MobileStep

\* The read and write loops of a connection touch no map of the registry.
LEMMA PeerFrame ==
    ASSUME TypeOK, NEW p \in Peers, PeerStep(p)
    PROVE  /\ UNCHANGED <<agent, mobiles, gateways, discoveries, frames, waiter, todo, under>>
           /\ closed \subseteq closed'
           /\ \A x \in Procs \ {p} : pc'[x] = pc[x] /\ held'[x] = held[x]
           /\ \/ pc' = pc /\ held' = held
              \/ /\ pc[p] \in {"ready", "online", "offline", "reject", "read", "forward"}
                 /\ pc'[p] \in {"state", "read", "reject", "detach"}
  <1>. USE Kinds DEF TypeOK
  <1>1. CASE SendOwn(p)
    BY <1>1, SendCloses DEF SendOwn, registry, Goto
  <1>2. CASE Forward(p)
    BY <1>2, SendCloses DEF Forward, registry, Goto
  <1>3. CASE ReceiveInvalid(p) \/ ReadEnds(p)
    BY <1>3 DEF ReceiveInvalid, ReadEnds, registry, channels, Goto
  <1>4. CASE WriteFrame(p) \/ PingFails(p) \/ WriterStops(p)
    BY <1>4 DEF WriteFrame, PingFails, WriterStops, registry, control
  <1>. QED  BY <1>1, <1>2, <1>3, <1>4 DEF PeerStep

\* A proxied request changes the map of requests at its attach and detach only.
LEMMA GatewayFrame ==
    ASSUME TypeOK, NEW g \in Gateways, GatewayStep(g)
    PROVE  /\ UNCHANGED <<agent, mobiles, discoveries, waiter, todo>>
           /\ closed \subseteq closed'
           /\ \A x \in Procs \ {g} : pc'[x] = pc[x] /\ held'[x] = held[x]
           /\ \A h \in Gateways \ {g} : under'[h] = under[h]
           /\ ~AttachGateway(g) => under' = under
           /\ ~AttachGateway(g) /\ ~DetachGateway(g) => gateways' = gateways
  <1>. USE Kinds DEF TypeOK
  <1>1. CASE AttachGateway(g)
    BY <1>1 DEF AttachGateway, channels, Goto
  <1>2. CASE DetachGateway(g)
    BY <1>2 DEF DetachGateway, Goto
  <1>3. CASE SendFrame(g)
    <2>1. PICK l : Goto(g, l)
      BY <1>3 DEF SendFrame
    <2>2. \A x \in Procs \ {g} : pc'[x] = pc[x]
      BY <2>1, GotoMoves
    <2>. QED  BY <1>3, <2>2 DEF SendFrame, Queued, NotQueued, registry
  <1>4. CASE TakeFrame(g)
    <2>1. PICK l : Goto(g, l)
      BY <1>4 DEF TakeFrame
    <2>2. \A x \in Procs \ {g} : pc'[x] = pc[x]
      BY <2>1, GotoMoves
    <2>. QED  BY <1>4, <2>2 DEF TakeFrame, registry
  <1>5. CASE ReadBody(g) \/ WriteChunk(g)
    <2>1. PICK l : Goto(g, l)
      BY <1>5 DEF ReadBody, WriteChunk
    <2>2. \A x \in Procs \ {g} : pc'[x] = pc[x]
      BY <2>1, GotoMoves
    <2>. QED  BY <1>5, <2>2 DEF ReadBody, WriteChunk, registry, channels
  <1>6. CASE RefuseGateway(g) \/ PickAgent(g) \/ StreamEnds(g)
    BY <1>6 DEF RefuseGateway, PickAgent, StreamEnds, registry, channels, Goto
  <1>. QED  BY <1>1, <1>2, <1>3, <1>4, <1>5, <1>6 DEF GatewayStep

\* A discovery call changes no map but that of the discovery calls.
LEMMA CallFrame ==
    ASSUME TypeOK, NEW c \in Calls, CallStep(c)
    PROVE  /\ UNCHANGED <<agent, mobiles, gateways, frames, waiter, todo, under>>
           /\ closed \subseteq closed'
           /\ \A x \in Procs \ {c} : pc'[x] = pc[x] /\ held'[x] = held[x]
  <1>. USE Kinds DEF TypeOK
  <1>1. CASE Register(c) \/ RefuseCall(c)
    BY <1>1 DEF Register, RefuseCall, registry, channels, Goto
  <1>2. CASE Ask(c)
    <2>1. PICK l : Goto(c, l)
      BY <1>2 DEF Ask
    <2>2. \A x \in Procs \ {c} : pc'[x] = pc[x]
      BY <2>1, GotoMoves
    <2>. QED  BY <1>2, <2>2 DEF Ask, Queued, NotQueued, registry
  <1>3. CASE WaitEnds(c) \/ Cleanup(c)
    BY <1>3 DEF WaitEnds, Cleanup, registry, channels, Goto
  <1>. QED  BY <1>1, <1>2, <1>3 DEF CallStep

\* The steps that are not of one process, or of any kind.
LEMMA AnyFrame ==
    ASSUME TypeOK,
           \/ \E x \in Revocable : Revoke(x)
           \/ \E x \in Peers \cup Gateways : Connect(x)
           \/ \E x \in Mobiles \cup Gateways : Disconnect(x)
           \/ UNCHANGED vars
    PROVE  /\ UNCHANGED <<agent, mobiles, gateways, discoveries, frames, waiter, todo, under>>
           /\ closed \subseteq closed'
           /\ \A x \in Procs :
                 \/ pc'[x] = pc[x] /\ held'[x] = held[x]
                 \/ pc[x] = "idle" /\ pc'[x] \in {"connect", "done"}
                 \/ pc[x] = "disconnect" /\ pc'[x] = "done"
  <1>. USE Kinds DEF TypeOK
  <1>1. CASE \E x \in Revocable : Revoke(x)
    BY <1>1 DEF Revoke, registry, channels, control
  <1>2. CASE \E x \in Peers \cup Gateways : Connect(x)
    BY <1>2 DEF Connect, registry, channels, Goto
  <1>3. CASE \E x \in Mobiles \cup Gateways : Disconnect(x)
    BY <1>3, SendCloses DEF Disconnect, registry, Goto
  <1>4. CASE UNCHANGED vars
    BY <1>4 DEF vars, registry, channels, control
  <1>. QED  BY <1>1, <1>2, <1>3, <1>4

-----------------------------------------------------------------------------
(* The slots of the phones.                                                  *)

\* Slots follow the handlers in every step.
LEMMA SlotStep ==
    TypeOK /\ MobileHoldsSlot /\ [Next]_vars => MobileHoldsSlot'
  <1>. SUFFICES ASSUME TypeOK, MobileHoldsSlot, [Next]_vars PROVE MobileHoldsSlot'
    OBVIOUS
  <1>. USE Kinds
  <1>1. ASSUME mobiles' = mobiles,
               \A m \in Mobiles : pc'[m] \in Attached <=> pc[m] \in Attached,
               \A a \in Agents : todo'[a] \cap Mobiles \subseteq todo[a] \cup mobiles
        PROVE  MobileHoldsSlot'
    BY <1>1 DEF MobileHoldsSlot
  <1>2. ASSUME NEW a \in Agents, AgentStep(a) PROVE MobileHoldsSlot'
    <2>1. todo'[a] \cap Mobiles \subseteq todo[a] \cup mobiles
      BY <1>2 DEF AgentStep, AttachAgent, AnnounceOnline, AnnounceDone, ReceiveForMobile,
         ReceiveForGateway, DeliverFrame, ReceiveAnswer, DeliverAnswer, DetachAgent,
         DetachReplacedAgent, EvictGateway, EvictMobile, EvictCall, EvictDone, Visited, TypeOK
    <2>. QED  BY <1>1, <1>2, <2>1, AgentFrame
  <1>3. ASSUME NEW m \in Mobiles, MobileStep(m) PROVE MobileHoldsSlot'
    <2>1. CASE AttachMobile(m)
      BY <1>3, <2>1, MobileFrame DEF AttachMobile, MobileHoldsSlot, Goto, Attached, TypeOK
    <2>2. CASE DetachMobile(m)
      BY <1>3, <2>2, MobileFrame DEF DetachMobile, FreeSlot, MobileHoldsSlot, Goto, Attached, TypeOK
    <2>3. CASE RefuseMobile(m) \/ InitialState(m) \/ ReceiveFromMobile(m)
      <3>1. PICK l : Goto(m, l) /\ (l \in Attached <=> pc[m] \in Attached)
        BY <2>3 DEF RefuseMobile, InitialState, ReceiveFromMobile, Attached
      <3>2. mobiles' = mobiles /\ todo' = todo
        BY <2>3 DEF RefuseMobile, InitialState, ReceiveFromMobile, registry
      <3>3. todo \in [Agents -> SUBSET Procs] /\ m \in Procs
        BY DEF TypeOK
      <3>4. \A a \in Agents : todo'[a] \cap Mobiles \subseteq todo[a] \cup mobiles
        BY <3>2
      <3>5. \A n \in Mobiles : pc'[n] \in Attached <=> pc[n] \in Attached
        BY <3>1, <3>3, GotoMoves
      <3>. QED  BY <1>1, <3>2, <3>4, <3>5
    <2>. QED  BY <1>3, <2>1, <2>2, <2>3 DEF MobileStep
  <1>4. ASSUME NEW p \in Peers, PeerStep(p) PROVE MobileHoldsSlot'
    BY <1>1, <1>4, PeerFrame DEF Attached
  <1>5. ASSUME NEW g \in Gateways, GatewayStep(g) PROVE MobileHoldsSlot'
    BY <1>1, <1>5, GatewayFrame
  <1>6. ASSUME NEW c \in Calls, CallStep(c) PROVE MobileHoldsSlot'
    BY <1>1, <1>6, CallFrame
  <1>7. CASE MapRace
    BY <1>7 DEF MapRace, MobileHoldsSlot, Attached
  <1>8. CASE \/ \E x \in Revocable : Revoke(x)
             \/ \E x \in Peers \cup Gateways : Connect(x)
             \/ \E x \in Mobiles \cup Gateways : Disconnect(x)
             \/ UNCHANGED vars
    BY <1>1, <1>8, AnyFrame DEF Attached
  <1>. QED
    BY <1>2, <1>3, <1>4, <1>5, <1>6, <1>7, <1>8 DEF Next, Terminated

\* A phone holds one of the slots exactly while its handler is attached, and what
\* a detaching agent has still to visit are phones that hold one.
THEOREM Slots == Spec => []MobileHoldsSlot
  <1>1. Init => MobileHoldsSlot
    BY Kinds DEF Init, MobileHoldsSlot, Attached
  <1>. QED  BY <1>1, SlotStep, Typing, PTL DEF Spec

-----------------------------------------------------------------------------
(* The requests in the registry.                                             *)

\* The map of requests is emptied whenever the registration changes.
LEMMA BelongStep ==
    TypeOK /\ GatewaysBelongToAgent /\ [Next]_vars => GatewaysBelongToAgent'
  <1>. SUFFICES ASSUME TypeOK, GatewaysBelongToAgent, [Next]_vars PROVE GatewaysBelongToAgent'
    OBVIOUS
  <1>. USE Kinds
  <1>. gateways \subseteq Gateways
    BY DEF TypeOK
  <1>1. ASSUME gateways' \subseteq gateways, gateways' = {} \/ agent' = agent,
               \A g \in gateways : under'[g] = under[g] /\ (pc[g] \in Proxied => pc'[g] \in Proxied)
        PROVE  GatewaysBelongToAgent'
    BY <1>1 DEF GatewaysBelongToAgent
  <1>2. ASSUME NEW a \in Agents, AgentStep(a) PROVE GatewaysBelongToAgent'
    <2>1. /\ gateways' \subseteq gateways
          /\ gateways' = {} \/ agent' = agent
      BY <1>2 DEF AgentStep, AttachAgent, AnnounceOnline, AnnounceDone, ReceiveForMobile,
         ReceiveForGateway, DeliverFrame, ReceiveAnswer, DeliverAnswer, DetachAgent,
         DetachReplacedAgent, EvictGateway, EvictMobile, EvictCall, EvictDone, registry,
         ForgetGateways
    <2>2. under' = under /\ \A g \in Gateways : pc'[g] = pc[g]
      BY <1>2, AgentFrame
    <2>. QED  BY <1>1, <2>1, <2>2
  <1>3. ASSUME NEW m \in Mobiles, MobileStep(m) PROVE GatewaysBelongToAgent'
    BY <1>1, <1>3, MobileFrame
  <1>4. ASSUME NEW p \in Peers, PeerStep(p) PROVE GatewaysBelongToAgent'
    BY <1>1, <1>4, PeerFrame
  <1>5. ASSUME NEW g \in Gateways, GatewayStep(g) PROVE GatewaysBelongToAgent'
    <2>1. CASE AttachGateway(g)
      BY <1>5, <2>1, GatewayFrame DEF AttachGateway, GatewaysBelongToAgent, Goto, Proxied, TypeOK
    <2>2. CASE DetachGateway(g)
      <3>1. gateways' = gateways \ {g} /\ pc[g] # "connect"
        BY <2>2 DEF DetachGateway, OtherGateways
      <3>2. ~AttachGateway(g)
        BY <3>1 DEF AttachGateway
      <3>3. agent' = agent /\ under' = under /\ \A h \in Gateways \ {g} : pc'[h] = pc[h]
        BY <1>5, <3>2, GatewayFrame
      <3>. QED  BY <3>1, <3>3 DEF GatewaysBelongToAgent
    <2>3. CASE RefuseGateway(g)
      <3>1. g \notin gateways /\ UNCHANGED <<gateways, agent, under>>
        BY <2>3 DEF RefuseGateway, GatewaysBelongToAgent, Proxied, registry
      <3>2. \A h \in gateways : pc'[h] = pc[h]
        BY <1>5, <3>1, GatewayFrame
      <3>. QED  BY <1>1, <3>1, <3>2
    <2>4. CASE ReadBody(g) \/ PickAgent(g) \/ SendFrame(g) \/ TakeFrame(g) \/ WriteChunk(g)
               \/ StreamEnds(g)
      <3>1. PICK l \in Proxied : Goto(g, l)
        BY <2>4 DEF ReadBody, PickAgent, SendFrame, TakeFrame, WriteChunk, StreamEnds, Proxied
      <3>2. pc'[g] \in Proxied
        BY <3>1, GotoMoves
      <3>3. ~AttachGateway(g)
        BY <2>4 DEF AttachGateway, ReadBody, PickAgent, SendFrame, TakeFrame, WriteChunk,
           StreamEnds
      <3>4. gateways' = gateways
        BY <2>4 DEF ReadBody, PickAgent, SendFrame, TakeFrame, WriteChunk, StreamEnds, registry
      <3>5. /\ agent' = agent /\ under' = under
            /\ \A h \in gateways : pc[h] \in Proxied => pc'[h] \in Proxied
        BY <1>5, <3>2, <3>3, GatewayFrame
      <3>. QED  BY <1>1, <3>4, <3>5
    <2>. QED  BY <1>5, <2>1, <2>2, <2>3, <2>4 DEF GatewayStep
  <1>6. ASSUME NEW c \in Calls, CallStep(c) PROVE GatewaysBelongToAgent'
    BY <1>1, <1>6, CallFrame
  <1>7. CASE MapRace
    BY <1>7 DEF MapRace, GatewaysBelongToAgent
  <1>8. CASE \/ \E x \in Revocable : Revoke(x)
             \/ \E x \in Peers \cup Gateways : Connect(x)
             \/ \E x \in Mobiles \cup Gateways : Disconnect(x)
             \/ UNCHANGED vars
    BY <1>1, <1>8, AnyFrame DEF Proxied
  <1>. QED
    BY <1>2, <1>3, <1>4, <1>5, <1>6, <1>7, <1>8 DEF Next, Terminated

\* A registered request belongs to the agent that is registered now and its
\* handler still runs.
THEOREM Belonging == Spec => []GatewaysBelongToAgent
  <1>1. Init => GatewaysBelongToAgent
    BY DEF Init, GatewaysBelongToAgent
  <1>. QED  BY <1>1, BelongStep, Typing, PTL DEF Spec

-----------------------------------------------------------------------------
(* The frames of a response and the visits of a detach.                      *)

\* A request is attached once.  Every frame queued to it, every frame about to be
\* queued to it and every detach that is to close it are of the agent it was
\* attached under: registered requests are, and agents take them from there.
UnderItsAgent ==
    /\ \A g \in Gateways : pc[g] \in {"idle", "connect"} => under[g] = None
    /\ ResponseFromOwnAgent
    /\ \A a \in Agents : pc[a] = "deliver" => under[held[a]] = a
    /\ \A a \in Agents, g \in Gateways : pc[a] = "evict" /\ g \in todo[a] => under[g] = a

\* A frame left in a queue after the first was taken was in it before.
LEMMA TailFrames ==
    ASSUME NEW S, NEW s \in Seq(S), s # <<>>, NEW i \in DOMAIN Tail(s)
    PROVE  i + 1 \in DOMAIN s /\ Tail(s)[i] = s[i + 1]
  OBVIOUS

\* A step that queues, captures and lists no new request keeps the invariant.
LEMMA UnderFrame ==
    ASSUME TypeOK, UnderItsAgent, under' = under, frames' = frames,
           \A g \in Gateways : pc'[g] \in {"idle", "connect"} => pc[g] \in {"idle", "connect"},
           \A a \in Agents : pc'[a] = "deliver" => pc[a] = "deliver" /\ held'[a] = held[a],
           \A a \in Agents : pc'[a] = "evict" /\ todo'[a] \cap Gateways # {} =>
               pc[a] = "evict" /\ todo'[a] \cap Gateways \subseteq todo[a]
    PROVE  UnderItsAgent'
  BY DEF UnderItsAgent, ResponseFromOwnAgent

\* Appending a frame of the request's own agent.
LEMMA UnderAppend ==
    ASSUME TypeOK, UnderItsAgent, NEW a \in Agents, pc[a] = "deliver", under' = under,
           frames' = [frames EXCEPT ![held[a]] = Append(@, a)]
    PROVE  ResponseFromOwnAgent'
  <1>1. held[a] \in Gateways /\ under[held[a]] = a
    BY DEF TypeOK, UnderItsAgent
  <1>2. ASSUME NEW g \in Gateways, NEW i \in DOMAIN frames'[g] PROVE frames'[g][i] = under[g]
    <2>1. frames[g] \in Seq(Agents)
      BY DEF TypeOK
    <2>2. CASE g = held[a]
      <3>1. frames'[g] = Append(frames[g], a)
        BY <2>2 DEF TypeOK
      <3>2. i \in 1..Len(frames[g]) \/ frames'[g][i] = a
        BY <1>2, <2>1, <3>1
      <3>3. i \in 1..Len(frames[g]) => frames'[g][i] = frames[g][i]
        BY <2>1, <3>1
      <3>4. i \in 1..Len(frames[g]) => frames[g][i] = under[g]
        BY <2>1 DEF UnderItsAgent, ResponseFromOwnAgent
      <3>. QED  BY <1>1, <2>2, <3>2, <3>3, <3>4
    <2>3. CASE g # held[a]
      <3>1. frames'[g] = frames[g]
        BY <2>3 DEF TypeOK
      <3>. QED  BY <1>2, <3>1 DEF UnderItsAgent, ResponseFromOwnAgent
    <2>. QED  BY <2>2, <2>3
  <1>. QED  BY <1>2 DEF ResponseFromOwnAgent

\* What an agent captures or lists comes from the map of its own requests.
LEMMA UnderAgent ==
    ASSUME TypeOK, RegistryMatchesHandlers, GatewaysBelongToAgent, UnderItsAgent,
           NEW a \in Agents, AgentStep(a)
    PROVE  UnderItsAgent'
  <1>. USE Kinds
  <1>1. /\ under' = under
        /\ \A x \in Procs \ {a} : pc'[x] = pc[x] /\ held'[x] = held[x]
        /\ \A b \in Agents \ {a} : todo'[b] = todo[b]
    BY AgentFrame
  <1>2. /\ pc \in [Procs -> PeerPc \cup GatewayPc \cup CallPc] /\ todo \in [Agents -> SUBSET Procs]
        /\ held \in [Procs -> Procs \cup {None}] /\ gateways \subseteq Gateways
    BY DEF TypeOK
  <1>3. ASSUME frames' = frames, pc'[a] # "deliver",
               pc'[a] = "evict" /\ todo'[a] \cap Gateways # {} =>
                  pc[a] = "evict" /\ todo'[a] \cap Gateways \subseteq todo[a]
        PROVE  UnderItsAgent'
    <2>1. \A b \in Agents : pc'[b] = "deliver" => pc[b] = "deliver" /\ held'[b] = held[b]
      BY <1>1, <1>3
    <2>2. \A b \in Agents : pc'[b] = "evict" /\ todo'[b] \cap Gateways # {} =>
             pc[b] = "evict" /\ todo'[b] \cap Gateways \subseteq todo[b]
      BY <1>1, <1>3
    <2>3. \A g \in Gateways : pc'[g] = pc[g]
      BY <1>1
    <2>. QED  BY <1>1, <1>3, <2>1, <2>2, <2>3, UnderFrame
  <1>4. CASE ReceiveForGateway(a)
    <2>1. PICK g \in gateways : held' = [held EXCEPT ![a] = g]
      BY <1>4 DEF ReceiveForGateway
    <2>2. agent = a
      BY <1>4 DEF ReceiveForGateway, MayAnswer, RegistryMatchesHandlers, Attached
    <2>3. under[g] = a
      BY <2>2 DEF GatewaysBelongToAgent
    <2>4. held'[a] = g /\ pc'[a] = "deliver" /\ frames' = frames /\ todo' = todo
      BY <1>2, <1>4, <2>1, GotoMoves DEF ReceiveForGateway, channels
    <2>. QED  BY <1>1, <2>3, <2>4 DEF UnderItsAgent, ResponseFromOwnAgent
  <1>5. CASE DeliverFrame(a)
    <2>1. todo' = todo /\ pc[a] = "deliver" /\ pc'[a] = "read"
      BY <1>5, GotoMoves DEF DeliverFrame
    <2>2. ResponseFromOwnAgent'
      <3>1. frames' = frames \/ frames' = [frames EXCEPT ![held[a]] = Append(@, a)]
        BY <1>5 DEF DeliverFrame
      <3>2. CASE frames' = frames
        BY <1>1, <3>2 DEF UnderItsAgent, ResponseFromOwnAgent
      <3>. QED  BY <1>1, <2>1, <3>1, <3>2, UnderAppend
    <2>. QED  BY <1>1, <2>1, <2>2 DEF UnderItsAgent
  <1>6. CASE DetachAgent(a)
    <2>1. /\ frames' = frames /\ agent = a /\ pc'[a] = "evict"
          /\ todo'[a] = gateways \cup mobiles \cup ({discoveries[r] : r \in RequestIds} \ {None})
      BY <1>2, <1>6, GotoMoves DEF DetachAgent, IsCurrent, channels
    <2>2. todo'[a] \cap Gateways \subseteq gateways
      BY <2>1 DEF TypeOK
    <2>3. \A g \in todo'[a] \cap Gateways : under[g] = a
      BY <2>1, <2>2 DEF GatewaysBelongToAgent
    <2>. QED  BY <1>1, <2>1, <2>3 DEF UnderItsAgent, ResponseFromOwnAgent
  <1>7. CASE EvictGateway(a) \/ EvictMobile(a) \/ EvictCall(a)
    <2>1. /\ frames' = frames /\ pc' = pc /\ pc[a] = "evict"
          /\ \E x : todo' = [todo EXCEPT ![a] = @ \ {x}]
      BY <1>7 DEF EvictGateway, EvictMobile, EvictCall, Visited
    <2>2. todo'[a] \subseteq todo[a]
      BY <1>2, <2>1
    <2>. QED  BY <1>3, <2>1, <2>2
  <1>8. CASE AttachAgent(a) \/ AnnounceOnline(a) \/ AnnounceDone(a)
    <2>1. frames' = frames /\ pc'[a] \in {"announce", "ready"}
      BY <1>8, GotoMoves DEF AttachAgent, AnnounceOnline, AnnounceDone
    <2>. QED  BY <1>3, <2>1
  <1>9. CASE ReceiveForMobile(a) \/ ReceiveAnswer(a) \/ DeliverAnswer(a) \/ DetachReplacedAgent(a)
             \/ EvictDone(a)
    <2>1. frames' = frames /\ pc'[a] \in {"forward", "answer", "read", "done"}
      BY <1>9, GotoMoves DEF ReceiveForMobile, ReceiveAnswer, DeliverAnswer,
         DetachReplacedAgent, EvictDone, channels
    <2>. QED  BY <1>3, <2>1
  <1>. QED  BY <1>4, <1>5, <1>6, <1>7, <1>8, <1>9 DEF AgentStep

\* A request that attaches has no frames and is on no list yet.
LEMMA UnderGateway ==
    ASSUME TypeOK, UnderItsAgent, NEW g \in Gateways, GatewayStep(g)
    PROVE  UnderItsAgent'
  <1>. USE Kinds
  <1>1. /\ todo' = todo
        /\ \A x \in Procs \ {g} : pc'[x] = pc[x] /\ held'[x] = held[x]
        /\ \A h \in Gateways \ {g} : under'[h] = under[h]
        /\ ~AttachGateway(g) => under' = under
    BY GatewayFrame
  <1>2. \A a \in Agents : pc'[a] = pc[a] /\ held'[a] = held[a]
    BY <1>1
  <1>3. ASSUME under' = under, frames' = frames, pc'[g] \notin {"idle", "connect"}
        PROVE  UnderItsAgent'
    <2>1. \A h \in Gateways : pc'[h] \in {"idle", "connect"} => pc[h] \in {"idle", "connect"}
      BY <1>1, <1>3
    <2>. QED  BY <1>1, <1>2, <1>3, <2>1, UnderFrame
  <1>4. CASE AttachGateway(g)
    <2>1. under[g] = None /\ pc'[g] = "body" /\ frames' = frames
      BY <1>4, GotoMoves DEF AttachGateway, UnderItsAgent, channels
    <2>2. frames[g] \in Seq(Agents)
      BY DEF TypeOK
    <2>3. DOMAIN frames[g] = {}
      <3>1. \A i \in DOMAIN frames[g] : frames[g][i] \in Agents
        BY <2>2
      <3>. QED  BY <2>1, <3>1 DEF UnderItsAgent, ResponseFromOwnAgent
    <2>4. ResponseFromOwnAgent'
      BY <1>1, <2>1, <2>3 DEF UnderItsAgent, ResponseFromOwnAgent
    <2>5. \A a \in Agents : pc[a] = "deliver" => held[a] # g /\ held[a] \in Gateways
      BY <2>1 DEF UnderItsAgent, TypeOK
    <2>6. \A a \in Agents : pc[a] = "evict" => g \notin todo[a]
      BY <2>1 DEF UnderItsAgent
    <2>7. \A a \in Agents : pc'[a] = "deliver" => under'[held'[a]] = a
      BY <1>1, <1>2, <2>5 DEF UnderItsAgent
    <2>8. \A a \in Agents, h \in Gateways : pc'[a] = "evict" /\ h \in todo'[a] => under'[h] = a
      BY <1>1, <1>2, <2>6 DEF UnderItsAgent
    <2>9. \A h \in Gateways : pc'[h] \in {"idle", "connect"} => under'[h] = None
      BY <1>1, <2>1 DEF UnderItsAgent
    <2>. QED  BY <2>4, <2>7, <2>8, <2>9 DEF UnderItsAgent
  <1>5. CASE TakeFrame(g)
    <2>1. /\ frames[g] # <<>> /\ frames[g] \in Seq(Agents)
          /\ frames' = [frames EXCEPT ![g] = Tail(@)]
      BY <1>5 DEF TakeFrame, TypeOK
    <2>2. PICK l \in {"stream", "write", "detach"} : Goto(g, l)
      BY <1>5 DEF TakeFrame
    <2>3. pc'[g] = l
      BY <2>2, GotoMoves
    <2>4. under' = under
      BY <1>5 DEF TakeFrame
    <2>5. \A h \in Gateways \ {g} : frames'[h] = frames[h]
      BY <2>1 DEF TypeOK
    <2>6. frames'[g] = Tail(frames[g])
      BY <2>1 DEF TypeOK
    <2>7. ASSUME NEW i \in DOMAIN frames'[g] PROVE frames'[g][i] = under[g]
      <3>1. i + 1 \in DOMAIN frames[g] /\ frames'[g][i] = frames[g][i + 1]
        BY <2>1, <2>6, <2>7, TailFrames
      <3>. QED  BY <3>1 DEF UnderItsAgent, ResponseFromOwnAgent
    <2>8. ResponseFromOwnAgent'
      BY <2>4, <2>5, <2>7 DEF UnderItsAgent, ResponseFromOwnAgent
    <2>9. \A h \in Gateways : pc'[h] \in {"idle", "connect"} => under'[h] = None
      BY <1>1, <2>3, <2>4 DEF UnderItsAgent
    <2>. QED  BY <1>1, <1>2, <2>4, <2>8, <2>9 DEF UnderItsAgent
  <1>6. CASE RefuseGateway(g) \/ ReadBody(g) \/ PickAgent(g) \/ SendFrame(g) \/ WriteChunk(g)
             \/ StreamEnds(g) \/ DetachGateway(g)
    <2>1. PICK l \in {"done", "frames", "detach", "stream", "disconnect"} : Goto(g, l)
      BY <1>6 DEF RefuseGateway, ReadBody, PickAgent, SendFrame, WriteChunk, StreamEnds,
         DetachGateway
    <2>2. pc'[g] = l
      BY <2>1, GotoMoves
    <2>3. pc[g] # "connect" \/ RefuseGateway(g)
      BY <1>6 DEF ReadBody, PickAgent, SendFrame, WriteChunk, StreamEnds, DetachGateway
    <2>4. under' = under /\ frames' = frames
      BY <1>6 DEF RefuseGateway, ReadBody, PickAgent, SendFrame, WriteChunk, StreamEnds,
         DetachGateway, channels
    <2>. QED  BY <1>3, <2>2, <2>4
  <1>. QED  BY <1>4, <1>5, <1>6 DEF GatewayStep

\* No step mixes a request up with another agent's.
LEMMA UnderStep ==
    TypeOK /\ RegistryMatchesHandlers /\ GatewaysBelongToAgent /\ UnderItsAgent /\ [Next]_vars
        => UnderItsAgent'
  <1>. SUFFICES ASSUME TypeOK, RegistryMatchesHandlers, GatewaysBelongToAgent, UnderItsAgent,
                       [Next]_vars
                PROVE  UnderItsAgent'
    OBVIOUS
  <1>. USE Kinds
  <1>1. ASSUME NEW m \in Mobiles, MobileStep(m) PROVE UnderItsAgent'
    <2>1. /\ under' = under /\ frames' = frames
          /\ \A x \in Agents \cup Gateways : pc'[x] = pc[x] /\ held'[x] = held[x]
          /\ \A a \in Agents : todo'[a] \ Mobiles = todo[a] \ Mobiles
      BY <1>1, MobileFrame
    <2>. QED  BY <2>1, UnderFrame
  <1>2. ASSUME NEW p \in Peers, PeerStep(p) PROVE UnderItsAgent'
    <2>1. /\ under' = under /\ frames' = frames /\ todo' = todo
          /\ \A g \in Gateways : pc'[g] = pc[g]
      BY <1>2, PeerFrame
    <2>2. \A a \in Agents : pc'[a] \in {"deliver", "evict"} => pc'[a] = pc[a] /\ held'[a] = held[a]
      BY <1>2, PeerFrame
    <2>. QED  BY <2>1, <2>2, UnderFrame
  <1>3. ASSUME NEW c \in Calls, CallStep(c) PROVE UnderItsAgent'
    <2>1. /\ under' = under /\ frames' = frames /\ todo' = todo
          /\ \A x \in Agents \cup Gateways : pc'[x] = pc[x] /\ held'[x] = held[x]
      BY <1>3, CallFrame
    <2>. QED  BY <2>1, UnderFrame
  <1>4. CASE MapRace
    <2>1. \A x \in Agents \cup Gateways : pc'[x] = "done"
      BY <1>4 DEF MapRace
    <2>. QED  BY <1>4, <2>1, UnderFrame DEF MapRace
  <1>5. CASE \/ \E x \in Revocable : Revoke(x)
             \/ \E x \in Peers \cup Gateways : Connect(x)
             \/ \E x \in Mobiles \cup Gateways : Disconnect(x)
             \/ UNCHANGED vars
    <2>1. /\ under' = under /\ frames' = frames /\ todo' = todo
          /\ \A g \in Gateways : pc'[g] \in {"idle", "connect"} => pc[g] \in {"idle", "connect"}
      BY <1>5, AnyFrame
    <2>2. \A a \in Agents : pc'[a] \in {"deliver", "evict"} => pc'[a] = pc[a] /\ held'[a] = held[a]
      BY <1>5, AnyFrame
    <2>. QED  BY <2>1, <2>2, UnderFrame
  <1>. QED
    BY <1>1, <1>2, <1>3, <1>4, <1>5, UnderAgent, UnderGateway DEF Next, Terminated

\* What is queued to, captured or listed for a request is of its own agent.
LEMMA Tracing == Spec => []UnderItsAgent
  <1>1. Init => UnderItsAgent
    <2>. SUFFICES ASSUME Init PROVE UnderItsAgent
      OBVIOUS
    <2>1. \A x \in Procs : pc[x] \in {"idle", "done"}
      BY DEF Init
    <2>. QED  BY <2>1, Kinds DEF Init, UnderItsAgent, ResponseFromOwnAgent
  <1>. QED  BY <1>1, UnderStep, Typing, Registry, Belonging, PTL DEF Spec

\* A response only carries frames of the agent its request was accepted under.
THEOREM OwnResponse == Spec => []ResponseFromOwnAgent
  BY Tracing, PTL DEF UnderItsAgent

-----------------------------------------------------------------------------
(* Discovery calls that wait.                                                *)

\* A step that keeps registrations and results, and moves a call from a list only
\* to its result, keeps the invariant.
LEMMA WaiterFrame ==
    ASSUME TypeOK, WaiterReachable, discoveries' = discoveries,
           \A c \in Calls : waiter[c] # None => waiter'[c] # None,
           \A c \in Calls : /\ pc'[c] \in {"ask", "wait"} => pc[c] \in {"ask", "wait"}
                            /\ pc[c] \in {"ask", "wait", "cleanup"}
                                 => pc'[c] \in {"ask", "wait", "cleanup"},
           \A a \in Agents, c \in Calls : pc[a] = "evict" /\ c \in todo[a] =>
               \/ pc'[a] = "evict" /\ c \in todo'[a]
               \/ waiter'[c] # None
    PROVE  WaiterReachable'
  <1>1. \A r \in RequestIds : discoveries[r] # None => discoveries[r] \in Calls
    BY DEF TypeOK
  <1>. QED  BY <1>1 DEF WaiterReachable

\* A detach lists the calls it deregisters and gives a listed call its result.
LEMMA WaiterAgent ==
    ASSUME TypeOK, WaiterReachable, NEW a \in Agents, AgentStep(a)
    PROVE  WaiterReachable'
  <1>. USE Kinds
  <1>1. /\ \A c \in Calls : pc'[c] = pc[c]
        /\ \A b \in Agents \ {a} : pc'[b] = pc[b] /\ todo'[b] = todo[b]
    BY AgentFrame
  <1>2. /\ todo \in [Agents -> SUBSET Procs] /\ waiter \in [Calls -> {"answer", "error", None}]
        /\ discoveries \in [RequestIds -> Calls \cup {None}]
    BY DEF TypeOK
  <1>3. ASSUME discoveries' = discoveries, \A c \in Calls : waiter[c] # None => waiter'[c] # None,
               pc[a] = "evict" => \A c \in Calls \cap todo[a] :
                   \/ pc'[a] = "evict" /\ c \in todo'[a]
                   \/ waiter'[c] # None
        PROVE  WaiterReachable'
    <2>1. \A b \in Agents, c \in Calls : pc[b] = "evict" /\ c \in todo[b] =>
             (pc'[b] = "evict" /\ c \in todo'[b]) \/ waiter'[c] # None
      BY <1>1, <1>3
    <2>. QED  BY <1>1, <1>3, <2>1, WaiterFrame
  <1>4. CASE DetachAgent(a)
    <2>1. /\ pc'[a] = "evict" /\ pc[a] = "detach" /\ waiter' = waiter
          /\ \A r \in RequestIds : discoveries'[r] = None
      BY <1>4, GotoMoves DEF DetachAgent, channels
    <2>2. \A c \in Calls : discoveries[RequestIdOf[c]] = c => c \in todo'[a]
      <3>1. todo'[a] = gateways \cup mobiles \cup ({discoveries[r] : r \in RequestIds} \ {None})
        BY <1>2, <1>4 DEF DetachAgent
      <3>2. ASSUME NEW c \in Calls, discoveries[RequestIdOf[c]] = c PROVE c \in todo'[a]
        <4>1. RequestIdOf[c] \in RequestIds /\ c # None
          OBVIOUS
        <4>. QED  BY <3>1, <3>2, <4>1
      <3>. QED  BY <3>2
    <2>3. \A c \in Calls : pc'[c] \in {"ask", "wait"} =>
             \/ waiter'[c] # None
             \/ \E b \in Agents : pc'[b] = "evict" /\ c \in todo'[b]
      BY <1>1, <2>1, <2>2 DEF WaiterReachable
    <2>. QED  BY <2>1, <2>3 DEF WaiterReachable
  <1>5. CASE EvictCall(a)
    <2>1. PICK c \in todo[a] : Resolve(c, "error") /\ Visited(a, c)
      BY <1>5 DEF EvictCall
    <2>2. c \in Calls /\ discoveries' = discoveries /\ pc' = pc
      BY <1>5 DEF EvictCall, registry
    <2>3. \A d \in Calls : waiter'[d] = IF d = c /\ waiter[d] = None THEN "error" ELSE waiter[d]
      BY <1>2, <2>1, <2>2 DEF Resolve
    <2>4. todo'[a] = todo[a] \ {c}
      BY <1>2, <2>1 DEF Visited
    <2>. QED  BY <1>3, <2>2, <2>3, <2>4
  <1>6. CASE EvictGateway(a) \/ EvictMobile(a)
    <2>1. /\ discoveries' = discoveries /\ pc' = pc /\ waiter' = waiter
          /\ \E x \in Gateways \cup Mobiles : todo' = [todo EXCEPT ![a] = @ \ {x}]
      BY <1>6 DEF EvictGateway, EvictMobile, Visited, registry
    <2>2. Calls \cap todo[a] \subseteq todo'[a]
      BY <1>2, <2>1
    <2>. QED  BY <1>3, <2>1, <2>2
  <1>7. CASE DeliverAnswer(a)
    <2>1. /\ discoveries' = discoveries /\ pc[a] # "evict" /\ held[a] \in Calls
          /\ Resolve(held[a], "answer")
      BY <1>7 DEF DeliverAnswer, registry, TypeOK
    <2>2. \A d \in Calls : waiter[d] # None => waiter'[d] = waiter[d]
      BY <1>2, <2>1 DEF Resolve
    <2>. QED  BY <1>3, <2>1, <2>2
  <1>8. CASE AttachAgent(a) \/ AnnounceOnline(a) \/ AnnounceDone(a)
    <2>1. discoveries' = discoveries /\ waiter' = waiter /\ pc[a] # "evict"
      BY <1>8 DEF AttachAgent, AnnounceOnline, AnnounceDone, registry
    <2>. QED  BY <1>3, <2>1
  <1>9. CASE ReceiveForMobile(a) \/ ReceiveForGateway(a) \/ DeliverFrame(a) \/ ReceiveAnswer(a)
             \/ DetachReplacedAgent(a) \/ EvictDone(a)
    <2>1. /\ discoveries' = discoveries /\ waiter' = waiter
          /\ pc[a] = "evict" => todo[a] = {}
      BY <1>9 DEF ReceiveForMobile, ReceiveForGateway, DeliverFrame, ReceiveAnswer, MayAnswer,
         DetachReplacedAgent, EvictDone, registry, channels
    <2>. QED  BY <1>3, <2>1
  <1>. QED  BY <1>4, <1>5, <1>6, <1>7, <1>8, <1>9 DEF AgentStep

\* A call registers itself under a free id and removes only its own registration.
LEMMA WaiterCall ==
    ASSUME TypeOK, WaiterReachable, NEW c \in Calls, CallStep(c)
    PROVE  WaiterReachable'
  <1>. USE Kinds
  <1>1. /\ waiter' = waiter /\ todo' = todo
        /\ \A x \in Procs \ {c} : pc'[x] = pc[x]
    BY CallFrame
  <1>2. \A a \in Agents : pc'[a] = pc[a]
    BY <1>1
  <1>3. discoveries \in [RequestIds -> Calls \cup {None}]
    BY DEF TypeOK
  <1>4. CASE Register(c)
    <2>1. /\ discoveries[RequestIdOf[c]] = None /\ pc[c] = "idle" /\ pc'[c] = "ask"
          /\ discoveries' = [discoveries EXCEPT ![RequestIdOf[c]] = c]
      BY <1>4, GotoMoves DEF Register
    <2>2. \A d \in Calls : discoveries[RequestIdOf[d]] = d => discoveries'[RequestIdOf[d]] = d
      BY <1>3, <2>1
    <2>3. discoveries'[RequestIdOf[c]] = c
      BY <1>3, <2>1
    <2>4. \A d \in Calls : pc'[d] \in {"ask", "wait"} =>
              \/ discoveries'[RequestIdOf[d]] = d \/ waiter'[d] # None
              \/ \E a \in Agents : pc'[a] = "evict" /\ d \in todo'[a]
      BY <1>1, <1>2, <2>2, <2>3 DEF WaiterReachable
    <2>5. \A r \in RequestIds : discoveries'[r] # None =>
             /\ RequestIdOf[discoveries'[r]] = r
             /\ pc'[discoveries'[r]] \in {"ask", "wait", "cleanup"}
      <3>1. ASSUME NEW r \in RequestIds, discoveries'[r] # None
            PROVE  /\ RequestIdOf[discoveries'[r]] = r
                   /\ pc'[discoveries'[r]] \in {"ask", "wait", "cleanup"}
        <4>1. CASE r = RequestIdOf[c]
          BY <2>1, <2>3, <4>1
        <4>2. CASE r # RequestIdOf[c]
          <5>1. discoveries'[r] = discoveries[r] /\ discoveries[r] \in Calls
            BY <1>3, <2>1, <3>1, <4>2
          <5>2. /\ RequestIdOf[discoveries[r]] = r
                /\ pc[discoveries[r]] \in {"ask", "wait", "cleanup"}
            BY <3>1, <5>1 DEF WaiterReachable
          <5>. QED  BY <1>1, <2>1, <5>1, <5>2
        <4>. QED  BY <4>1, <4>2
      <3>. QED  BY <3>1
    <2>. QED  BY <2>4, <2>5 DEF WaiterReachable
  <1>5. CASE Cleanup(c)
    <2>1. pc[c] = "cleanup" /\ pc'[c] = "done"
      BY <1>5, GotoMoves DEF Cleanup
    <2>2. /\ discoveries'[RequestIdOf[c]] # c
          /\ \A r \in RequestIds : \/ discoveries'[r] = discoveries[r]
                                   \/ discoveries[r] = c /\ discoveries'[r] = None
      BY <1>3, <1>5 DEF Cleanup, OwnRegistration
    <2>3. \A d \in Calls \ {c} :
             discoveries[RequestIdOf[d]] = d => discoveries'[RequestIdOf[d]] = d
      BY <2>2
    <2>4. \A d \in Calls : pc'[d] \in {"ask", "wait"} =>
              \/ discoveries'[RequestIdOf[d]] = d \/ waiter'[d] # None
              \/ \E a \in Agents : pc'[a] = "evict" /\ d \in todo'[a]
      BY <1>1, <1>2, <2>1, <2>3 DEF WaiterReachable
    <2>5. ASSUME NEW r \in RequestIds, discoveries'[r] # None
          PROVE  /\ RequestIdOf[discoveries'[r]] = r
                 /\ pc'[discoveries'[r]] \in {"ask", "wait", "cleanup"}
      <3>1. discoveries'[r] = discoveries[r] /\ discoveries[r] \in Calls
        BY <1>3, <2>2, <2>5
      <3>2. /\ RequestIdOf[discoveries[r]] = r
            /\ pc[discoveries[r]] \in {"ask", "wait", "cleanup"}
        BY <2>5, <3>1 DEF WaiterReachable
      <3>3. discoveries[r] # c
        BY <2>2, <3>1, <3>2
      <3>. QED  BY <1>1, <3>1, <3>2, <3>3
    <2>. QED  BY <2>4, <2>5 DEF WaiterReachable
  <1>6. CASE RefuseCall(c)
    <2>1. pc[c] = "idle" /\ pc'[c] = "done" /\ discoveries' = discoveries
      BY <1>6, GotoMoves DEF RefuseCall, registry
    <2>2. \A d \in Calls :
             /\ pc'[d] \in {"ask", "wait"} => pc[d] \in {"ask", "wait"}
             /\ pc[d] \in {"ask", "wait", "cleanup"} => pc'[d] \in {"ask", "wait", "cleanup"}
      BY <1>1, <2>1
    <2>. QED  BY <1>1, <1>2, <2>1, <2>2, WaiterFrame
  <1>7. CASE Ask(c) \/ WaitEnds(c)
    <2>1. PICK l \in {"wait", "cleanup"} : Goto(c, l)
      BY <1>7 DEF Ask, WaitEnds
    <2>2. pc[c] \in {"ask", "wait"} /\ pc'[c] = l /\ discoveries' = discoveries
      BY <1>7, <2>1, GotoMoves DEF Ask, WaitEnds, registry
    <2>3. \A d \in Calls :
             /\ pc'[d] \in {"ask", "wait"} => pc[d] \in {"ask", "wait"}
             /\ pc[d] \in {"ask", "wait", "cleanup"} => pc'[d] \in {"ask", "wait", "cleanup"}
      BY <1>1, <2>2
    <2>. QED  BY <1>1, <1>2, <2>2, <2>3, WaiterFrame
  <1>. QED  BY <1>4, <1>5, <1>6, <1>7 DEF CallStep

\* No step leaves a waiting call unregistered, unanswered and on no list.
LEMMA WaiterStep ==
    TypeOK /\ WaiterReachable /\ [Next]_vars => WaiterReachable'
  <1>. SUFFICES ASSUME TypeOK, WaiterReachable, [Next]_vars PROVE WaiterReachable'
    OBVIOUS
  <1>. USE Kinds
  <1>1. ASSUME NEW m \in Mobiles, MobileStep(m) PROVE WaiterReachable'
    <2>1. /\ discoveries' = discoveries /\ waiter' = waiter
          /\ \A x \in Agents \cup Calls : pc'[x] = pc[x]
          /\ \A a \in Agents : todo'[a] \ Mobiles = todo[a] \ Mobiles
      BY <1>1, MobileFrame
    <2>2. \A a \in Agents : todo[a] \cap Calls \subseteq todo'[a]
      BY <2>1
    <2>. QED  BY <2>1, <2>2, WaiterFrame
  <1>2. ASSUME NEW p \in Peers, PeerStep(p) PROVE WaiterReachable'
    <2>1. /\ discoveries' = discoveries /\ waiter' = waiter /\ todo' = todo
          /\ \A c \in Calls : pc'[c] = pc[c]
      BY <1>2, PeerFrame
    <2>2. \A a \in Agents : pc[a] = "evict" => pc'[a] = "evict"
      BY <1>2, PeerFrame
    <2>. QED  BY <2>1, <2>2, WaiterFrame
  <1>3. ASSUME NEW g \in Gateways, GatewayStep(g) PROVE WaiterReachable'
    <2>1. /\ discoveries' = discoveries /\ waiter' = waiter /\ todo' = todo
          /\ \A x \in Agents \cup Calls : pc'[x] = pc[x]
      BY <1>3, GatewayFrame
    <2>. QED  BY <2>1, WaiterFrame
  <1>4. CASE MapRace
    <2>1. /\ \A c \in Calls : pc'[c] = "done"
          /\ \A r \in RequestIds : discoveries'[r] = None
      BY <1>4 DEF MapRace
    <2>. QED  BY <2>1 DEF WaiterReachable
  <1>5. CASE \/ \E x \in Revocable : Revoke(x)
             \/ \E x \in Peers \cup Gateways : Connect(x)
             \/ \E x \in Mobiles \cup Gateways : Disconnect(x)
             \/ UNCHANGED vars
    <2>1. discoveries' = discoveries /\ waiter' = waiter /\ todo' = todo
      BY <1>5, AnyFrame
    <2>2. \A c \in Calls :
             /\ pc'[c] \in {"ask", "wait"} => pc[c] \in {"ask", "wait"}
             /\ pc[c] \in {"ask", "wait", "cleanup"} => pc'[c] \in {"ask", "wait", "cleanup"}
      BY <1>5, AnyFrame
    <2>3. \A a \in Agents : pc[a] = "evict" => pc'[a] = "evict"
      BY <1>5, AnyFrame
    <2>. QED  BY <2>1, <2>2, <2>3, WaiterFrame
  <1>. QED
    BY <1>1, <1>2, <1>3, <1>4, <1>5, WaiterAgent, WaiterCall DEF Next, Terminated

\* A discovery call that waits is registered, has its result or is on the list of
\* the detach that fails it, and a registered call has not ended.
THEOREM WaitersReachable == Spec => []WaiterReachable
  <1>1. Init => WaiterReachable
    <2>. SUFFICES ASSUME Init PROVE WaiterReachable
      OBVIOUS
    <2>1. \A x \in Procs : pc[x] \in {"idle", "done"}
      BY DEF Init
    <2>. QED  BY <2>1, Kinds DEF Init, WaiterReachable
  <1>. QED  BY <1>1, WaiterStep, Typing, PTL DEF Spec
-----------------------------------------------------------------------------
(* The registry as its clients see it: Tunnel implements AgentRegistry.      *)

\* An agent's handler comes to its detach closed, and a request is attached under
\* an agent.
Placed ==
    /\ \A a \in Agents : pc[a] = "detach" => a \in closed
    /\ \A g \in Gateways : pc[g] \in Proxied => under[g] # None

\* Only the end of the read loop leads to a detach, only the attach into a request.
LEMMA PlacedStep ==
    TypeOK /\ Placed /\ [Next]_vars => Placed'
  <1>. SUFFICES ASSUME TypeOK, Placed, [Next]_vars PROVE Placed'
    OBVIOUS
  <1>. USE Kinds
  <1>1. ASSUME closed \subseteq closed', under' = under,
               \A a \in Agents : pc'[a] = "detach" => pc[a] = "detach",
               \A g \in Gateways : pc'[g] \in Proxied => pc[g] \in Proxied
        PROVE  Placed'
    BY <1>1 DEF Placed
  <1>2. ASSUME NEW a \in Agents, AgentStep(a) PROVE Placed'
    <2>1. /\ closed \subseteq closed' /\ under' = under
          /\ \A x \in Procs \ {a} : pc'[x] = pc[x]
      BY <1>2, AgentFrame
    <2>2. \/ pc' = pc
          \/ \E l \in {"announce", "ready", "forward", "deliver", "answer", "read", "evict", "done"} :
                Goto(a, l)
      BY <1>2 DEF AgentStep, AttachAgent, AnnounceOnline, AnnounceDone, ReceiveForMobile,
         ReceiveForGateway, DeliverFrame, ReceiveAnswer, DeliverAnswer, DetachAgent,
         DetachReplacedAgent, EvictGateway, EvictMobile, EvictCall, EvictDone
    <2>3. pc'[a] # "detach" \/ pc' = pc
      BY <2>2, GotoMoves
    <2>. QED  BY <1>1, <2>1, <2>3
  <1>3. ASSUME NEW m \in Mobiles, MobileStep(m) PROVE Placed'
    BY <1>1, <1>3, MobileFrame
  <1>4. ASSUME NEW p \in Peers, PeerStep(p) PROVE Placed'
    <2>1. /\ closed \subseteq closed' /\ under' = under
          /\ \A x \in Procs \ {p} : pc'[x] = pc[x]
      BY <1>4, PeerFrame
    <2>2. \/ pc' = pc
          \/ \E l \in {"state", "read", "reject"} : Goto(p, l)
          \/ p \in closed'
      BY <1>4 DEF PeerStep, SendOwn, ReceiveInvalid, Forward, ReadEnds, WriteFrame, PingFails,
         WriterStops, control
    <2>3. pc'[p] # "detach" \/ pc' = pc \/ p \in closed'
      BY <2>2, GotoMoves
    <2>. QED  BY <2>1, <2>3 DEF Placed
  <1>5. ASSUME NEW g \in Gateways, GatewayStep(g) PROVE Placed'
    <2>1. closed \subseteq closed' /\ \A x \in Procs \ {g} : pc'[x] = pc[x]
      BY <1>5, GatewayFrame
    <2>2. CASE AttachGateway(g)
      <3>1. under' = [under EXCEPT ![g] = agent] /\ agent # None
        BY <2>2 DEF AttachGateway
      <3>2. under \in [Gateways -> Agents \cup {None}]
        BY DEF TypeOK
      <3>3. \A x \in Agents : pc'[x] = "detach" => x \in closed'
        BY <2>1 DEF Placed
      <3>4. \A x \in Gateways : pc'[x] \in Proxied => under'[x] # None
        BY <2>1, <3>1, <3>2 DEF Placed
      <3>. QED  BY <3>3, <3>4 DEF Placed
    <2>3. CASE ~AttachGateway(g)
      <3>1. under' = under
        BY <1>5, <2>3, GatewayFrame
      <3>2. \/ pc[g] \in Proxied
            \/ Goto(g, "done")
        BY <1>5, <2>3 DEF GatewayStep, RefuseGateway, ReadBody, PickAgent, SendFrame, TakeFrame,
           WriteChunk, StreamEnds, DetachGateway, Proxied
      <3>3. pc'[g] \in Proxied => pc[g] \in Proxied
        BY <3>2, GotoMoves DEF Proxied
      <3>. QED  BY <1>1, <2>1, <3>1, <3>3
    <2>. QED  BY <2>2, <2>3
  <1>6. ASSUME NEW c \in Calls, CallStep(c) PROVE Placed'
    BY <1>1, <1>6, CallFrame
  <1>7. CASE MapRace
    BY <1>7 DEF MapRace, Placed, Proxied
  <1>8. CASE \/ \E x \in Revocable : Revoke(x)
             \/ \E x \in Peers \cup Gateways : Connect(x)
             \/ \E x \in Mobiles \cup Gateways : Disconnect(x)
             \/ UNCHANGED vars
    BY <1>1, <1>8, AnyFrame DEF Proxied
  <1>. QED
    BY <1>2, <1>3, <1>4, <1>5, <1>6, <1>7, <1>8 DEF Next, Terminated

\* What the promise's requests are told of, spelled out.
Told == Gateways \cap (closed \cup Listed)
LEMMA ToldOf ==
    ASSUME NEW g \in Gateways
    PROVE  /\ g \in Told <=> \/ g \in closed
                             \/ \E a \in Agents : pc[a] = "evict" /\ g \in todo[a]
           /\ (g \in Told)' <=> \/ g \in closed'
                                \/ \E a \in Agents : pc'[a] = "evict" /\ g \in todo'[a]
  BY DEF Told, Listed

\* A sender closes nobody but the peer it could not send to.
LEMMA SendClosesOne ==
    ASSUME NEW p, NEW m, sendControl(p, m)
    PROVE  closed' \in {closed, closed \cup {p}}
  BY DEF sendControl, Queued, NotQueued

\* The requests that are told are the same when no list of a detach changes in its
\* requests and no request is closed.
LEMMA ToldSame ==
    ASSUME closed' \cap Gateways = closed \cap Gateways,
           \A a \in Agents : /\ pc[a] = "evict" <=> pc'[a] = "evict"
                             /\ pc[a] = "evict" => todo'[a] \cap Gateways = todo[a] \cap Gateways
    PROVE  Told' = Told
  <1>1. \A g \in Gateways : (g \in Told)' <=> g \in Told
    BY DEF Told, Listed
  <1>. QED  BY <1>1 DEF Told

\* To the clients, a step that closes at most one connection is that or nothing.
LEMMA OneCloses ==
    ASSUME TypeOK, NEW p \in Peers, closed' \in {closed, closed \cup {p}},
           UNCHANGED <<agent, gateways, under>>, Told' = Told
    PROVE  [Promised!Next]_(Promised!vars)
  <1>. USE Kinds
  <1>1. CASE p \in Agents /\ closed' = closed \cup {p}
    <2>1. closed' \cap Agents = (closed \cap Agents) \cup {p}
      BY <1>1
    <2>2. Promised!Close(p)
      BY <2>1 DEF Promised!Close, Told
    <2>. QED  BY <1>1, <2>2 DEF Promised!Next
  <1>2. CASE p \notin Agents \/ closed' = closed
    <2>1. closed' \cap Agents = closed \cap Agents
      BY <1>2
    <2>. QED  BY <2>1 DEF Promised!vars, Told
  <1>. QED  BY <1>1, <1>2

\* To the clients, a step that leaves the registry and every channel alone is none.
LEMMA NoneCloses ==
    ASSUME closed' = closed, UNCHANGED <<agent, gateways, under>>, Told' = Told
    PROVE  [Promised!Next]_(Promised!vars)
  BY DEF Promised!vars, Told

\* The attach of an agent takes over for the clients.
LEMMA JoinStep ==
    ASSUME TypeOK, NEW a \in Agents, AttachAgent(a)
    PROVE  Promised!Next
  <1>. USE Kinds
  <1>1. /\ agent' = a /\ gateways' = {} /\ under' = under
        /\ closed' = closed \cup ({agent} \ {None}) \cup gateways
    BY DEF AttachAgent, ForgetGateways, Superseded
  <1>2. closed' \cap Agents = (closed \cap Agents) \cup ({agent} \ {None})
    BY <1>1 DEF TypeOK
  <1>3. \A g \in Gateways : (g \in Told)' <=> g \in Told \cup gateways
    <2>1. \A b \in Agents : /\ pc[b] = "evict" <=> pc'[b] = "evict"
                            /\ pc[b] = "evict" => todo'[b] = todo[b]
      BY DEF AttachAgent, TypeOK, Goto
    <2>2. \A g \in Gateways : g \in closed' <=> g \in closed \cup gateways
      BY <1>1 DEF TypeOK
    <2>. SUFFICES ASSUME NEW g \in Gateways PROVE (g \in Told)' <=> g \in Told \cup gateways
      OBVIOUS
    <2>3. /\ g \in Told <=> \/ g \in closed
                            \/ \E b \in Agents : pc[b] = "evict" /\ g \in todo[b]
          /\ (g \in Told)' <=> \/ g \in closed'
                               \/ \E b \in Agents : pc'[b] = "evict" /\ g \in todo'[b]
      BY ToldOf
    <2>. QED  BY <2>1, <2>2, <2>3
  <1>4. Told' = Told \cup gateways
    BY <1>3 DEF Told, TypeOK
  <1>5. Promised!Join(a)
    BY <1>1, <1>2, <1>4 DEF Promised!Join, Told
  <1>. QED  BY <1>5 DEF Promised!Next

\* The detach of the registered agent leaves, with every request on its list.
LEMMA LeaveStep ==
    ASSUME TypeOK, Placed, NEW a \in Agents, DetachAgent(a)
    PROVE  Promised!Next
  <1>. USE Kinds
  <1>1. /\ agent = a /\ agent' = None /\ gateways' = {} /\ under' = under
        /\ closed' = closed /\ a \in closed
    BY DEF DetachAgent, IsCurrent, ForgetGateways, channels, Placed
  <1>2. /\ pc[a] = "detach" /\ pc'[a] = "evict"
        /\ \A b \in Agents \ {a} : pc'[b] = pc[b] /\ todo'[b] = todo[b]
    BY DEF DetachAgent, TypeOK, Goto
  <1>3. todo'[a] \cap Gateways = gateways
    <2>1. todo'[a] = gateways \cup mobiles \cup
                       ({discoveries[r] : r \in RequestIds} \ {None})
      BY DEF DetachAgent, TypeOK
    <2>2. ({discoveries[r] : r \in RequestIds} \ {None}) \cap Gateways = {}
      BY DEF TypeOK
    <2>. QED  BY <2>1, <2>2 DEF TypeOK
  <1>4. \A g \in Gateways : (g \in Told)' <=> g \in Told \cup gateways
    BY <1>1, <1>2, <1>3 DEF Told, Listed
  <1>5. Told' = Told \cup gateways
    BY <1>4 DEF Told, TypeOK
  <1>6. Promised!Leave
    BY <1>1, <1>5 DEF Promised!Leave, Told
  <1>. QED  BY <1>6 DEF Promised!Next

\* Each step of an agent's handler is one of the promise's, or none of them.
LEMMA PromiseAgent ==
    ASSUME TypeOK, Placed, UnderItsAgent, NEW a \in Agents, AgentStep(a)
    PROVE  [Promised!Next]_(Promised!vars)
  <1>. USE Kinds
  <1>1. CASE AttachAgent(a)
    BY <1>1, JoinStep
  <1>2. CASE DetachAgent(a)
    BY <1>2, LeaveStep
  <1>3. CASE AnnounceOnline(a)
    <2>1. PICK m \in todo[a] : sendControl(m, Notice) /\ todo' = [todo EXCEPT ![a] = @ \ {m}]
      BY <1>3 DEF AnnounceOnline
    <2>2. /\ m \in Mobiles /\ UNCHANGED <<agent, gateways, under, pc>>
          /\ pc[a] = "announce" /\ \A b \in Agents \ {a} : todo'[b] = todo[b]
      BY <1>3, <2>1 DEF AnnounceOnline, registry, TypeOK
    <2>3. closed' \in {closed, closed \cup {m}}
      BY <2>1, SendClosesOne
    <2>4. Told' = Told
      BY <2>2, <2>3, ToldSame
    <2>. QED  BY <2>2, <2>3, <2>4, OneCloses
  <1>4. CASE EvictMobile(a)
    <2>1. PICK m \in todo[a] \cap Mobiles : sendControl(m, Notice) /\ Visited(a, m)
      BY <1>4 DEF EvictMobile
    <2>2. UNCHANGED <<agent, gateways, under, pc>>
      BY <1>4 DEF EvictMobile, registry
    <2>3. closed' \in {closed, closed \cup {m}}
      BY <2>1, SendClosesOne
    <2>4. \A b \in Agents : todo'[b] \cap Gateways = todo[b] \cap Gateways
      BY <2>1 DEF Visited, TypeOK
    <2>5. Told' = Told
      BY <2>2, <2>3, <2>4, ToldSame
    <2>. QED  BY <2>2, <2>3, <2>5, OneCloses
  <1>5. CASE EvictGateway(a)
    <2>1. PICK g \in todo[a] \cap Gateways : closed' = closed \cup {g} /\ Visited(a, g)
      BY <1>5 DEF EvictGateway
    <2>2. /\ UNCHANGED <<agent, gateways, under, pc>> /\ pc[a] = "evict"
          /\ closed' \cap Agents = closed \cap Agents
      BY <1>5, <2>1 DEF EvictGateway, registry
    <2>3. \A b \in Agents, h \in Gateways \ {g} : h \in todo'[b] <=> h \in todo[b]
      BY <2>1 DEF Visited, TypeOK
    <2>4. ASSUME NEW h \in Gateways PROVE (h \in Told)' <=> h \in Told
      BY <2>1, <2>2, <2>3, ToldOf
    <2>5. Told' = Told
      BY <2>4 DEF Told
    <2>. QED  BY <2>2, <2>5 DEF Promised!vars, Told
  <1>6. CASE EvictDone(a)
    <2>1. /\ UNCHANGED <<agent, gateways, under, closed, todo>> /\ todo[a] = {}
          /\ \A b \in Agents \ {a} : pc'[b] = pc[b]
      BY <1>6 DEF EvictDone, registry, channels, Goto, TypeOK
    <2>2. ASSUME NEW h \in Gateways PROVE (h \in Told)' <=> h \in Told
      BY <2>1, ToldOf
    <2>3. Told' = Told
      BY <2>2 DEF Told
    <2>. QED  BY <2>1, <2>3, NoneCloses
  <1>7. CASE EvictCall(a)
    <2>1. PICK c \in todo[a] : Visited(a, c)
      BY <1>7 DEF EvictCall
    <2>2. UNCHANGED <<agent, gateways, under, closed, pc>> /\ c \in Calls
      BY <1>7, <2>1 DEF EvictCall, registry
    <2>3. \A b \in Agents : todo'[b] \cap Gateways = todo[b] \cap Gateways
      BY <2>1, <2>2 DEF Visited, TypeOK
    <2>4. Told' = Told
      BY <2>2, <2>3, ToldSame
    <2>. QED  BY <2>2, <2>4, NoneCloses
  <1>8. CASE DeliverFrame(a)
    <2>1. /\ UNCHANGED <<agent, gateways, under, todo>> /\ pc[a] = "deliver"
          /\ held[a] \in Gateways /\ closed' \in {closed, closed \cup {held[a]}}
      BY <1>8 DEF DeliverFrame, registry, TypeOK
    <2>2. \A b \in Agents : pc'[b] = "evict" <=> pc[b] = "evict"
      BY <1>8 DEF DeliverFrame, Goto, TypeOK
    <2>3. CASE closed' = closed
      BY <2>1, <2>2, <2>3, ToldSame, NoneCloses
    <2>4. CASE closed' = closed \cup {held[a]}
      <3>1. ASSUME NEW h \in Gateways PROVE (h \in Told)' <=> h \in Told \cup {held[a]}
        BY <2>1, <2>2, <2>4, ToldOf
      <3>2. Told' = Told \cup {held[a]}
        BY <2>1, <3>1 DEF Told
      <3>3. under[held[a]] # None
        BY <2>1 DEF UnderItsAgent
      <3>4. closed' \cap Agents = closed \cap Agents
        BY <2>1, <2>4
      <3>5. Promised!End(held[a])
        BY <2>1, <3>2, <3>3, <3>4 DEF Promised!End, Told
      <3>. QED  BY <2>1, <3>5 DEF Promised!Next
    <2>. QED  BY <2>1, <2>3, <2>4
  <1>9. CASE \/ AnnounceDone(a) \/ ReceiveForMobile(a) \/ ReceiveForGateway(a)
             \/ ReceiveAnswer(a) \/ DeliverAnswer(a) \/ DetachReplacedAgent(a)
    <2>1. UNCHANGED <<agent, gateways, under, closed, todo>>
      BY <1>9 DEF AnnounceDone, ReceiveForMobile, ReceiveForGateway, ReceiveAnswer,
         DeliverAnswer, DetachReplacedAgent, registry, channels
    <2>2. \A b \in Agents : pc'[b] = "evict" <=> pc[b] = "evict"
      BY <1>9 DEF AnnounceDone, ReceiveForMobile, ReceiveForGateway, ReceiveAnswer, MayAnswer,
         DeliverAnswer, DetachReplacedAgent, Goto, TypeOK
    <2>. QED  BY <2>1, <2>2, ToldSame, NoneCloses
  <1>. QED
    BY <1>1, <1>2, <1>3, <1>4, <1>5, <1>6, <1>7, <1>8, <1>9 DEF AgentStep

\* A phone's steps are none of the promise's.
LEMMA PromiseMobile ==
    ASSUME TypeOK, NEW m \in Mobiles, MobileStep(m)
    PROVE  [Promised!Next]_(Promised!vars)
  <1>. USE Kinds
  <1>1. /\ UNCHANGED <<agent, gateways, under>>
        /\ \A x \in Procs \ {m} : pc'[x] = pc[x]
        /\ \A a \in Agents : todo'[a] \ Mobiles = todo[a] \ Mobiles
    BY MobileFrame
  <1>2. closed' \in {closed, closed \cup {m}}
    BY DEF MobileStep, AttachMobile, RefuseMobile, InitialState, ReceiveFromMobile,
       DetachMobile, channels
  <1>3. Told' = Told
    BY <1>1, <1>2, ToldSame
  <1>. QED  BY <1>1, <1>2, <1>3, OneCloses

\* The reader and the writer of a peer close at most one peer.
LEMMA PromisePeer ==
    ASSUME TypeOK, NEW p \in Peers, PeerStep(p)
    PROVE  [Promised!Next]_(Promised!vars)
  <1>. USE Kinds
  <1>1. /\ UNCHANGED <<agent, gateways, under, todo>>
        /\ \A x \in Procs \ {p} : pc'[x] = pc[x]
        /\ pc'[p] = "evict" <=> pc[p] = "evict"
    BY PeerFrame
  <1>2. PICK q \in Peers : closed' \in {closed, closed \cup {q}}
    <2>1. CASE SendOwn(p)
      BY <2>1, SendClosesOne DEF SendOwn
    <2>2. CASE Forward(p)
      <3>1. held[p] \in Peers
        BY <2>2 DEF Forward, TypeOK
      <3>. QED  BY <2>2, <3>1, SendClosesOne DEF Forward
    <2>3. CASE \/ ReceiveInvalid(p) \/ ReadEnds(p) \/ WriteFrame(p) \/ PingFails(p)
               \/ WriterStops(p)
      BY <2>3 DEF ReceiveInvalid, ReadEnds, WriteFrame, PingFails, WriterStops, channels
    <2>. QED  BY <2>1, <2>2, <2>3 DEF PeerStep
  <1>3. Told' = Told
    BY <1>1, <1>2, ToldSame
  <1>. QED  BY <1>1, <1>2, <1>3, OneCloses

\* A proxied request is accepted once, by the agent in charge, and ends.
LEMMA PromiseGateway ==
    ASSUME TypeOK, Placed, UnderItsAgent, NEW g \in Gateways, GatewayStep(g)
    PROVE  [Promised!Next]_(Promised!vars)
  <1>. USE Kinds
  <1>1. /\ UNCHANGED <<agent, todo>>
        /\ \A x \in Procs \ {g} : pc'[x] = pc[x]
        /\ ~AttachGateway(g) => under' = under
        /\ ~AttachGateway(g) /\ ~DetachGateway(g) => gateways' = gateways
    BY GatewayFrame
  <1>2. CASE AttachGateway(g)
    <2>1. /\ gateways' = gateways \cup {g} /\ under' = [under EXCEPT ![g] = agent]
          /\ closed' = closed /\ pc[g] = "connect"
          /\ agent \in GatewayAgents /\ Cardinality(gateways) < MaxGateways
      BY <1>2 DEF AttachGateway, channels
    <2>2. under[g] = None
      BY <2>1 DEF UnderItsAgent
    <2>3. Told' = Told
      BY <1>1, <2>1, ToldSame
    <2>4. UNCHANGED <<agent, closed \cap Agents, Told>>
      BY <1>1, <2>1, <2>3
    <2>5. Promised!Accept(g)
      BY <2>1, <2>2, <2>4, Zenon DEF Promised!Accept, Told, Promised!Cardinality, Cardinality
    <2>. QED  BY <2>5 DEF Promised!Next
  <1>3. CASE DetachGateway(g)
    <2>1. /\ gateways' = gateways \ {g} /\ closed' = closed \cup {g} /\ pc[g] = "detach"
          /\ under' = under
      BY <1>3 DEF DetachGateway, OtherGateways
    <2>2. under[g] # None
      BY <2>1 DEF Placed, Proxied
    <2>3. ASSUME NEW h \in Gateways PROVE (h \in Told)' <=> h \in Told \cup {g}
      BY <1>1, <2>1, ToldOf
    <2>4. Told' = Told \cup {g}
      BY <2>3 DEF Told
    <2>5. closed' \cap Agents = closed \cap Agents
      BY <2>1
    <2>6. Promised!End(g)
      BY <1>1, <2>1, <2>2, <2>4, <2>5 DEF Promised!End, Told
    <2>. QED  BY <2>6 DEF Promised!Next
  <1>4. CASE SendFrame(g)
    <2>1. held[g] \in Peers /\ sendControl(held[g], g)
      BY <1>4 DEF SendFrame, TypeOK, sendControl
    <2>2. closed' \in {closed, closed \cup {held[g]}}
      BY <2>1, SendClosesOne
    <2>3. UNCHANGED <<agent, gateways, under>>
      BY <1>4 DEF SendFrame, registry
    <2>4. Told' = Told
      BY <1>1, <2>1, <2>2, ToldSame
    <2>. QED  BY <2>1, <2>2, <2>3, <2>4, OneCloses
  <1>5. CASE \/ RefuseGateway(g) \/ ReadBody(g) \/ PickAgent(g) \/ TakeFrame(g)
             \/ WriteChunk(g) \/ StreamEnds(g)
    <2>1. UNCHANGED <<agent, gateways, under, closed>>
      BY <1>5 DEF RefuseGateway, ReadBody, PickAgent, TakeFrame, WriteChunk, StreamEnds,
         registry, channels
    <2>2. Told' = Told
      BY <1>1, <2>1, ToldSame
    <2>. QED  BY <2>1, <2>2, NoneCloses
  <1>. QED  BY <1>2, <1>3, <1>4, <1>5 DEF GatewayStep

\* A discovery call closes at most the agent it asks.
LEMMA PromiseCall ==
    ASSUME TypeOK, NEW c \in Calls, CallStep(c)
    PROVE  [Promised!Next]_(Promised!vars)
  <1>. USE Kinds
  <1>1. /\ UNCHANGED <<agent, gateways, under, todo>>
        /\ \A x \in Procs \ {c} : pc'[x] = pc[x]
    BY CallFrame
  <1>2. CASE Ask(c)
    <2>1. held[c] \in Peers /\ sendControl(held[c], RequestIdOf[c])
      BY <1>2 DEF Ask, TypeOK, sendControl
    <2>2. closed' \in {closed, closed \cup {held[c]}}
      BY <2>1, SendClosesOne
    <2>3. Told' = Told
      BY <1>1, <2>1, <2>2, ToldSame
    <2>. QED  BY <1>1, <2>1, <2>2, <2>3, OneCloses
  <1>3. CASE Register(c) \/ RefuseCall(c) \/ WaitEnds(c) \/ Cleanup(c)
    <2>1. closed' = closed
      BY <1>3 DEF Register, RefuseCall, WaitEnds, Cleanup, channels
    <2>2. Told' = Told
      BY <1>1, <2>1, ToldSame
    <2>. QED  BY <1>1, <2>1, <2>2, NoneCloses
  <1>. QED  BY <1>2, <1>3 DEF CallStep

\* Every step of the tunnel is one of the promise's, or none of them.
LEMMA PromiseStep ==
    TypeOK /\ Placed /\ UnderItsAgent /\ [Next]_vars => [Promised!Next]_(Promised!vars)
  <1>. SUFFICES ASSUME TypeOK, Placed, UnderItsAgent, [Next]_vars
                PROVE  [Promised!Next]_(Promised!vars)
    OBVIOUS
  <1>. USE Kinds
  <1>1. ASSUME NEW x \in Mobiles \cup Gateways, Disconnect(x)
        PROVE  [Promised!Next]_(Promised!vars)
    <2>1. held[x] \in Peers /\ sendControl(held[x], Notice)
      BY <1>1 DEF Disconnect, TypeOK
    <2>2. closed' \in {closed, closed \cup {held[x]}}
      BY <2>1, SendClosesOne
    <2>3. UNCHANGED <<agent, gateways, under, todo>> /\ \A a \in Agents : pc'[a] = pc[a]
      BY <1>1 DEF Disconnect, registry, Goto, TypeOK
    <2>4. Told' = Told
      BY <2>1, <2>2, <2>3, ToldSame
    <2>. QED  BY <2>1, <2>2, <2>3, <2>4, OneCloses
  <1>2. CASE MapRace
    <2>1. /\ agent' = None /\ gateways' = {} /\ closed' = Peers \cup Gateways
          /\ under' = under
      BY <1>2 DEF MapRace
    <2>2. Told' = Gateways /\ closed' \cap Agents = Agents
      BY <2>1 DEF Told
    <2>3. Promised!Crash
      BY <2>1, <2>2 DEF Promised!Crash, Told
    <2>. QED  BY <2>3 DEF Promised!Next
  <1>3. CASE \/ \E x \in Revocable : Revoke(x)
             \/ \E x \in Peers \cup Gateways : Connect(x)
             \/ UNCHANGED vars
    <2>1. UNCHANGED <<agent, gateways, under, todo, closed>>
      BY <1>3 DEF Revoke, Connect, vars, registry, channels, control
    <2>2. \A a \in Agents : pc'[a] = "evict" <=> pc[a] = "evict"
      BY <1>3, AnyFrame
    <2>3. Told' = Told
      BY <2>1, <2>2, ToldSame
    <2>. QED  BY <2>1, <2>3, NoneCloses
  <1>. QED
    BY <1>1, <1>2, <1>3, PromiseAgent, PromiseMobile, PromisePeer, PromiseGateway,
       PromiseCall DEF Next, Terminated

\* At the start nobody is in charge and nothing is accepted or over.
LEMMA PromiseInit == Init => Promised!Init /\ Placed
  <1>. SUFFICES ASSUME Init PROVE Promised!Init /\ Placed
    OBVIOUS
  <1>1. \A x \in Procs : pc[x] \in {"idle", "done"}
    BY DEF Init
  <1>2. Listed = {}
    BY <1>1, Kinds DEF Listed
  <1>3. Promised!Init
    BY <1>2 DEF Init, Promised!Init
  <1>4. Placed
    BY <1>1, Kinds DEF Placed, Proxied
  <1>. QED  BY <1>3, <1>4

\* Only a closed agent detaches, and a request that is served was accepted.
LEMMA Placing == Spec => []Placed
  BY PromiseInit, PlacedStep, Typing, PTL DEF Spec

\* The tunnel keeps what the registry promises to those who send requests to an
\* agent (attach, attachGateway, detach), whatever a detach does after its unlock.
THEOREM RegistryImplemented == Spec => ImplementsRegistry
  <1>1. Spec => Promised!Init /\ [][Promised!Next]_(Promised!vars)
    BY PromiseInit, PromiseStep, Typing, Placing, Tracing, PTL DEF Spec
  <1>. QED  BY <1>1 DEF ImplementsRegistry, Promised!Spec

\* What the registry promises of a request, kept by each of its steps.
LEMMA ForgottenStep ==
    ASSUME TypeOK, Promised!NoRequestForgotten, [Promised!Next]_(Promised!vars)
    PROVE  Promised!NoRequestForgotten'
  <1>. USE Kinds DEF Promised!NoRequestForgotten
  <1>1. CASE \E a \in Agents : Promised!Join(a) \/ Promised!Close(a)
    BY <1>1 DEF Promised!Join, Promised!Close
  <1>2. CASE \E g \in Gateways : Promised!Accept(g)
    BY <1>2 DEF Promised!Accept, TypeOK
  <1>3. CASE \E g \in Gateways : Promised!End(g)
    BY <1>3 DEF Promised!End
  <1>4. CASE Promised!Leave \/ Promised!Crash
    BY <1>4 DEF Promised!Leave, Promised!Crash
  <1>5. CASE UNCHANGED Promised!vars
    BY <1>5 DEF Promised!vars
  <1>. QED  BY <1>1, <1>2, <1>3, <1>4, <1>5 DEF Promised!Next

\* No request an agent ever accepted is forgotten: the agent in charge works on it,
\* its channel is closed, or a detach still has it on its list (attach, detach).
THEOREM NothingForgotten == Spec => []Promised!NoRequestForgotten
  <1>1. Promised!Init => Promised!NoRequestForgotten
    BY DEF Promised!Init, Promised!NoRequestForgotten
  <1>2. ImplementsRegistry => Promised!Init /\ [][Promised!Next]_(Promised!vars)
    BY DEF ImplementsRegistry, Promised!Spec
  <1>. QED  BY <1>1, <1>2, ForgottenStep, RegistryImplemented, Typing, PTL

-----------------------------------------------------------------------------
(* Whom a detach fails or closes.                                            *)

\* A registered call was registered for an agent: the one in charge, or one that
\* has lost its connection, as have the agents of all calls a detach has listed.
AskedOf ==
    /\ \A r \in RequestIds : discoveries[r] # None =>
          asked[discoveries[r]] # None /\ asked[discoveries[r]] \in closed \cup {agent}
    /\ \A a \in Agents, c \in Calls : pc[a] = "evict" /\ c \in todo[a] =>
          pc[c] # "idle" /\ asked[c] \in closed

\* A step that leaves the registrations alone and lists no call.
LEMMA AskedFrame ==
    ASSUME TypeOK, AskedOf, UNCHANGED <<agent, discoveries, asked>>, closed \subseteq closed',
           \A c \in Calls : pc[c] # "idle" => pc'[c] # "idle",
           \A a \in Agents, c \in Calls : pc'[a] = "evict" /\ c \in todo'[a] =>
               pc[a] = "evict" /\ c \in todo[a]
    PROVE  AskedOf'
  BY DEF AskedOf

\* The agent that takes over closes the one in charge; the one that leaves is closed.
LEMMA AskedAgent ==
    ASSUME TypeOK, WaiterReachable, Placed, AskedOf, NEW a \in Agents, AgentStep(a)
    PROVE  AskedOf'
  <1>. USE Kinds
  <1>1. /\ closed \subseteq closed'
        /\ \A x \in Procs \ {a} : pc'[x] = pc[x]
        /\ \A b \in Agents \ {a} : todo'[b] = todo[b]
    BY AgentFrame
  <1>2. discoveries \in [RequestIds -> Calls \cup {None}] /\ todo \in [Agents -> SUBSET Procs]
    BY DEF TypeOK
  <1>3. ASSUME UNCHANGED <<agent, discoveries, asked>>,
               pc'[a] = "evict" => pc[a] = "evict" /\ todo'[a] \subseteq todo[a]
        PROVE  AskedOf'
    BY <1>1, <1>3, AskedFrame
  <1>4. CASE AttachAgent(a)
    <2>1. /\ agent' = a /\ {agent} \ {None} \subseteq closed' /\ pc'[a] = "announce"
          /\ UNCHANGED <<discoveries, asked>>
      BY <1>4, GotoMoves DEF AttachAgent, Superseded
    <2>2. \A r \in RequestIds : discoveries'[r] # None =>
             asked'[discoveries'[r]] # None /\ asked'[discoveries'[r]] \in closed'
      BY <1>1, <2>1 DEF AskedOf
    <2>3. \A b \in Agents, c \in Calls : pc'[b] = "evict" /\ c \in todo'[b] =>
             pc'[c] # "idle" /\ asked'[c] \in closed'
      BY <1>1, <2>1 DEF AskedOf
    <2>. QED  BY <2>2, <2>3 DEF AskedOf
  <1>5. CASE DetachAgent(a)
    <2>1. /\ agent = a /\ a \in closed /\ pc'[a] = "evict" /\ asked' = asked /\ closed' = closed
          /\ \A r \in RequestIds : discoveries'[r] = None
          /\ todo'[a] = gateways \cup mobiles \cup ({discoveries[r] : r \in RequestIds} \ {None})
      BY <1>2, <1>5, GotoMoves DEF DetachAgent, IsCurrent, Placed, channels
    <2>2. ASSUME NEW c \in Calls, c \in todo'[a] PROVE pc'[c] # "idle" /\ asked'[c] \in closed'
      <3>1. PICK r \in RequestIds : discoveries[r] = c
        BY <2>1, <2>2 DEF TypeOK
      <3>. QED  BY <1>1, <2>1, <3>1 DEF AskedOf, WaiterReachable
    <2>. QED  BY <1>1, <2>1, <2>2 DEF AskedOf
  <1>6. CASE EvictGateway(a) \/ EvictMobile(a) \/ EvictCall(a)
    <2>1. /\ UNCHANGED <<agent, discoveries, asked>> /\ pc[a] = "evict"
          /\ \E x : todo' = [todo EXCEPT ![a] = @ \ {x}]
      BY <1>6 DEF EvictGateway, EvictMobile, EvictCall, Visited, registry
    <2>. QED  BY <1>2, <1>3, <2>1
  <1>7. CASE AnnounceOnline(a) \/ AnnounceDone(a) \/ DeliverFrame(a) \/ DeliverAnswer(a)
    <2>1. UNCHANGED <<agent, discoveries, asked>> /\ pc'[a] \in {"announce", "ready", "read"}
      BY <1>7, GotoMoves DEF AnnounceOnline, AnnounceDone, DeliverFrame, DeliverAnswer, registry
    <2>. QED  BY <1>3, <2>1
  <1>8. CASE ReceiveForMobile(a) \/ ReceiveForGateway(a) \/ ReceiveAnswer(a)
             \/ DetachReplacedAgent(a) \/ EvictDone(a)
    <2>1. /\ UNCHANGED <<agent, discoveries, asked>>
          /\ pc'[a] \in {"forward", "deliver", "answer", "done"}
      BY <1>8, GotoMoves DEF ReceiveForMobile, ReceiveForGateway, ReceiveAnswer,
         DetachReplacedAgent, EvictDone, registry
    <2>. QED  BY <1>3, <2>1
  <1>. QED  BY <1>4, <1>5, <1>6, <1>7, <1>8 DEF AgentStep

\* A call is registered once, for the agent in charge.
LEMMA AskedCall ==
    ASSUME TypeOK, AskedOf, NEW c \in Calls, CallStep(c)
    PROVE  AskedOf'
  <1>. USE Kinds
  <1>1. /\ UNCHANGED <<agent, todo>> /\ closed \subseteq closed'
        /\ \A x \in Procs \ {c} : pc'[x] = pc[x]
    BY CallFrame
  <1>2. /\ discoveries \in [RequestIds -> Calls \cup {None}]
        /\ asked \in [Calls -> Agents \cup {None}] /\ agent \in Agents \cup {None}
    BY DEF TypeOK
  <1>3. \A a \in Agents : pc'[a] = pc[a]
    BY <1>1
  <1>4. CASE Register(c)
    <2>1. /\ pc[c] = "idle" /\ pc'[c] = "ask" /\ agent # None
          /\ discoveries' = [discoveries EXCEPT ![RequestIdOf[c]] = c]
          /\ asked' = [asked EXCEPT ![c] = agent]
      BY <1>4, GotoMoves DEF Register, Supported
    <2>2. ASSUME NEW r \in RequestIds, discoveries'[r] # None
          PROVE  asked'[discoveries'[r]] # None /\ asked'[discoveries'[r]] \in closed' \cup {agent'}
      <3>1. discoveries'[r] = c \/ (discoveries'[r] = discoveries[r] /\ discoveries[r] \in Calls)
        BY <1>2, <2>1, <2>2
      <3>2. asked'[c] = agent /\ \A d \in Calls \ {c} : asked'[d] = asked[d]
        BY <1>2, <2>1
      <3>. QED  BY <1>1, <2>1, <2>2, <3>1, <3>2 DEF AskedOf
    <2>3. ASSUME NEW a \in Agents, NEW d \in Calls, pc'[a] = "evict", d \in todo'[a]
          PROVE  pc'[d] # "idle" /\ asked'[d] \in closed'
      <3>1. d # c /\ asked[d] \in closed /\ pc[d] # "idle"
        BY <1>1, <1>3, <2>1, <2>3 DEF AskedOf
      <3>. QED  BY <1>1, <1>2, <2>1, <3>1
    <2>. QED  BY <2>2, <2>3 DEF AskedOf
  <1>5. CASE Cleanup(c)
    <2>1. /\ asked' = asked /\ pc'[c] = "done"
          /\ \A r \in RequestIds : discoveries'[r] = discoveries[r] \/ discoveries'[r] = None
      BY <1>2, <1>5, GotoMoves DEF Cleanup
    <2>. QED  BY <1>1, <1>3, <2>1 DEF AskedOf
  <1>6. CASE RefuseCall(c) \/ Ask(c) \/ WaitEnds(c)
    <2>1. PICK l \in {"done", "wait", "cleanup"} : Goto(c, l)
      BY <1>6 DEF RefuseCall, Ask, WaitEnds
    <2>2. UNCHANGED <<discoveries, asked>> /\ pc'[c] = l
      BY <1>6, <2>1, GotoMoves DEF RefuseCall, Ask, WaitEnds, registry
    <2>. QED  BY <1>1, <1>3, <2>2, AskedFrame
  <1>. QED  BY <1>4, <1>5, <1>6 DEF CallStep

\* No step lists or leaves registered a call that was registered for a later agent.
LEMMA AskedStep ==
    TypeOK /\ WaiterReachable /\ Placed /\ AskedOf /\ [Next]_vars => AskedOf'
  <1>. SUFFICES ASSUME TypeOK, WaiterReachable, Placed, AskedOf, [Next]_vars PROVE AskedOf'
    OBVIOUS
  <1>. USE Kinds
  <1>1. ASSUME NEW m \in Mobiles, MobileStep(m) PROVE AskedOf'
    <2>1. /\ UNCHANGED <<agent, discoveries>> /\ closed \subseteq closed'
          /\ \A x \in Agents \cup Calls : pc'[x] = pc[x]
          /\ \A a \in Agents : todo'[a] \ Mobiles = todo[a] \ Mobiles
      BY <1>1, MobileFrame
    <2>2. asked' = asked
      BY <1>1 DEF MobileStep, AttachMobile, RefuseMobile, InitialState, ReceiveFromMobile, DetachMobile
    <2>. QED  BY <2>1, <2>2, AskedFrame
  <1>2. ASSUME NEW p \in Peers, PeerStep(p) PROVE AskedOf'
    <2>1. /\ UNCHANGED <<agent, discoveries, todo>> /\ closed \subseteq closed'
          /\ \A c \in Calls : pc'[c] = pc[c]
      BY <1>2, PeerFrame
    <2>2. \A a \in Agents : pc'[a] = "evict" => pc[a] = "evict"
      BY <1>2, PeerFrame
    <2>3. asked' = asked
      BY <1>2 DEF PeerStep, SendOwn, ReceiveInvalid, Forward, ReadEnds, WriteFrame, PingFails,
         WriterStops
    <2>. QED  BY <2>1, <2>2, <2>3, AskedFrame
  <1>3. ASSUME NEW g \in Gateways, GatewayStep(g) PROVE AskedOf'
    <2>1. /\ UNCHANGED <<agent, discoveries, todo>> /\ closed \subseteq closed'
          /\ \A x \in Agents \cup Calls : pc'[x] = pc[x]
      BY <1>3, GatewayFrame
    <2>2. asked' = asked
      BY <1>3 DEF GatewayStep, AttachGateway, RefuseGateway, ReadBody, PickAgent, SendFrame,
         TakeFrame, WriteChunk, StreamEnds, DetachGateway
    <2>. QED  BY <2>1, <2>2, AskedFrame
  <1>4. CASE MapRace
    BY <1>4 DEF MapRace, AskedOf
  <1>5. CASE \/ \E x \in Revocable : Revoke(x)
             \/ \E x \in Peers \cup Gateways : Connect(x)
             \/ \E x \in Mobiles \cup Gateways : Disconnect(x)
             \/ UNCHANGED vars
    <2>1. /\ UNCHANGED <<agent, discoveries, todo>> /\ closed \subseteq closed'
          /\ \A c \in Calls : pc[c] # "idle" => pc'[c] # "idle"
          /\ \A a \in Agents : pc'[a] = "evict" => pc[a] = "evict"
      BY <1>5, AnyFrame
    <2>2. asked' = asked
      BY <1>5 DEF Revoke, Connect, Disconnect, vars
    <2>. QED  BY <2>1, <2>2, AskedFrame
  <1>. QED
    BY <1>1, <1>2, <1>3, <1>4, <1>5, AskedAgent, AskedCall DEF Next, Terminated

\* A detach closes only requests accepted under the agent that leaves, and fails a
\* call only if the agent it was registered for has lost its connection: nothing of
\* a successor's (detach).
THEOREM OwnEviction == Spec => EvictsOnlyItsOwn
  <1>1. Init => AskedOf
    <2>. SUFFICES ASSUME Init PROVE AskedOf
      OBVIOUS
    <2>1. \A x \in Procs : pc[x] \in {"idle", "done"}
      BY DEF Init
    <2>. QED  BY <2>1, Kinds DEF Init, AskedOf
  <1>2. UnderItsAgent /\ AskedOf =>
          \A a \in Agents : pc[a] = "evict" =>
             /\ \A g \in (todo[a] \ todo'[a]) \cap Gateways : under[g] = a
             /\ \A c \in (todo[a] \ todo'[a]) \cap Calls : asked[c] \in closed
    BY DEF UnderItsAgent, AskedOf
  <1>. QED
    BY <1>1, <1>2, AskedStep, Typing, WaitersReachable, Placing, Tracing, PTL
       DEF Spec, EvictsOnlyItsOwn

-----------------------------------------------------------------------------
(* The frames of a request that another agent gets.                          *)

\* A request in the hands of agent a is a's own, or no longer registered; and it
\* was accepted once, so that it is not registered again.
OwnOrOver(g, a) == under[g] # None /\ (under[g] = a \/ g \notin gateways)
FramesOwnOrOver ==
    /\ \A a \in Agents : \A i \in DOMAIN queue[a] :
          queue[a][i] \in Gateways => OwnOrOver(queue[a][i], a)
    /\ \A g \in Gateways : pc[g] = "frames" /\ held[g] # None => OwnOrOver(g, held[g])

\* No step registers a request for the second time.
LEMMA OverStays ==
    ASSUME TypeOK, UnderItsAgent, [Next]_vars, NEW g \in Gateways, NEW a \in Agents,
           OwnOrOver(g, a)
    PROVE  OwnOrOver(g, a)'
  <1>. USE Kinds
  <1>1. SUFFICES under'[g] = under[g] /\ (g \in gateways' => g \in gateways)
    BY DEF OwnOrOver
  <1>2. ASSUME NEW b \in Agents, AgentStep(b) PROVE under' = under /\ gateways' \subseteq gateways
    <2>1. gateways' = gateways \/ gateways' = {}
      BY <1>2 DEF AgentStep, AttachAgent, AnnounceOnline, AnnounceDone, ReceiveForMobile,
         ReceiveForGateway, DeliverFrame, ReceiveAnswer, DeliverAnswer, DetachAgent,
         DetachReplacedAgent, EvictGateway, EvictMobile, EvictCall, EvictDone, ForgetGateways,
         registry
    <2>. QED  BY <1>2, <2>1, AgentFrame
  <1>3. ASSUME NEW h \in Gateways, GatewayStep(h)
        PROVE  under'[g] = under[g] /\ (g \in gateways' => g \in gateways)
    <2>1. CASE AttachGateway(h)
      <3>1. h # g /\ gateways' = gateways \cup {h} /\ under' = [under EXCEPT ![h] = agent]
        BY <2>1 DEF AttachGateway, UnderItsAgent, OwnOrOver
      <3>. QED  BY <3>1 DEF TypeOK
    <2>2. CASE DetachGateway(h)
      BY <2>2 DEF DetachGateway, OtherGateways
    <2>. QED  BY <1>3, <2>1, <2>2, GatewayFrame
  <1>4. CASE MapRace
    BY <1>4 DEF MapRace
  <1>. QED
    BY <1>2, <1>3, <1>4, MobileFrame, PeerFrame, CallFrame, AnyFrame DEF Next, Terminated

\* sendControl adds at most its own message to the queue of its own peer.
LEMMA SendAdds ==
    ASSUME TypeOK, NEW p \in Peers, NEW m \in Message, sendControl(p, m),
           NEW q \in Peers, NEW i \in DOMAIN queue'[q]
    PROVE  \/ \E j \in DOMAIN queue[q] : queue'[q][i] = queue[q][j]
           \/ q = p /\ queue'[q][i] = m
  <1>1. queue[q] \in Seq(Message)
    BY DEF TypeOK
  <1>2. CASE queue'[q] = queue[q]
    BY <1>2
  <1>3. CASE q = p /\ queue'[q] = Append(queue[q], m)
    BY <1>1, <1>3
  <1>. QED  BY <1>2, <1>3 DEF sendControl, Queued, NotQueued, TypeOK

\* What stands in a queue stood in it before, names no request, or is what a
\* request sends to the agent it looked up.
Sent(a, m) ==
    \/ \E j \in DOMAIN queue[a] : m = queue[a][j]
    \/ m \notin Gateways
    \/ pc[m] = "frames" /\ held[m] = a
LEMMA QueueFrom ==
    ASSUME TypeOK, [Next]_vars, NEW a \in Agents, NEW i \in DOMAIN queue'[a]
    PROVE  Sent(a, queue'[a][i])
  <1>. USE Kinds
  <1>1. CASE queue' = queue
    BY <1>1 DEF Sent
  <1>2. ASSUME NEW p \in Peers, NEW m \in Message, sendControl(p, m), m \notin Gateways
        PROVE  Sent(a, queue'[a][i])
    BY <1>2, SendAdds DEF Sent
  <1>3. Notice \in Message \ Gateways /\ RequestIds \subseteq Message \ Gateways
        /\ Gateways \subseteq Message
    BY MessageTypes DEF Notice
  <1>4. ASSUME NEW b \in Agents, AgentStep(b) PROVE Sent(a, queue'[a][i])
    <2>1. CASE AnnounceOnline(b)
      <3>1. PICK m \in todo[b] : sendControl(m, Notice)
        BY <2>1 DEF AnnounceOnline
      <3>2. m \in Peers
        BY <2>1 DEF AnnounceOnline, TypeOK
      <3>. QED  BY <1>2, <1>3, <3>1, <3>2
    <2>2. CASE EvictMobile(b)
      BY <1>2, <1>3, <2>2 DEF EvictMobile
    <2>. QED
      BY <1>1, <1>4, <2>1, <2>2 DEF AgentStep, AttachAgent, AnnounceDone, ReceiveForMobile,
         ReceiveForGateway, DeliverFrame, ReceiveAnswer, DeliverAnswer, DetachAgent,
         DetachReplacedAgent, EvictGateway, EvictCall, EvictDone, channels
  <1>5. ASSUME NEW p \in Peers, PeerStep(p) PROVE Sent(a, queue'[a][i])
    <2>1. CASE SendOwn(p)
      BY <1>2, <1>3, <2>1 DEF SendOwn
    <2>2. CASE Forward(p)
      <3>1. held[p] \in Peers /\ sendControl(held[p], Notice)
        BY <2>2 DEF Forward, TypeOK
      <3>. QED  BY <1>2, <1>3, <3>1
    <2>3. CASE WriteFrame(p)
      <3>1. queue[a] \in Seq(Message) /\ queue[p] # <<>> /\ queue' = [queue EXCEPT ![p] = Tail(@)]
        BY <2>3 DEF WriteFrame, TypeOK
      <3>2. CASE a = p
        <4>1. queue'[a] = Tail(queue[a]) /\ queue[a] # <<>>
          BY <3>1, <3>2 DEF TypeOK
        <4>2. i + 1 \in DOMAIN queue[a] /\ queue'[a][i] = queue[a][i + 1]
          BY <3>1, <4>1, TailFrames
        <4>. QED  BY <4>2 DEF Sent
      <3>3. CASE a # p
        BY <3>1, <3>3 DEF Sent, TypeOK
      <3>. QED  BY <3>2, <3>3
    <2>. QED
      BY <1>1, <1>5, <2>1, <2>2, <2>3 DEF PeerStep, ReceiveInvalid, ReadEnds, PingFails,
         WriterStops, channels
  <1>6. ASSUME NEW g \in Gateways, GatewayStep(g) PROVE Sent(a, queue'[a][i])
    <2>1. CASE SendFrame(g)
      <3>1. /\ pc[g] = "frames" /\ held[g] \in Peers /\ sendControl(held[g], g)
            /\ g \in Message
        BY <1>3, <2>1 DEF SendFrame, TypeOK, sendControl
      <3>. QED  BY <3>1, SendAdds DEF Sent
    <2>. QED
      BY <1>1, <1>6, <2>1 DEF GatewayStep, AttachGateway, RefuseGateway, ReadBody, PickAgent,
         TakeFrame, WriteChunk, StreamEnds, DetachGateway, channels
  <1>7. ASSUME NEW c \in Calls, CallStep(c) PROVE Sent(a, queue'[a][i])
    <2>1. CASE Ask(c)
      <3>1. held[c] \in Peers /\ sendControl(held[c], RequestIdOf[c])
        BY <2>1 DEF Ask, TypeOK, sendControl
      <3>. QED  BY <1>2, <1>3, <3>1
    <2>. QED
      BY <1>1, <1>7, <2>1 DEF CallStep, Register, RefuseCall, WaitEnds, Cleanup, channels
  <1>8. ASSUME NEW x \in Mobiles \cup Gateways, Disconnect(x) PROVE Sent(a, queue'[a][i])
    <2>1. held[x] \in Peers /\ sendControl(held[x], Notice)
      BY <1>8 DEF Disconnect, TypeOK
    <2>. QED  BY <1>2, <1>3, <2>1
  <1>9. ASSUME NEW m \in Mobiles, MobileStep(m) PROVE Sent(a, queue'[a][i])
    BY <1>1, <1>9 DEF MobileStep, AttachMobile, RefuseMobile, InitialState, ReceiveFromMobile,
       DetachMobile, channels
  <1>10. CASE \/ \E x \in Revocable : Revoke(x)
              \/ \E x \in Peers \cup Gateways : Connect(x)
              \/ MapRace \/ UNCHANGED vars
    BY <1>1, <1>10 DEF Revoke, Connect, MapRace, vars, channels
  <1>. QED
    BY <1>4, <1>5, <1>6, <1>7, <1>8, <1>9, <1>10 DEF Next, Terminated

\* A request looks up the agent in charge, and its frame stays where it was queued.
LEMMA StrayStep ==
    TypeOK /\ Placed /\ UnderItsAgent /\ GatewaysBelongToAgent /\ FramesOwnOrOver /\ [Next]_vars
        => FramesOwnOrOver'
  <1>. SUFFICES ASSUME TypeOK, Placed, UnderItsAgent, GatewaysBelongToAgent, FramesOwnOrOver,
                       [Next]_vars
                PROVE  FramesOwnOrOver'
    OBVIOUS
  <1>. USE Kinds
  <1>1. ASSUME NEW g \in Gateways, NEW a \in Agents, NEW i \in DOMAIN queue'[a], queue'[a][i] = g
        PROVE  OwnOrOver(g, a)'
    <2>1. Sent(a, g)
      BY <1>1, QueueFrom
    <2>2. OwnOrOver(g, a)
      BY <2>1 DEF Sent, FramesOwnOrOver
    <2>. QED  BY <2>2, OverStays
  <1>2. ASSUME NEW g \in Gateways, NEW a, pc'[g] = "frames", held'[g] = a, a # None
        PROVE  OwnOrOver(g, a)'
    <2>1. CASE pc[g] = "frames" /\ held'[g] = held[g]
      <3>1. a \in Agents /\ OwnOrOver(g, a)
        BY <1>2, <2>1 DEF TypeOK, FramesOwnOrOver
      <3>. QED  BY <3>1, OverStays
    <2>2. CASE PickAgent(g)
      <3>1. /\ pc[g] = "frames" /\ held'[g] = agent
            /\ UNCHANGED <<gateways, under>>
        BY <2>2 DEF PickAgent, registry, TypeOK
      <3>2. under[g] # None
        BY <3>1 DEF Placed, Proxied
      <3>. QED  BY <1>2, <3>1, <3>2 DEF OwnOrOver, GatewaysBelongToAgent
    <2>3. CASE \/ pc'[g] = pc[g] /\ held'[g] = held[g]
               \/ pc'[g] # "frames" \/ held'[g] = None
      BY <1>2, <2>1, <2>3
    <2>4. ASSUME GatewayStep(g), ~PickAgent(g)
          PROVE  \/ pc'[g] = pc[g] /\ held'[g] = held[g]
                 \/ pc'[g] # "frames" \/ held'[g] = None
      <3>1. CASE ReadBody(g)
        BY <3>1 DEF ReadBody, TypeOK, channels
      <3>2. CASE SendFrame(g)
        BY <3>2 DEF SendFrame, TypeOK
      <3>3. CASE \/ AttachGateway(g) \/ RefuseGateway(g) \/ TakeFrame(g) \/ WriteChunk(g)
                 \/ StreamEnds(g) \/ DetachGateway(g)
        <4>1. \E l \in {"body", "done", "stream", "write", "detach", "disconnect"} : Goto(g, l)
          BY <3>3 DEF AttachGateway, RefuseGateway, TakeFrame, WriteChunk, StreamEnds,
             DetachGateway
        <4>. QED  BY <4>1, GotoMoves
      <3>. QED  BY <2>4, <3>1, <3>2, <3>3 DEF GatewayStep
    <2>5. CASE MapRace
      BY <1>2, <2>5 DEF MapRace
    <2>6. ASSUME ~MapRace, ~GatewayStep(g)
          PROVE  \/ pc'[g] = pc[g] /\ held'[g] = held[g]
                 \/ pc'[g] # "frames"
      BY <2>6, AgentFrame, MobileFrame, PeerFrame, GatewayFrame, CallFrame, AnyFrame
         DEF Next, Terminated
    <2>. QED  BY <2>2, <2>3, <2>4, <2>5, <2>6
  <1>. QED  BY <1>1, <1>2 DEF FramesOwnOrOver

\* A frame that goes to another agent than the one that accepted its request belongs
\* to a request that is over (sendGatewayFrame, attachGateway, detach).
THEOREM StraysAreOver == Spec => []StrayFramesAreOver
  <1>1. Init => FramesOwnOrOver
    <2>. SUFFICES ASSUME Init PROVE FramesOwnOrOver
      OBVIOUS
    <2>1. (\A x \in Procs : pc[x] \in {"idle", "done"}) /\ \A a \in Agents : queue[a] = <<>>
      BY Kinds DEF Init
    <2>. QED  BY <2>1, Kinds DEF FramesOwnOrOver
  <1>2. Spec => []FramesOwnOrOver
    BY <1>1, StrayStep, Typing, Placing, Tracing, Belonging, PTL DEF Spec
  <1>3. FramesOwnOrOver /\ Promised!NoRequestForgotten => StrayFramesAreOver
    BY DEF FramesOwnOrOver, OwnOrOver, StrayFramesAreOver, Promised!NoRequestForgotten
  <1>. QED  BY <1>2, <1>3, NothingForgotten, PTL
=============================================================================
