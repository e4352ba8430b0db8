---------------------------- MODULE AgentRegistry ----------------------------
(***************************************************************************)
(* What the tunnel promises about one key to those who send requests to its  *)
(* agent (attach, attachGateway and detach of tunnel.go), without locks,     *)
(* goroutines and the visits after an unlock: one agent is in charge, a      *)
(* request is accepted by it once, and whoever loses its agent is cut off in *)
(* that same step.  Tunnel implements it.                                    *)
(***************************************************************************)
EXTENDS Naturals, FiniteSets

CONSTANTS
    Agents,         \* connections of agents
    GatewayAgents,  \* those that take requests
    Requests,       \* proxied requests
    Limit,          \* how many an agent takes at a time
    None            \* no agent

VARIABLES
    agent,     \* the agent in charge, or None
    gone,      \* the agents whose connection is closed
    accepted,  \* the requests the agent in charge works on
    by,        \* the agent that accepted a request, or None
    cut        \* the requests that are over for their agent

vars == <<agent, gone, accepted, by, cut>>

Init ==
    /\ agent = None /\ gone = {} /\ accepted = {} /\ cut = {}
    /\ by = [g \in Requests |-> None]

\* The newest agent takes over: its predecessor and all its requests are closed.
Join(a) ==
    /\ agent' = a
    /\ gone' = gone \cup ({agent} \ {None})
    /\ accepted' = {} /\ cut' = cut \cup accepted
    /\ UNCHANGED by

\* Only an agent whose own connection is closed leaves.
Leave ==
    /\ agent \in gone
    /\ agent' = None
    /\ accepted' = {} /\ cut' = cut \cup accepted
    /\ UNCHANGED <<gone, by>>

\* A connection breaks, or is closed by the server.
Close(a) ==
    /\ gone' = gone \cup {a}
    /\ UNCHANGED <<agent, accepted, by, cut>>

Accept(g) ==
    /\ agent \in GatewayAgents /\ Cardinality(accepted) < Limit
    /\ by[g] = None
    /\ accepted' = accepted \cup {g}
    /\ by' = [by EXCEPT ![g] = agent]
    /\ UNCHANGED <<agent, gone, cut>>

\* A request ends, or its response is given up and it ends later.
End(g) ==
    /\ by[g] # None
    /\ accepted' \in {accepted, accepted \ {g}}
    /\ cut' = cut \cup {g}
    /\ UNCHANGED <<agent, gone, by>>

\* The process ends and everything with it.
Crash ==
    /\ agent' = None /\ gone' = Agents
    /\ accepted' = {} /\ cut' = Requests
    /\ UNCHANGED by

Next ==
    \/ \E a \in Agents : Join(a) \/ Close(a)
    \/ \E g \in Requests : Accept(g) \/ End(g)
    \/ Leave \/ Crash

Spec == Init /\ [][Next]_vars

-----------------------------------------------------------------------------
\* What is accepted is so by the agent in charge, which takes requests, and an
\* accepted request is never forgotten: the agent in charge works on it, or it was
\* cut off (attach, attachGateway, detach).
NoRequestForgotten ==
    /\ \A g \in accepted : by[g] = agent /\ agent \in GatewayAgents
    /\ \A g \in Requests : by[g] # None => g \in accepted \cup cut
=============================================================================
