------------------------------ MODULE MCTunnel ------------------------------
(* Small instances of Tunnel for TLC. *)
EXTENDS Tunnel, TLC

CONSTANTS a1, a2, m1, m2, g1, g2, c1, c2, r1

\* Two calls that use the same request id.
SameRequestId == (c1 :> r1) @@ (c2 :> r1)

\* No discovery calls.
NoRequestIds == [c \in {} |-> None]

\* An agent is replaced around a phone, two calls or two requests; two phones
\* meet one agent.
SafetyCasts == {{a1, a2, m1}, {a1, m1, m2}, {a2, m1, m2}, {a1, a2, c1, c2},
                {a1, a2, g1, g2}}

\* Agents, and requests, are interchangeable.
Symmetric == Permutations({a1, a2}) \cup Permutations({g1, g2})

\* A phone, a request or a call meets an agent; any of the connections and the
\* request may lose its access.
LivenessCasts == {{a1, m1}, {a1, g1}, {a1, c1}, {a1, a2}}
OneCall == c1 :> r1

\* A gateway-capable agent, a legacy agent and a request.
LegacyCasts == {{a1, a2, g1}}
=============================================================================
