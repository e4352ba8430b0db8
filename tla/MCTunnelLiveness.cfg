SPECIFICATION FairSpec
CONSTANTS
    None = None
    a1 = a1
    a2 = a2
    m1 = m1
    m2 = m2
    g1 = g1
    g2 = g2
    c1 = c1
    c2 = c2
    r1 = r1
    Agents = {a1, a2}
    GatewayAgents = {a1, a2}
    DiscoveryAgents = {a1, a2}
    Mobiles = {m1}
    Gateways = {g1}
    Calls = {c1}
    RequestIds = {r1}
    RequestIdOf <- OneCall
    Revocable = {a1, m1, g1}
    Casts <- LivenessCasts
    MaxMobiles = 1
    MaxGateways = 1
    SendCap = 1
    FrameCap = 1
    MaxParts = 2
PROPERTIES
    LockReleased
    RevokedPeerLeaves
    CallEnds
    OrphanedGatewayEnds
