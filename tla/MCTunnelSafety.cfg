SPECIFICATION Spec
CONSTANTS
    None = None
    a1 = a1
    a2 = a2
    m1 = m1
    m2 = m2
    g1 = g1
    g2 = g2
    c1 = c1
    c2 = c2
    r1 = r1
    Agents = {a1, a2}
    GatewayAgents = {a1, a2}
    DiscoveryAgents = {a1, a2}
    Mobiles = {m1, m2}
    Gateways = {g1, g2}
    Calls = {c1, c2}
    RequestIds = {r1}
    RequestIdOf <- SameRequestId
    Revocable = {}
    Casts <- SafetyCasts
    MaxMobiles = 1
    MaxGateways = 1
    SendCap = 1
    FrameCap = 1
    MaxParts = 1
SYMMETRY Symmetric
INVARIANTS
    TypeOK
    RegistryMatchesHandlers
    MobileHoldsSlot
    GatewaysBelongToAgent
    ResponseFromOwnAgent
    WaiterReachable
    StrayFramesAreOver
PROPERTIES
    EvictsOnlyItsOwn
    ImplementsRegistry
