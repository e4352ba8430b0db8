SPECIFICATION FairSpec
CONSTANTS
    None = None
    Owner = o
    Grantees = {g1}
    Admins = {}
    Shares = {s1}
    Leases = {l1}
    Requests = {r1}
    Policies = {p1, p2}
    Handlers = {h1, h2}
    MaxVersion = 2
INVARIANTS
    TypeOK
    VersionNamesPolicy
PROPERTIES
    ClosedShareStaysClosed
    WithdrawnAccessEnds
