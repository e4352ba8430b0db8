SPECIFICATION Spec
CONSTANTS
    None = None
    a1 = a1
    a2 = a2
    c1 = c1
    c2 = c2
    h1 = h1
    h2 = h2
    h3 = h3
    k1 = k1
    u1 = u1
    u2 = u2
    Users = {u1, u2}
    Handlers = {h1, h2, h3}
    Casts <- DeviceOrCodes
    Codes = {c1, c2}
    Creators = {k1}
    Agents = {a1, a2}
SYMMETRY Symmetric
INVARIANTS
    TypeOK
    TokensBelongToOwner
    ResetIsLastOwners
    UsedUpOnce
PROPERTIES
    ConfirmedForOwner
