SPECIFICATION DeviceSpec
CONSTANTS
    None = None
    h1 = h1
    h2 = h2
    u1 = u1
    u2 = u2
    Users = {u1, u2}
    Handlers = {h1, h2}
    Casts <- Everyone
SYMMETRY Symmetric
PROPERTIES
    DeviceStaysWithOwner
