SPECIFICATION Spec
CONSTANTS
    None = None
    p1 = p1
    p2 = p2
    p3 = p3
    k1 = k1
    k2 = k2
    k3 = k3
    k4 = k4
    Processes = {p1, p2, p3}
    Seeds = {k1, k2, k3, k4}
    Given <- OneConfigured
SYMMETRY Symmetric
INVARIANTS
    TypeOK
    OneKey
