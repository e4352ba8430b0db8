SPECIFICATION Spec
CONSTANTS
    None = None
    s1 = s1
    s2 = s2
    q1 = q1
    e1 = e1
    e2 = e2
    r1 = r1
    r2 = r2
    Shares = {s1, s2}
    Requests = {q1}
    Events = {e1, e2}
    Reporters = {r1, r2}
    Limits = {0, 1, 2}
    LastDay = 2
SYMMETRY Symmetric
INVARIANTS
    TypeOK
    TotalsMatchEvents
PROPERTIES
    ImplementsLedger
