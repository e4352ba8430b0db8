SPECIFICATION Spec
CONSTANTS
    None = None
    u1 = u1
    u2 = u2
    u3 = u3
    q1 = q1
    q2 = q2
    s1 = s1
    s2 = s2
    Users = {u1, u2}
    Bootstrap = u1
    Sessions = {s1, s2}
    Requests = {q1, q2}
SYMMETRY SymmetricRequests
INVARIANTS
    TypeOK
PROPERTIES
    SessionsEndWithAccount
    EstablishedAccountsKept
