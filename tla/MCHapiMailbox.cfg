SPECIFICATION Spec
CONSTANTS
    None = None
    p1 = p1
    p2 = p2
    r1 = r1
    r2 = r2
    s1 = s1
    s2 = s2
    s3 = s3
    Senders = {s1, s2, s3}
    RequestIds = {r1, r2}
    RequestOf <- Retried
    Pollers = {p1, p2}
SYMMETRY Symmetric
INVARIANTS
    TypeOK
    LeaseFollowsRequest
PROPERTIES
    ImplementsQueue
