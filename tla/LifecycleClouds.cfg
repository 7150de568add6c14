\* One leader that may crash anywhere, over all three clouds, until faults end.
SPECIFICATION FairSpec
CONSTANTS
    c1 = c1
    c2 = c2
    a1 = a1
    z1 = z1
    z2 = z2
    g1 = g1
    g2 = g2
    NoPool = NoPool
    Controllers = {c1}
    Sessions = {c1}
    Pools = {a1, z1, z2, g1}
    Provider <- MCProvider
    LateKinds = {"gcp"}
    MaxAttempts = 2
CHECK_DEADLOCK FALSE
INVARIANTS
    NoOrphan
PROPERTIES
    RetiredIsReleased
    ExpiredIsReleased
