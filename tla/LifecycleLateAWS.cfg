\* A RunInstances call whose answer is lost and that takes effect later.
SPECIFICATION Spec
CONSTANTS
    c1 = c1
    c2 = c2
    a1 = a1
    z1 = z1
    z2 = z2
    g1 = g1
    g2 = g2
    NoPool = NoPool
    Controllers = {c1}
    Sessions = {c1}
    Pools = {a1}
    Provider <- MCProvider
    LateKinds = {"aws"}
    MaxAttempts = 1
CHECK_DEADLOCK FALSE
INVARIANT
    ConfirmedAbsentIsClean
