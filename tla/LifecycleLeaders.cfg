\* Two overlapping leaders over clouds that prove the create commitment.
SPECIFICATION Spec
CONSTANTS
    c1 = c1
    c2 = c2
    a1 = a1
    z1 = z1
    z2 = z2
    g1 = g1
    g2 = g2
    NoPool = NoPool
    Controllers = {c1, c2}
    Sessions = {c1, c2}
    Pools = {g1, g2}
    Provider <- MCProvider
    LateKinds = {"gcp"}
    MaxAttempts = 2
CHECK_DEADLOCK FALSE
INVARIANTS
    TypeOK
    NoOrphan
    OneAttemptAtATime
    TerminalDeregistered
PROPERTIES
    NothingForgotten
    NoStaleDecision
    KeepsContract
