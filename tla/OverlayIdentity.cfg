\* A controller that stops, or loses its revision, between a create and its receipt.
SPECIFICATION Spec
CONSTANTS
    Operators = {o1}
    Ids = {x1, x2}
    Agents = {}
    Cidrs <- MCCidrs
    MaxAttempts = 1
    CreateProven = FALSE
CHECK_DEADLOCK FALSE
INVARIANT
    RestartRecoversIdentity
