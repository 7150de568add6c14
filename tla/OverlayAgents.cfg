\* One controller that may crash anywhere, three allocations, the agent on one VM.
SPECIFICATION FairSpec
CONSTANTS
    Operators = {o1}
    Ids = {x1, x2, x3}
    Agents = {x1}
    Cidrs <- MCCidrs
    MaxAttempts = 1
    CreateProven = FALSE
CHECK_DEADLOCK FALSE
PROPERTY
    TunnelsConverge
