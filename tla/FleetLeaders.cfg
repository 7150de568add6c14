\* Two leaders overlap; two allocations, one runner.
SPECIFICATION Spec
CONSTANTS
    Operators = {o1, o2}
    Workers = {"session"}
    Ids = {x1, x2}
    MaxRunners = 1
    DailyBudget = 0
    RetainedLimit = 2
    Demands = {0, 1, 2}
    LastDay = 1
SYMMETRY IdSymmetry
CHECK_DEADLOCK FALSE
INVARIANTS
    TypeOK
    CapacityBound
    SlotAccounting
    NothingLost
