\* One leader in every worker mode, stopped between any two writes, until faults end.
SPECIFICATION FairSpec
CONSTANTS
    Operators = {o1}
    Workers = {"session", "recovery", "cleanup"}
    Ids = {x1, x2}
    MaxRunners = 2
    DailyBudget = 1
    RetainedLimit = 2
    Demands = {0, 1, 2, 3}
    LastDay = 1
CHECK_DEADLOCK FALSE
INVARIANTS
    WithinBudget
    DrainedIsFinal
PROPERTIES
    DrainCompletes
