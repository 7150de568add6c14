\* Two leaders overlap; two allocations, two attempts each.
SPECIFICATION Spec
CONSTANTS
    Operators = {o1, o2}
    Ids = {x1, x2}
    Agents = {}
    Cidrs <- MCCidrs
    MaxAttempts = 2
    CreateProven = TRUE
SYMMETRY OverlaySymmetry
CHECK_DEADLOCK FALSE
INVARIANTS
    AddressesDistinct
    IdentityMatches
