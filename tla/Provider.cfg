\* One allocation on each of the three clouds, until faults end.
SPECIFICATION FairSpec
CONSTANTS
    MaxAttempts = 3
    Zone <- MCZone
CHECK_DEADLOCK FALSE
INVARIANTS
    AbsenceIsReal
    VMGoesFirst
    DiskIsTagged
    InterruptionIsOwn
PROPERTIES
    RefusalIsOwn
    DeletionEnds
    CreationSettles
