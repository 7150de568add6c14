\* Two jobs; the process stops and writes fail anywhere, until faults end.
SPECIFICATION FairSpec
CONSTANTS
    Count = 3
    Width = 2
    MaxRetries = 2
    Polls = 2
    Delay = 1
    MaxAttempt = 3
    MaxSent = 1
    MaxMissed = 1
    ServerErrors = TRUE
    Prunes = TRUE
    Stops = TRUE
    OthersRerun = FALSE
CHECK_DEADLOCK FALSE
INVARIANTS
    NoRetryWasted
    RerunsAccounted
PROPERTIES
    InterruptionIsClosed
