\* One job per attempt; answers are lost, writes are not; others rerun too.
SPECIFICATION Spec
CONSTANTS
    Count = 3
    Width = 1
    MaxRetries = 2
    Polls = 3
    Delay = 2
    MaxAttempt = 5
    MaxSent = 2
    MaxMissed = 1
    ServerErrors = FALSE
    Prunes = FALSE
    Stops = FALSE
    OthersRerun = TRUE
CHECK_DEADLOCK FALSE
INVARIANTS
    RetriesBounded
    NoneMissed
    PendingIsRevisited
