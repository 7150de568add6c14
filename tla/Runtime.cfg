\* Two scale sets of one name, two edits, one loss of the checkpoint, until faults end.
SPECIFICATION FairSpec
CONSTANTS
    MaxUid = 2
    MaxEdits = 2
    Losses = 1
INVARIANTS
    LoadedTogether
    Protected
    WorkerFollowsCheckpoint
PROPERTIES
    KeepsUserEdits
    ReadyIsEarned
    DeletionCompletes
    ConfigurationRuns
