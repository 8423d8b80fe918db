SPECIFICATION Spec
CONSTANTS
    Staged = 1
    Cadence = 1
    Retry = 2
    Batch = 1
    MaxInputs = 5
    MaxFaults = 1
    MaxResets = 1
    Allowed = {"jump", "start", "journal", "commit", "damage"}
    None = None
INVARIANTS
    TypeOK
    TotalsMatch
    NothingStagedIsLost
    SegmentsAreContinuous
PROPERTIES
    DiscardRemovesItsOwn
    SaveCompletes
CHECK_DEADLOCK FALSE
