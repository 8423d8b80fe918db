SPECIFICATION FairSpec
CONSTANTS
    Images = {v0, good, bad}
    Healthy = {v0, good}
    Factory = v0
    None = None
    Torn = Torn
    AbandonRounds = 2
    FlashPasses = 2
    MaxGeneration = 2
    MaxCuts = 1
    Faults = {"card", "rram", "store", "swd", "page", "marker"}
INVARIANTS
    ConfirmedIsRunning
    SnapshotIsRestorable
PROPERTIES
    FailedTrialIsReplaced
    BootEnds
CHECK_DEADLOCK FALSE
