SPECIFICATION Spec
CONSTANTS
    Images = {v0, good, bad}
    Healthy = {v0, good}
    Factory = v0
    None = None
    Torn = Torn
    AbandonRounds = 2
    FlashPasses = 2
    MaxGeneration = 2
    MaxCuts = 2
    Faults = {"card", "rram", "page", "page_torn", "marker", "clear", "store"}
INVARIANTS
    TypeOK
    TornSlotIsRepairable
    RunningImageTruthful
CHECK_DEADLOCK FALSE
