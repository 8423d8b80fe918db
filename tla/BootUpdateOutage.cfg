SPECIFICATION Spec
CONSTANTS
    Images = {v0, good, bad}
    Healthy = {v0, good}
    Factory = v0
    None = None
    Torn = Torn
    AbandonRounds = 2
    FlashPasses = 2
    MaxGeneration = 1
    MaxCuts = 1
    Faults = {"card", "touched_outage"}
INVARIANTS
    NeverJumpsTorn
CHECK_DEADLOCK FALSE
