SPECIFICATION Spec
CONSTANTS
    Staged = 1
    Cadence = 1
    Retry = 2
    Batch = 1
    MaxInputs = 5
    MaxFaults = 2
    MaxResets = 1
    Allowed = {"commit", "settle"}
    None = None
PROPERTIES
    DiscardRemovesItsOwn
CHECK_DEADLOCK FALSE
