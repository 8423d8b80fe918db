SPECIFICATION Spec
CONSTANTS
    Slots = 4
    Page = 3
    Delta = 3
    Reserve = 7
    MaxBoots = 2
    MaxRefusedBoots = 1
    MaxIdle = 1
    None = None
    Footer = Footer
    Faults = {"sync", "commit"}
INVARIANTS
    TypeOK
    RecordedMatchesCrc
    AcknowledgedSurvives
    PublishedIsWhole
    Retriable
CHECK_DEADLOCK FALSE
