SPECIFICATION Spec
CONSTANTS
    ExtentCount = 2
    Payload = {p1}
    Ill = Ill
    None = None
    MaxSequence = 4
    MaxObjectId = 3
    MaxRevision = 3
    Capacity = 2
    MaxRanges = 2
    MaxBatch = 2
    MaxReservations = 1
    MaxOpen = 0
    MaxReaders = 2
    Flags = {"plain"}
    MaxSealed = 0
    MaxListings = 0
    Faults = {"write", "sync", "cut"}
INVARIANTS
    TypeOK
    CommittedPayloadIntact
    ServesTruth
PROPERTIES
    ImplementsAtomicCatalog
