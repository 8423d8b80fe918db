SPECIFICATION Spec
CONSTANTS
    ExtentCount = 2
    Payload = {p1, p2}
    Ill = Ill
    None = None
    MaxSequence = 4
    MaxObjectId = 2
    MaxRevision = 3
    Capacity = 2
    MaxRanges = 2
    MaxBatch = 2
    MaxReservations = 1
    MaxOpen = 1
    MaxReaders = 2
    Flags = {"plain", "recording", "reserved"}
    MaxSealed = 1
    MaxListings = 0
    Faults = {"cut"}
SYMMETRY Symmetry
INVARIANTS
    PinnedBytesStable
    HeldKeyIsLiveKey
    FreeMapExact
