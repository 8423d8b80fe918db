SPECIFICATION Spec
CONSTANTS
    ExtentCount = 2
    Payload = {p1}
    Ill = Ill
    None = None
    MaxSequence = 4
    MaxObjectId = 2
    MaxRevision = 3
    Capacity = 2
    MaxRanges = 2
    MaxBatch = 2
    MaxReservations = 2
    MaxOpen = 1
    MaxReaders = 2
    Flags = {"plain"}
    MaxSealed = 0
    MaxListings = 1
    Faults = {"cut", "sync", "rot", "find_read"}
INVARIANTS
    CatalogAlwaysMounts
    ListingConsistent
    ReservationsExclusive
