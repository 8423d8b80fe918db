SPECIFICATION Spec
CONSTANTS
    Links = {Ble, Usb}
    Usb = Usb
    Opcodes = {"GET", "REMOVE", "ARM", "ARCHIVE", "FORMAT"}
    Requests = {r1}
    Payloads <- MCPayloads
    Frames <- MCFrames
    Ceilings = {2}
    Stage = 2
    MaxObject = 2
    MaxRevision = 2
    MaxSequence = 3
    MaxOffset = 2
    Rows = 1
    Holds = 1
    Timeout = 2
    Wrap = 3
    Faults = {"read", "write", "commit", "fence"}
    None = None
INVARIANTS
    TypeOK
    NothingLeaks
    PublishedIsDeclared
PROPERTIES
    NoLostUpdate
