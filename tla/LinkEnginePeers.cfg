SPECIFICATION Spec
CONSTANTS
    Links = {Ble, Usb}
    Usb = Usb
    Opcodes = {"GET"}
    Requests = {r1, r2}
    Payloads <- MCPayloads
    Frames <- MCFrames
    Ceilings = {2}
    Stage = 2
    MaxObject = 1
    MaxRevision = 2
    MaxSequence = 2
    MaxOffset = 2
    Rows = 1
    Holds = 1
    Timeout = 2
    Wrap = 3
    Faults = {}
    None = None
INVARIANTS
    AnswersReachTheAsker
PROPERTIES
    EveryTransferEnds
