SPECIFICATION Spec
CONSTANTS
    Half = 2
    Declared = 6
    Lengths = {1}
    Narrow = TRUE
    Pipelined = TRUE
    MaxPut = 2
    MaxDrops = 1
    MaxAsks = 1
    None = None
INVARIANTS
    TypeOK
    BufferIsSomewhere
    AnswerOnItsWay
    ArenaOutlivesDma
    PublishedIsSent
PROPERTIES
    NoCopyUnderDma
