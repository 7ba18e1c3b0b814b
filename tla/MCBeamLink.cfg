\* One tool beams a file to another over a line that loses frames.
CONSTANTS
    Files <- MCFiles
    None = None
    Units <- MCUnits
    TextFiles <- MCTextFiles
    Modulus = 8
    MaxRetries = 2
    MaxChunk = 2
    Grant = 1
    LastSlot = 2
    AnswerSlot = 1
    MaxSends = 2
    MaxFaults = 2
SPECIFICATION FairSpec
INVARIANTS
    NeverStarved
    FewFrames
PROPERTIES
    ImplementsTransfer
    LossIsRepaired
    SendEnds
ACTION_CONSTRAINT
    OneMemo
CHECK_DEADLOCK FALSE
