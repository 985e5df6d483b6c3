SPECIFICATION FairSpec
CONSTANTS
    x = x
    y = y
    CR = CR
    LF = LF
    Semi = Semi
    Space = Space
    Minus = Minus
    Plus = Plus
    Under = Under
    Ex = Ex
    Other <- Bytes
    Body <- Bodies
    Unknown = Unknown
    Chunk = 3
    LineMax = 4
    MaxBytes = 27
    Local <- Contents
    Old <- OldContent
    None = None
    MaxFaults = 2
CHECK_DEADLOCK FALSE
INVARIANTS
    DecodedAsEncoded
    TempIsRemoved
PROPERTIES
    ImplementsAtomicFile
    EveryWriteEnds
