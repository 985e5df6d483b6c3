SPECIFICATION AnySpec
CONSTANTS
    x = x
    y = y
    CR = CR
    LF = LF
    Semi = Semi
    Space = Space
    Minus = Minus
    Plus = Plus
    Under = Under
    Ex = Ex
    Other <- Bytes
    Body <- NegativeAndCut
    Unknown = Unknown
    Chunk = 16
    LineMax = 4
    MaxBytes = 27
    Local <- Contents
    Old <- OldContent
    None = None
    MaxFaults = 2
CHECK_DEADLOCK FALSE
INVARIANT
    OnlyWholePayloadIsStored
