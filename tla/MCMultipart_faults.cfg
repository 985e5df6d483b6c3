SPECIFICATION FairSpec
CONSTANTS
    r1 = r1
    r2 = r2
    r3 = r3
    r4 = r4
    None = None
    Other = Other
    Request = {r1, r2, r3, r4}
    Part = {1}
    FsyncMayFail = FALSE
    MaxFaults = 2
    MaxCrashes = 1
INVARIANTS
    PartRecoverable
    ObjectRecoverable
    FailuresAreUndone
    EndIsFinal
    NoSilentLeak
PROPERTIES
    ImplementsSession
    CommittedBytes
    EveryRequestEnds
