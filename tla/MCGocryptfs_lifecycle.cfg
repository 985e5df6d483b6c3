SPECIFICATION FairSpec
CONSTANTS
    r1 = r1
    r2 = r2
    None = None
    Before = Before
    Request = {r1, r2}
    MaxFaults = 2
    MaxUnplugs = 1
    MaxCrashes = 1
CHECK_DEADLOCK FALSE
INVARIANTS
    Recoverable
    RotationsChain
    MountedIsReady
    OneRoot
    EncryptedAtRest
PROPERTIES
    EveryRequestEnds
    WatchdogUnmounts
