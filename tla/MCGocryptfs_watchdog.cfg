SPECIFICATION FairSpec
CONSTANTS
    r1 = r1
    r2 = r2
    None = None
    Before = Before
    Request = {r1, r2}
    MaxFaults = 0
    MaxUnplugs = 1
    MaxCrashes = 0
CHECK_DEADLOCK FALSE
PROPERTIES
    UnmountedWithoutSecrets
