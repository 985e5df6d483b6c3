SPECIFICATION Spec
CONSTANTS
    r1 = r1
    r2 = r2
    r3 = r3
    d1 = d1
    None = None
    Dir = Dir
    Upload = {r1, r2}
    Download = {}
    Name <- Names
    Path <- OnePath
    Key <- OnePath
    FsyncMayFail = TRUE
    MaxFaults = 2
    MaxCrashes = 0
INVARIANTS
    Recoverable
