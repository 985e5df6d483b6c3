SPECIFICATION FairSpec
CONSTANTS
    r1 = r1
    r2 = r2
    r3 = r3
    d1 = d1
    None = None
    Dir = Dir
    Upload = {r1, r2}
    Download = {d1}
    Name <- Names
    Path <- NestedPaths
    Key <- NestedPaths
    FsyncMayFail = FALSE
    MaxFaults = 2
    MaxCrashes = 1
INVARIANTS
    RowHasFile
    Recoverable
    BytesFollowRow
    NoSilentLeak
    KeysAreLeaves
    RowIsServed
PROPERTIES
    EveryUploadEnds
