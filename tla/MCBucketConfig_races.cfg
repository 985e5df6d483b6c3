SPECIFICATION Spec
CONSTANTS
    r1 = r1
    r2 = r2
    r3 = r3
    r4 = r4
    Null = Null
    Request = {r1, r2, r3, r4}
    Rule <- Rules
    MaxFaults = 1
SYMMETRY Symmetry
CHECK_DEADLOCK FALSE
INVARIANTS
    AcknowledgedLockHolds
PROPERTIES
    LockIsForever
