SPECIFICATION Spec
CONSTANTS
    r1 = r1
    r2 = r2
    None = None
    Null = Null
    Region = "local"
    Service = "s3"
    MaxSkew = 1
    DayLength = 4
    Host = 1
    Digest = {"b1", "b2"}
    Request = {r1, r2}
    Wire <- Wires
    Offer <- PrefixOffers
    Name <- Names
    Reserved <- ReservedTexts
    User <- Users
    Key <- Keys
    Object <- Objects
    InitRow <- InitRows
    Hook = 1
    MaxClock = 0
    MaxFaults = 0
    MaxCrashes = 0
CHECK_DEADLOCK FALSE
INVARIANT
    ListsWhatBegins
