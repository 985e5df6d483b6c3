SPECIFICATION FairSpec
CONSTANTS
    r1 = r1
    r2 = r2
    None = None
    Null = Null
    Region = "local"
    Service = "s3"
    MaxSkew = 1
    DayLength = 4
    Host = 1
    Digest = {"b1", "b2"}
    Request = {r1, r2}
    Wire <- Wires
    Offer <- Offers
    Name <- Names
    Reserved <- ReservedTexts
    User <- Users
    Key <- Keys
    Object <- Objects
    InitRow <- InitRows
    Hook = 1
    MaxClock = 2
    MaxFaults = 2
    MaxCrashes = 1
CHECK_DEADLOCK FALSE
INVARIANTS
    AnswersAreTrue
    RowHasDirectory
    ListingIsExact
PROPERTIES
    VerdictIsJust
    EveryAnswer
