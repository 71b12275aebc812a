CONSTANTS
    Posters = {p1}
    Readers = {r1, r2}
    Seekers = {r2}
    NoReader = NoReader
    LenMax = 2
    MaxEid = 3
    MaxLimited = 1
    MaxClears = 1
    MaxSeeks = 1
    p1 = p1
    r1 = r1
    r2 = r2
SPECIFICATION FairSpec
INVARIANTS
    DeliveryInOrder
    
PROPERTIES
    FiniTerminates
    AwakeReadersCatchUp
CHECK_DEADLOCK FALSE
