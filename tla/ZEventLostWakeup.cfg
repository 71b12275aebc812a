CONSTANTS
    Posters = {p1}
    Readers = {r1}
    Seekers = {}
    NoReader = NoReader
    LenMax = 2
    MaxEid = 2
    MaxLimited = 0
    MaxClears = 0
    MaxSeeks = 0
    p1 = p1
    r1 = r1
SPECIFICATION FairSpec
PROPERTIES
    EventsReachReaders
CHECK_DEADLOCK FALSE
