CONSTANTS
    t1 = t1
    t2 = t2
    h1 = h1
    a = a
    b = b
    Threads = {t1, t2, h1}
    Writers = {t1, t2}
    Helpers = {h1}
    Parent <- OneHelper
    Tags = {a, b}
    NoThread = NoThread
    NumLocks = 1
    TdLock <- SingleLock
    MaxHolds = 2
SPECIFICATION FairSpec
INVARIANTS
    WriterExcludes
    CountsExact
    ReentryNeverSleeps
PROPERTIES
    WritersNotStarved
