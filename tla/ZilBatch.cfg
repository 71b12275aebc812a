SPECIFICATION FairSpec
CONSTANTS
    t1 = t1 t2 = t2 t3 = t3 a = a b = b
    Threads = {t1, t2, t3}
    Objects = {a, b}
    Scenarios <- Live
    BlkRecs = 1
    InitTxg = 4
    MaxTxg = 14
    MaxBlk = 8
PROPERTY CallsReturn
CHECK_DEADLOCK FALSE
