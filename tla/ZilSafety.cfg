SPECIFICATION Spec
CONSTANTS
    t1 = t1 t2 = t2 t3 = t3 a = a b = b
    Threads = {t1, t2, t3}
    Objects = {a, b}
    Scenarios <- Safe
    BlkRecs = 1
    InitTxg = 4
    MaxTxg = 20
    MaxBlk = 10
INVARIANTS  ReplayOnce  
CHECK_DEADLOCK FALSE
