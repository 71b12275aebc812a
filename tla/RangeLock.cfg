SPECIFICATION Spec
CONSTANTS
    Threads = {t1, t2, t3}
    Proxy = Proxy
    Ops <- Calls
    Files <- SomeFiles
    z_max_blksz = 2
    MAXOFFSET = 4
    SPA_MAXBLOCKSIZE = 4
    MaxCalls = 4
INVARIANTS WriterExcludes TreeExact SleepersBlocked ReduceAlone BlockStable AppendsKeepData
SYMMETRY Symmetry
CHECK_DEADLOCK FALSE
