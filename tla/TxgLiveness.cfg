CONSTANTS
    Txs = {t1}
    Waiters = {w1}
    SyncThread = SyncThread
    QuiesceThread = QuiesceThread
    StopThread = StopThread
    NoThread = NoThread
    NCPU = 1
    InitTxg = 4
    MaxTxg = 7
    MaxCallbacks = 0
SPECIFICATION FairSpec
CHECK_DEADLOCK FALSE
INVARIANTS
    OpenTxgReadsAgree
PROPERTIES
    WaitersReturn
    QuiesceRequestsServed
    StopTerminates
