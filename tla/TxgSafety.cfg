CONSTANTS
    Txs = {t1, t2}
    Waiters = {}
    SyncThread = SyncThread
    QuiesceThread = QuiesceThread
    StopThread = StopThread
    NoThread = NoThread
    NCPU = 2
    InitTxg = 4
    MaxTxg = 10
    MaxCallbacks = 1
SPECIFICATION Spec
SYMMETRY Symmetry
CHECK_DEADLOCK FALSE
INVARIANTS
    HoldCountsExact
    StopLosesNothing
    CallbacksFollowSync
PROPERTIES
    OpenTxgSteps
    ImplementsGroups
