SPECIFICATION FairSpec
CONSTANTS
    a = a b = b t = t u = u
    Leaves = {a, b}
    TopVdevs = {t, u}
    Scenarios <- All
    VDEV_LABELS = 2
    VDEV_UBERBLOCK_COUNT = 3
    SPA_DVAS_PER_BP = 1
    InitTxg = 4
INVARIANTS  DataBeforeUberblock LabelCurrent
PROPERTY SyncCommits
CHECK_DEADLOCK FALSE
