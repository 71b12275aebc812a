SPECIFICATION FairSpec
CONSTANTS
    t1 = t1 t2 = t2 d1 = d1 d2 = d2
    Txs = {t1, t2}
    Dnodes = {d1, d2}
    Holds <- CrossHolds
    How <- CrossHow
    Sizes = {1, 2}
    zfs_dirty_data_max = 2
    delay_min_bytes = 0
    InitTxg = 4
    MaxTxg = 11
    Faults <- AnyFault
INVARIANTS  DnodeInOneTxg
 
CHECK_DEADLOCK FALSE
