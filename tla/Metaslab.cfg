SPECIFICATION Spec
CONSTANTS
    Segs = {s1, s2}
    FirstTxg = 5
    MaxTxg = 8
    MaxPass = 2
    MaxAllocs = 3
    MaxCrashes = 2
    metaslab_unload_delay = 1
INVARIANTS NoDoubleAllocation RollbackSafe ClaimableIntact SyncedMapExact DeferredInTime
SYMMETRY Symmetry
CHECK_DEADLOCK FALSE
