------------------------------ MODULE Metaslab ------------------------------
(***************************************************************************)
(* The life of the segments of a metaslab (module/zfs/metaslab.c): free,   *)
(* allocated, freed, deferred and free again, over transaction groups,     *)
(* loads, unloads, condensing and crashes.  With it go the space map       *)
(* (space_map.c), the frees of zio.c and the passes of spa_sync in spa.c   *)
(* and vdev.c that drive it.                                               *)
(*                                                                         *)
(* A segment is a model value, a tree the set of its segments and a space  *)
(* map the set of those it has allocated.  Weights, which only order the   *)
(* search for a metaslab, are left out: an allocation takes any free       *)
(* segment, or none.  ms_lock is held through every step; it is dropped    *)
(* while the space map is read ("loading") or truncated ("condensing").    *)
(***************************************************************************)
EXTENDS Integers

CONSTANTS Segs,
          FirstTxg,      \* the first to be synced
          MaxTxg,        \* bound: the last txg that is synced
          MaxPass,       \* bound: the passes in which blocks are written and freed
          MaxAllocs,     \* bound: blocks allocated
          MaxCrashes,    \* bound: crashes
          metaslab_unload_delay

ASSUME TxgAssumption == FirstTxg \in Nat \ {0} /\ metaslab_unload_delay \in Nat \ {0}

TXG_SIZE == 4
TXG_DEFER_SIZE == 2
zfs_sync_pass_deferred_free == 2

VARIABLES ms_state,      \* ms_loaded, ms_loading, ms_condensing
          ms_tree, ms_alloctree, ms_freeingtree, ms_freedtree, ms_defertree,
          ms_selected_txg,
          ms_list,       \* the slots of vdev_ms_list that the metaslab is in
          sm_alloc,      \* the space map up to sm_length, from which it is loaded
          smp_alloc,     \* the space map as it is written in this txg
          condense_tree,
          spa_pc, spa_txg, spa_pass,
          free_bplist,   \* spa_free_bplist, by slot
          bpobj,         \* spa_deferred_bpobj
          mos,           \* the MOS as of the last pass, and whether it is dirty
          disk,          \* what the last uberblock leads to
          use, born, logged,  \* history: each segment's block
          refs,          \* history: the segments of the last synced states
          allocs, crashes

trees == <<ms_tree, ms_alloctree, ms_freeingtree, ms_freedtree, ms_defertree>>
state == <<ms_state, ms_selected_txg, ms_list>>
maps == <<sm_alloc, smp_alloc, condense_tree>>
frees == <<free_bplist, bpobj>>
sync == <<spa_pc, spa_txg, spa_pass, mos>>
blocks == <<use, born, logged>>
bounds == <<allocs, crashes>>
vars == <<trees, state, maps, frees, sync, disk, blocks, refs, bounds>>

Slots == 0 .. TXG_SIZE - 1
Slot(t) == t % TXG_SIZE
T == spa_txg

Loaded == ms_state \in {"loaded", "condensing"}
Free == IF Loaded THEN ms_tree ELSE {}
Deferred == ms_defertree[0] \cup ms_defertree[1]

\* An existing pool; a segment that is allocated holds a block.
Init ==
    /\ ms_state = "unloaded" /\ ms_tree = {} /\ ms_alloctree = [i \in Slots |-> {}]
    /\ ms_freeingtree = {} /\ ms_freedtree = {} /\ ms_defertree = [i \in 0 .. 1 |-> {}]
    /\ ms_selected_txg = 0 /\ ms_list = {}
    /\ sm_alloc \in SUBSET Segs /\ smp_alloc = sm_alloc /\ condense_tree = {}
    /\ spa_pc = "idle" /\ spa_txg = FirstTxg /\ spa_pass = 0
    /\ free_bplist = [i \in Slots |-> {}] /\ bpobj = {}
    /\ mos = [map |-> sm_alloc, bpobj |-> {}, dirty |-> 0]
    /\ disk = [map |-> sm_alloc, bpobj |-> {}, txg |-> FirstTxg - 1]
    /\ use = [s \in Segs |-> IF s \in sm_alloc THEN "live" ELSE "no"]
    /\ born = [s \in Segs |-> 0] /\ logged = [s \in Segs |-> 0]
    /\ refs = [i \in 0 .. TXG_DEFER_SIZE |-> sm_alloc]
    /\ allocs = 0 /\ crashes = 0

\* The txgs of writes in open context
OpenTxgs == IF spa_pc = "idle" THEN {T, T + 1} ELSE {T + 1, T + 2}

-----------------------------------------------------------------------------
(* Loading                                                                 *)

\* metaslab_load, until space_map_load drops ms_lock
LoadStart ==
    /\ ms_state = "unloaded" /\ spa_pc # "claim"
    /\ ms_state' = "loading"
    /\ ms_tree' = Segs \ sm_alloc
    /\ UNCHANGED <<ms_alloctree, ms_freeingtree, ms_freedtree, ms_defertree, ms_selected_txg,
                   ms_list, maps, frees, sync, disk, blocks, refs, bounds>>

\* Mutant: the deferred frees are not taken out.
LoadedTreeAll == ms_tree
LoadedTree == ms_tree \ Deferred

\* ... and from there on, for metaslab_preload or an allocation that is to follow
LoadDone ==
    /\ ms_state = "loading"
    /\ ms_state' = "loaded"
    /\ ms_tree' = LoadedTree
    /\ ms_selected_txg' \in {IF spa_pc = "idle" THEN T - 1 ELSE T} \cup OpenTxgs
    /\ UNCHANGED <<ms_alloctree, ms_freeingtree, ms_freedtree, ms_defertree,
                   ms_list, maps, frees, sync, disk, blocks, refs, bounds>>

\* The space map cannot be read.
LoadFail ==
    /\ ms_state = "loading"
    /\ ms_state' = "unloaded"
    /\ ms_tree' = {}
    /\ UNCHANGED <<ms_alloctree, ms_freeingtree, ms_freedtree, ms_defertree, ms_selected_txg,
                   ms_list, maps, frees, sync, disk, blocks, refs, bounds>>

-----------------------------------------------------------------------------
(* Blocks are written and freed                                            *)

\* vdev_dirty
Dirty(tree, t) == IF tree = {} THEN ms_list \cup {Slot(t)} ELSE ms_list

\* metaslab_alloc for the txg that syncs, or in open context for a block of
\* the intent log (zio_alloc_zil) or one that it refers to (dmu_sync)
Alloc(s) ==
    /\ ms_state = "loaded" /\ s \in ms_tree
    /\ allocs < MaxAllocs
    /\ \E t \in OpenTxgs \cup (IF spa_pc = "write" /\ spa_pass <= MaxPass THEN {T} ELSE {}) :
          /\ ms_alloctree' = [ms_alloctree EXCEPT ![Slot(t)] = @ \cup {s}]
          /\ ms_list' = Dirty(ms_alloctree[Slot(t)], t)
          /\ ms_selected_txg' = t
          /\ born' = [born EXCEPT ![s] = t]
          /\ logged' = [logged EXCEPT ![s] = IF t \in OpenTxgs THEN t ELSE 0]
    /\ ms_tree' = ms_tree \ {s}
    /\ use' = [use EXCEPT ![s] = "writing"]
    /\ allocs' = allocs + 1
    /\ UNCHANGED <<ms_state, ms_freeingtree, ms_freedtree, ms_defertree, maps, frees, sync,
                   disk, refs, crashes>>

WriteDone(s) ==
    /\ use[s] = "writing"
    /\ use' = [use EXCEPT ![s] = "live"]
    /\ UNCHANGED <<trees, state, maps, frees, sync, disk, born, logged, refs, bounds>>

\* The write failed, or another copy found no space: metaslab_free_dva with
\* now.  In a metaslab that condenses its VERIFY fails: that is a crash.
Unallocate(s) ==
    /\ use[s] = "writing" /\ ms_state = "loaded"
    /\ ms_alloctree' = [ms_alloctree EXCEPT ![Slot(born[s])] = @ \ {s}]
    /\ ms_tree' = ms_tree \cup {s}
    /\ use' = [use EXCEPT ![s] = "no"]
    /\ logged' = [logged EXCEPT ![s] = 0]
    /\ UNCHANGED <<ms_freeingtree, ms_freedtree, ms_defertree, state, maps, frees, sync, disk,
                   born, refs, bounds>>

\* metaslab_free_dva in syncing context
FreeDva(S) ==
    /\ ms_freeingtree' = ms_freeingtree \cup S
    /\ ms_list' = IF S = {} THEN ms_list ELSE Dirty(ms_freeingtree, T)

\* zio_free in syncing context: a gang or deduplicated block, and any block
\* from the second pass on, is put on the list.
FreeBlock(s) ==
    /\ spa_pc = "write" /\ spa_pass <= MaxPass
    /\ use[s] = "live" /\ born[s] <= T
    /\ use' = [use EXCEPT ![s] = "no"]
    /\ born' = [born EXCEPT ![s] = T]
    /\ \/ spa_pass < zfs_sync_pass_deferred_free /\ FreeDva({s}) /\ UNCHANGED free_bplist
       \/ /\ free_bplist' = [free_bplist EXCEPT ![Slot(T)] = @ \cup {s}]
          /\ UNCHANGED <<ms_freeingtree, ms_list>>
    /\ UNCHANGED <<ms_state, ms_tree, ms_alloctree, ms_freedtree, ms_defertree, ms_selected_txg,
                   maps, bpobj, sync, disk, logged, refs, bounds>>

\* Mutant: the segment can be allocated at once.
FreeOpenNow(s) ==
    /\ use[s] = "live" /\ born[s] \in OpenTxgs /\ ms_state = "loaded"
    /\ use' = [use EXCEPT ![s] = "no"]
    /\ ms_alloctree' = [ms_alloctree EXCEPT ![Slot(born[s])] = @ \ {s}]
    /\ ms_tree' = ms_tree \cup {s}
    /\ UNCHANGED <<ms_freeingtree, ms_freedtree, ms_defertree, state, maps, frees, sync, disk,
                   born, logged, refs, bounds>>
\* zio_free of a block from dmu_sync that is not wanted any more, in the txg
\* for which it was written
FreeOpen(s) ==
    /\ use[s] = "live" /\ born[s] \in OpenTxgs
    /\ use' = [use EXCEPT ![s] = "no"]
    /\ free_bplist' = [free_bplist EXCEPT ![Slot(born[s])] = @ \cup {s}]
    /\ UNCHANGED <<trees, state, maps, bpobj, sync, disk, born, logged, refs, bounds>>

-----------------------------------------------------------------------------
(* spa_sync                                                                *)

SyncBegin ==
    /\ spa_pc = "idle" /\ T <= MaxTxg
    /\ spa_pc' = "write" /\ spa_pass' = 1
    /\ UNCHANGED <<trees, state, maps, frees, spa_txg, mos, disk, blocks, refs, bounds>>

\* dsl_pool_sync has written the MOS; then spa_sync_frees, or from the second
\* pass on the frees wait for the next txg.
SyncFrees ==
    /\ spa_pc = "write"
    /\ \A s \in Segs : ~(use[s] = "writing" /\ born[s] = T)
    /\ IF spa_pass < zfs_sync_pass_deferred_free
       THEN FreeDva(free_bplist[Slot(T)]) /\ UNCHANGED bpobj
       ELSE bpobj' = bpobj \cup free_bplist[Slot(T)] /\ UNCHANGED <<ms_freeingtree, ms_list>>
    /\ mos' = [map |-> smp_alloc, bpobj |-> bpobj, dirty |-> IF bpobj' = bpobj THEN 0 ELSE 1]
    /\ free_bplist' = [free_bplist EXCEPT ![Slot(T)] = {}]
    /\ spa_pc' = "vdev"
    /\ UNCHANGED <<ms_state, ms_tree, ms_alloctree, ms_freedtree, ms_defertree, ms_selected_txg,
                   maps, spa_txg, spa_pass, disk, blocks, refs, bounds>>

\* vdev_sync moves the metaslab to the list of TXG_CLEAN(txg), txg - 1.
Cleaned == (ms_list \ {Slot(T)}) \cup {Slot(T + 3)}

\* The rest of metaslab_sync, after the space map is written
Written ==
    /\ ms_freeingtree' = IF spa_pass = 1 THEN ms_freedtree ELSE {}
    /\ ms_freedtree' = IF spa_pass = 1 THEN ms_freeingtree ELSE ms_freedtree \cup ms_freeingtree
    /\ ms_alloctree' = [ms_alloctree EXCEPT ![Slot(T)] = {}]
    /\ ms_list' = Cleaned

MetaslabSync ==
    /\ spa_pc = "vdev" /\ Slot(T) \in ms_list /\ ms_state # "condensing"
    /\ IF ms_alloctree[Slot(T)] = {} /\ ms_freeingtree = {}
       THEN /\ ms_list' = Cleaned
            /\ UNCHANGED <<trees, smp_alloc, mos>>
       ELSE /\ smp_alloc' = (smp_alloc \cup ms_alloctree[Slot(T)]) \ ms_freeingtree
            /\ Written
            /\ mos' = [mos EXCEPT !.dirty = 1]
            /\ UNCHANGED <<ms_tree, ms_defertree>>
    /\ UNCHANGED <<ms_state, ms_selected_txg, sm_alloc, condense_tree, frees, spa_pc, spa_txg,
                   spa_pass, disk, blocks, refs, bounds>>

\* What is allocated as of the txg that syncs, or free in ms_tree
CondenseTree ==
    Segs \ (ms_freeingtree \cup Deferred \cup ms_alloctree[Slot(T + 1)]
              \cup ms_alloctree[Slot(T + 2)])

\* metaslab_condense until space_map_truncate drops ms_lock ...
CondenseStart ==
    /\ spa_pc = "vdev" /\ Slot(T) \in ms_list
    /\ spa_pass = 1 /\ ms_state = "loaded"
    /\ ms_state' = "condensing"
    /\ condense_tree' = CondenseTree
    /\ UNCHANGED <<trees, ms_selected_txg, ms_list, sm_alloc, smp_alloc, frees, sync, disk,
                   blocks, refs, bounds>>

\* ... and from there on: the condense tree as allocated, then ms_tree as free
CondenseEnd ==
    /\ ms_state = "condensing"
    /\ ms_state' = "loaded"
    /\ smp_alloc' = condense_tree \ ms_tree
    /\ condense_tree' = {}
    /\ Written
    /\ mos' = [mos EXCEPT !.dirty = 1]
    /\ UNCHANGED <<ms_tree, ms_defertree, ms_selected_txg, sm_alloc, frees, spa_pc, spa_txg,
                   spa_pass, disk, blocks, refs, bounds>>

\* Mutant: there are at most two passes.
NextPassTwice(dirty) ==
    IF dirty = 1 /\ spa_pass = 1 THEN spa_pc' = "write" /\ spa_pass' = spa_pass + 1
    ELSE spa_pc' = "commit" /\ UNCHANGED spa_pass
\* "Iterate to convergence"
NextPass(dirty) ==
    IF dirty = 1 THEN spa_pc' = "write" /\ spa_pass' = spa_pass + 1
    ELSE spa_pc' = "commit" /\ UNCHANGED spa_pass

\* After the first pass the deferred frees are synced, unless nothing changed.
PassDone ==
    /\ spa_pc = "vdev" /\ Slot(T) \notin ms_list
    /\ \/ /\ spa_pass > 1 \/ mos.dirty = 0
          /\ NextPass(mos.dirty)
          /\ UNCHANGED <<ms_freeingtree, ms_list, bpobj, mos, born>>
       \/ /\ spa_pass = 1
          /\ FreeDva(bpobj)
          /\ born' = [s \in Segs |-> IF s \in bpobj THEN T ELSE born[s]]
          /\ bpobj' = {}
          /\ mos' = [mos EXCEPT !.dirty = IF bpobj = {} THEN @ ELSE 1]
          /\ NextPass(mos'.dirty)
    /\ UNCHANGED <<ms_state, ms_tree, ms_alloctree, ms_freedtree, ms_defertree, ms_selected_txg,
                   maps, free_bplist, spa_txg, disk, use, logged, refs, bounds>>

\* vdev_config_sync: the uberblock is written.
Commit ==
    /\ spa_pc = "commit"
    /\ disk' = [map |-> mos.map, bpobj |-> mos.bpobj, txg |-> T]
    /\ refs' = [i \in 0 .. TXG_DEFER_SIZE |->
                  IF i = 0 THEN {s \in Segs : use[s] = "live" /\ born[s] <= T} ELSE refs[i - 1]]
    /\ spa_pc' = "done"
    /\ UNCHANGED <<trees, state, maps, frees, spa_txg, spa_pass, mos, blocks, bounds>>

\* Mutant: unloaded in the txg after the one it was last used in.
UnloadDueEarly == Loaded /\ ms_selected_txg < T
UnloadDue == Loaded /\ ms_selected_txg + metaslab_unload_delay < T

LoadWait == ms_state # "loading"

\* Mutant: the metaslab is not synced again for its deferred frees.
DirtyForDeferredNot == ms_list \ {Slot(T + 3)}
\* vdev_dirty for the next txg while frees are deferred
DirtyForDeferred ==
    (ms_list \ {Slot(T + 3)})
      \cup (IF ms_defertree'[0] \cup ms_defertree'[1] = {} THEN {} ELSE {Slot(T + 1)})

\* The frees of TXG_DEFER_SIZE txgs ago can be allocated; those of this txg
\* take their place, or can be allocated too when space is short.
MetaslabSyncDone ==
    /\ LoadWait
    /\ \E defer_allowed \in BOOLEAN :
          LET d == T % TXG_DEFER_SIZE IN
          /\ ms_defertree' = [ms_defertree EXCEPT ![d] = IF defer_allowed THEN ms_freedtree ELSE {}]
          /\ ms_tree' = IF ~Loaded THEN ms_tree
                        ELSE IF UnloadDue THEN {}
                        ELSE ms_tree \cup ms_defertree[d]
                               \cup (IF defer_allowed THEN {} ELSE ms_freedtree)
          /\ refs' = IF defer_allowed THEN refs ELSE [i \in 0 .. TXG_DEFER_SIZE |-> refs[0]]
    /\ ms_state' = IF UnloadDue THEN "unloaded" ELSE ms_state
    /\ ms_freedtree' = {}
    /\ ms_list' = DirtyForDeferred
    /\ sm_alloc' = smp_alloc
    /\ UNCHANGED <<ms_alloctree, ms_freeingtree, ms_selected_txg, smp_alloc, condense_tree>>

\* vdev_sync_done and the end of spa_sync
SyncDone ==
    /\ spa_pc = "done"
    /\ IF Slot(T + 3) \in ms_list THEN MetaslabSyncDone ELSE UNCHANGED <<trees, state, maps, refs>>
    /\ spa_pc' = "idle" /\ spa_txg' = spa_txg + 1 /\ spa_pass' = 0
    /\ UNCHANGED <<frees, mos, disk, blocks, bounds>>

-----------------------------------------------------------------------------
(* Crashes                                                                 *)

\* The blocks of the intent log that are not in the last synced state
Claimable == {s \in Segs : logged[s] > disk.txg}

\* The pool is opened again: metaslab_init.
Crash ==
    /\ crashes < MaxCrashes /\ spa_pc # "claim"
    /\ crashes' = crashes + 1
    /\ ms_state' = "unloaded" /\ ms_tree' = {} /\ ms_alloctree' = [i \in Slots |-> {}]
    /\ ms_freeingtree' = {} /\ ms_freedtree' = {} /\ ms_defertree' = [i \in 0 .. 1 |-> {}]
    /\ ms_selected_txg' = 0 /\ ms_list' = {}
    /\ sm_alloc' = disk.map /\ smp_alloc' = disk.map /\ condense_tree' = {}
    /\ spa_pc' = "claim" /\ spa_txg' = disk.txg + 1 /\ spa_pass' = 0
    /\ free_bplist' = [i \in Slots |-> {}] /\ bpobj' = disk.bpobj
    /\ mos' = [map |-> disk.map, bpobj |-> disk.bpobj, dirty |-> 0]
    /\ use' = [s \in Segs |-> IF s \in refs[0] THEN "live" ELSE "no"]
    /\ born' = [s \in Segs |-> 0]
    /\ refs' = [i \in 0 .. TXG_DEFER_SIZE |-> refs[0]]
    /\ UNCHANGED <<disk, logged, allocs>>

\* zil_claim: metaslab_claim of the log blocks that can be read
Claim ==
    /\ spa_pc = "claim"
    /\ spa_pc' = "idle"
    /\ \E S \in SUBSET Claimable :
          /\ ms_state' = IF S = {} THEN ms_state ELSE "loaded"
          /\ ms_tree' = IF S = {} THEN ms_tree ELSE (Segs \ sm_alloc) \ S
          /\ ms_alloctree' = [ms_alloctree EXCEPT ![Slot(T)] = S]
          /\ ms_list' = IF S = {} THEN ms_list ELSE ms_list \cup {Slot(T)}
          /\ use' = [s \in Segs |-> IF s \in S THEN "live" ELSE use[s]]
          /\ born' = [s \in Segs |-> IF s \in S THEN T ELSE born[s]]
          /\ logged' = [s \in Segs |-> IF s \in S THEN T ELSE 0]
    /\ UNCHANGED <<ms_freeingtree, ms_freedtree, ms_defertree, ms_selected_txg, maps, frees,
                   spa_txg, spa_pass, mos, disk, refs, bounds>>

-----------------------------------------------------------------------------
Next ==
    \/ LoadStart \/ LoadDone \/ LoadFail
    \/ \E s \in Segs : Alloc(s) \/ WriteDone(s) \/ Unallocate(s) \/ FreeBlock(s) \/ FreeOpen(s)
    \/ SyncBegin \/ SyncFrees \/ MetaslabSync \/ CondenseStart \/ CondenseEnd
    \/ PassDone \/ Commit \/ SyncDone \/ Crash \/ Claim

Spec == Init /\ [][Next]_vars

-----------------------------------------------------------------------------
\* "ms_free*tree only have entries while syncing"
TypeOK ==
    /\ ms_state \in {"unloaded", "loading", "loaded", "condensing"}
    /\ ms_tree \subseteq Segs /\ ms_alloctree \in [Slots -> SUBSET Segs]
    /\ ms_freeingtree \subseteq Segs /\ ms_freedtree \subseteq Segs
    /\ spa_pc \in {"idle", "claim"} => ms_freeingtree = {} /\ ms_freedtree = {}
    /\ ms_defertree \in [0 .. 1 -> SUBSET Segs]
    /\ ms_selected_txg \in Nat /\ ms_list \subseteq Slots
    /\ sm_alloc \subseteq Segs /\ smp_alloc \subseteq Segs /\ condense_tree \subseteq Segs
    /\ spa_pc \in {"idle", "write", "vdev", "commit", "done", "claim"}
    /\ spa_txg \in Nat /\ spa_pass \in Nat
    /\ free_bplist \in [Slots -> SUBSET Segs] /\ bpobj \subseteq Segs
    /\ mos \in [map : SUBSET Segs, bpobj : SUBSET Segs, dirty : {0, 1}]
    /\ disk \in [map : SUBSET Segs, bpobj : SUBSET Segs, txg : Nat]
    /\ use \in [Segs -> {"no", "writing", "live"}]
    /\ born \in [Segs -> Nat] /\ logged \in [Segs -> Nat]
    /\ refs \in [0 .. TXG_DEFER_SIZE -> SUBSET Segs]
    /\ allocs \in Nat /\ crashes \in Nat

\* A segment is handed out once: what can be allocated belongs to no block
\* that is written or in use, in whichever txg (metaslab_block_alloc).
NoDoubleAllocation == \A s \in Free : use[s] = "no"

\* "A pool could be safely rolled back TXG_DEFERS_SIZE transactions groups":
\* a segment of one of the last synced states cannot be allocated, and so not
\* be overwritten.  Without the deferral, for want of space or after a crash,
\* this holds for the last state.
RollbackSafe == \A i \in 0 .. TXG_DEFER_SIZE : Free \cap refs[i] = {}

\* zil_claim finds the blocks of the log: they are free in the last synced
\* space map and have not become free for others since they were written.
ClaimableIntact == Claimable \cap (Free \cup disk.map) = {}

\* A synced space map has allocated exactly what that state refers to and what
\* its spa_deferred_bpobj has yet to free: a crash neither leaks nor loses.
SyncedMapExact == disk.map = refs[0] \cup disk.bpobj

\* While the metaslab is loaded ms_tree is what the space map says is free,
\* less the allocations not yet in it and the frees that are still kept back
\* (metaslab_verify_space, for sets).
FreeTreeExact ==
    Loaded => ms_tree = Segs \ (sm_alloc \cup smp_alloc \cup Deferred \cup ms_freeingtree
                                  \cup ms_freedtree \cup UNION {ms_alloctree[i] : i \in Slots})

\* The condensed space map says what the appended one would have said, and
\* frees no segment that it has not allocated (metaslab_condense).
CondensedMapSame ==
    ms_state = "condensing" =>
        /\ ms_tree \subseteq condense_tree
        /\ condense_tree \ ms_tree = (smp_alloc \cup ms_alloctree[Slot(T)]) \ ms_freeingtree

\* "Keep syncing this metaslab until all deferred frees are back in
\* circulation": they stay back for TXG_DEFER_SIZE txgs.
DeferredInTime == \A s \in Deferred : born[s] + TXG_DEFER_SIZE >= T
=============================================================================
