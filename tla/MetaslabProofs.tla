--------------------------- MODULE MetaslabProofs ---------------------------
(***************************************************************************)
(* Proofs about the metaslab, for every set of segments, every first txg,  *)
(* unload delay and bound: the inductive invariant, that every step keeps  *)
(* it, and what follows from it.                                           *)
(***************************************************************************)
EXTENDS TLAPS, Metaslab

-----------------------------------------------------------------------------
(* The inductive invariant.  A(0) and L(0) belong to the txg that syncs or *)
(* is to be synced next, A(1), A(2), L(1) and L(2) to the ones after it.   *)

A(i) == ms_alloctree[Slot(T + i)]
L(i) == free_bplist[Slot(T + i)]
Unsynced == spa_pc # "done"
InUse == smp_alloc \cup A(0) \cup A(1) \cup A(2) \cup ms_freedtree

(* The sets of segments, and how they partition what is in use.            *)
Partition ==
    /\ A(3) = {} /\ L(3) = {}
    /\ \A s \in Segs :
         /\ s \in smp_alloc => s \notin A(0) /\ s \notin A(1) /\ s \notin A(2)
         /\ s \in A(0) => s \notin A(1) /\ s \notin A(2)
         /\ s \in A(1) => s \notin A(2)
         /\ s \in ms_freedtree => s \notin Deferred
         /\ s \in ms_defertree[0] => s \notin ms_defertree[1]
         /\ s \in ms_freedtree \/ s \in Deferred
              => s \notin smp_alloc /\ s \notin A(0) /\ s \notin A(1) /\ s \notin A(2)

(* A segment is in the space map, or to be put there, because of a block   *)
(* or of a free that is to come.                                           *)
Owners ==
    \A s \in Segs :
        /\ s \in smp_alloc \/ s \in A(0) <=>
             \/ use[s] # "no" /\ born[s] <= T
             \/ s \in L(0) \/ s \in bpobj \/ s \in ms_freeingtree
        /\ s \in A(1) <=> (use[s] # "no" /\ born[s] = T + 1) \/ s \in L(1)
        /\ s \in A(2) <=> (use[s] # "no" /\ born[s] = T + 2) \/ s \in L(2)
        /\ use[s] # "no" => /\ s \notin L(0) /\ s \notin L(1) /\ s \notin L(2)
                            /\ s \notin bpobj /\ s \notin ms_freeingtree
                            /\ born[s] <= T + 2
        /\ s \in L(0) => s \notin bpobj /\ s \notin ms_freeingtree
        /\ s \in bpobj => s \notin ms_freeingtree
        /\ use[s] = "writing" =>
             /\ born[s] <= T => s \in A(0) /\ born[s] = T /\ spa_pc \in {"idle", "write"}
             /\ \A i \in 0 .. 2 : s \notin refs[i]
             /\ s \notin disk.map

TreeInv ==
    /\ Loaded => ms_tree = Segs \ (InUse \cup Deferred)
    /\ ms_state = "loading" => ms_tree = Segs \ sm_alloc
    /\ ~Loaded => /\ A(0) = {} /\ A(1) = {} /\ A(2) = {}
                  /\ smp_alloc \subseteq sm_alloc /\ ms_freedtree \subseteq sm_alloc
    /\ sm_alloc \subseteq smp_alloc \cup ms_freedtree

(* A metaslab with something to sync is listed for it.                     *)
ListInv ==
    /\ A(0) # {} \/ ms_freeingtree # {} => Slot(T) \in ms_list
    /\ A(1) # {} => Slot(T + 1) \in ms_list
    /\ A(2) # {} => Slot(T + 2) \in ms_list
    /\ ms_freedtree # {} \/ sm_alloc # smp_alloc => Slot(T + 3) \in ms_list

(* What each stage of spa_sync leaves behind.                              *)
StageInv ==
    /\ spa_pc \in {"idle", "claim"} =>
         /\ ms_freeingtree = {} /\ ms_freedtree = {} /\ sm_alloc = smp_alloc
         /\ A(2) = {} /\ L(2) = {}
    /\ spa_pc = "claim" => /\ ms_state = "unloaded" /\ ms_tree = {} /\ disk.map = sm_alloc
                           /\ Deferred = {}
    /\ spa_pc \in {"write", "vdev"} => spa_pass >= 1
    /\ spa_pc = "write" /\ spa_pass = 1 => ms_freedtree = {}
    /\ spa_pc = "vdev" /\ spa_pass = 1 /\ Slot(T) \in ms_list => ms_freedtree = {}
    /\ spa_pc \in {"vdev", "commit", "done"} => L(0) = {}
    /\ spa_pc \in {"commit", "done"} => A(0) = {} /\ ms_freeingtree = {}
    /\ spa_pc \in {"vdev", "commit"} /\ mos.dirty = 0 => mos.map = smp_alloc /\ mos.bpobj = bpobj
    /\ spa_pc = "commit" => mos.dirty = 0
    /\ ms_state = "condensing" =>
         /\ spa_pc = "vdev" /\ spa_pass = 1 /\ Slot(T) \in ms_list
         /\ condense_tree = CondenseTree

(* Why no metaslab with allocations still to be synced is unloaded.        *)
SelectedInv ==
    /\ A(1) # {} => ms_selected_txg + 1 >= T
    /\ A(2) # {} => ms_selected_txg >= T

(* What the last synced states refer to is in use or deferred.             *)
RefsInv ==
    /\ disk.map = refs[0] \cup disk.bpobj
    /\ refs[0] \cap disk.bpobj = {}
    /\ Unsynced => /\ disk.txg + 1 = T
                   /\ disk.map \subseteq InUse
                   /\ refs[1] \subseteq InUse \cup ms_defertree[(T + 1) % 2]
                   /\ refs[2] \subseteq InUse \cup Deferred
    /\ ~Unsynced => /\ disk.txg = T
                    /\ disk.map = smp_alloc
                    /\ refs[1] \subseteq InUse
                    /\ refs[2] \subseteq InUse \cup ms_defertree[(T + 1) % 2]

(* Where the blocks of the intent log are.                                 *)
LogInv ==
    \A s \in Segs :
        /\ s \in disk.map => logged[s] <= disk.txg
        /\ spa_pc # "claim" =>
             /\ logged[s] <= T + 2
             /\ logged[s] = T + 1 => s \in A(1)
             /\ logged[s] = T + 2 => s \in A(2)
             /\ Unsynced /\ logged[s] = T => s \in InUse

IndInv ==
    /\ TypeOK /\ Partition /\ Owners /\ TreeInv /\ ListInv /\ StageInv
    /\ SelectedInv /\ RefsInv /\ LogInv

-----------------------------------------------------------------------------
(* Four txgs in a row have the four slots.                                 *)
LEMMA SlotFacts ==
    ASSUME NEW t \in Nat
    PROVE  /\ Slot(t) \in Slots /\ Slot(t + 1) \in Slots
           /\ Slot(t + 2) \in Slots /\ Slot(t + 3) \in Slots
           /\ Slot(t) # Slot(t + 1) /\ Slot(t) # Slot(t + 2) /\ Slot(t) # Slot(t + 3)
           /\ Slot(t + 1) # Slot(t + 2) /\ Slot(t + 1) # Slot(t + 3)
           /\ Slot(t + 2) # Slot(t + 3)
           /\ \A i \in Slots : i \in {Slot(t), Slot(t + 1), Slot(t + 2), Slot(t + 3)}
           /\ Slot(t + 4) = Slot(t)
BY DEF Slot, Slots, TXG_SIZE

LEMMA DeferFacts ==
    ASSUME NEW t \in Nat
    PROVE  /\ t % 2 \in {0, 1} /\ (t + 1) % 2 \in {0, 1} /\ t % 2 # (t + 1) % 2
           /\ (t + 2) % 2 = t % 2
OBVIOUS

(* The indices of the trees and lists are slots.                           *)
LEMMA Shapes ==
    ASSUME TypeOK
    PROVE  /\ T \in Nat /\ A(0) \subseteq Segs /\ A(1) \subseteq Segs /\ A(2) \subseteq Segs
           /\ A(0) = ms_alloctree[Slot(T)] /\ L(0) = free_bplist[Slot(T)]
           /\ L(0) \subseteq Segs /\ L(1) \subseteq Segs /\ L(2) \subseteq Segs
           /\ Deferred \subseteq Segs /\ ms_defertree[0] \subseteq Segs
           /\ ms_defertree[1] \subseteq Segs
<1>1. T \in Nat /\ Slot(T + 0) = Slot(T)
  BY DEF TypeOK, T, Slot
<1>2. Slot(T) \in Slots /\ Slot(T + 1) \in Slots /\ Slot(T + 2) \in Slots
  BY Zenon, <1>1, SlotFacts
<1> QED
  BY <1>1, <1>2 DEF TypeOK, A, L, Deferred

-----------------------------------------------------------------------------
LEMMA InitIndInv == Init => IndInv
<1> SUFFICES ASSUME Init PROVE IndInv
  BY Zenon
<1>1. TypeOK
  BY TxgAssumption DEF Init, TypeOK, Slots, TXG_SIZE, TXG_DEFER_SIZE
<1>2. \A i \in Slots : ms_alloctree[i] = {} /\ free_bplist[i] = {}
  BY Zenon DEF Init
<1>3. T \in Nat /\ A(0) = {} /\ A(1) = {} /\ A(2) = {} /\ A(3) = {}
               /\ L(0) = {} /\ L(1) = {} /\ L(2) = {} /\ L(3) = {}
  BY Zenon, <1>1, <1>2, SlotFacts, Shapes DEF A, L, TypeOK, T
<1>4. Deferred = {} /\ ms_defertree[0] = {} /\ ms_defertree[1] = {}
  BY DEF Init, Deferred
<1>5. Partition
  BY Zenon, <1>3, <1>4 DEF Init, Partition
<1>6. Owners
  <2>1. \A s \in Segs : born[s] = 0 /\ use[s] # "writing" /\ (use[s] # "no" <=> s \in sm_alloc)
    BY Zenon DEF Init
  <2>2. bpobj = {} /\ ms_freeingtree = {} /\ smp_alloc = sm_alloc
    BY Zenon DEF Init
  <2>3. \A s \in Segs : born[s] <= T /\ born[s] # T + 1 /\ born[s] # T + 2 /\ born[s] <= T + 2
    BY ONLY <1>3, <2>1
  <2> QED
    BY ONLY Zenon, <1>3, <2>1, <2>2, <2>3 DEF Owners
<1>7. TreeInv
  BY Zenon, <1>3, <1>4 DEF Init, TreeInv, Loaded, InUse
<1>8. ListInv /\ SelectedInv
  BY Zenon, <1>3 DEF Init, ListInv, SelectedInv
<1>9. StageInv
  BY Zenon, <1>3 DEF Init, StageInv
<1>10. RefsInv
  <2>1. \A i \in 0 .. 2 : refs[i] = smp_alloc
    BY Zenon DEF Init, TXG_DEFER_SIZE
  <2>2. /\ disk.map = smp_alloc /\ disk.bpobj = {} /\ disk.txg + 1 = T
        /\ spa_pc # "done"
    BY TxgAssumption DEF Init, T
  <2> QED
    BY <2>1, <2>2 DEF RefsInv, Unsynced, InUse
<1>11. LogInv
  BY TxgAssumption, <1>3 DEF Init, LogInv, T
<1> QED
  BY Zenon, <1>1, <1>5, <1>6, <1>7, <1>8, <1>9, <1>10, <1>11 DEF IndInv

-----------------------------------------------------------------------------
(* What follows from the invariant for a segment that is not in use.       *)

LEMMA NotInUse ==
    ASSUME IndInv, NEW s \in Segs, s \notin InUse
    PROVE  /\ use[s] = "no" /\ s \notin bpobj /\ s \notin ms_freeingtree
           /\ s \notin L(0) /\ s \notin L(1) /\ s \notin L(2)
           /\ s \notin smp_alloc /\ s \notin A(0) /\ s \notin A(1) /\ s \notin A(2)
           /\ s \notin ms_freedtree /\ s \notin disk.map
<1>1. T \in Nat /\ born[s] \in Nat
  BY Zenon, Shapes DEF IndInv, TypeOK
<1>2. /\ s \notin smp_alloc /\ s \notin A(0) /\ s \notin A(1) /\ s \notin A(2)
      /\ s \notin ms_freedtree
  BY Zenon DEF InUse
<1>3. /\ s \notin L(0) /\ s \notin L(1) /\ s \notin L(2)
      /\ s \notin bpobj /\ s \notin ms_freeingtree
  BY Zenon, <1>2 DEF IndInv, Owners
<1>4. use[s] = "no"
  <2>1. CASE born[s] <= T
    BY Zenon, <1>2, <2>1 DEF IndInv, Owners
  <2>2. CASE born[s] > T /\ use[s] # "no"
    <3>1. born[s] = T + 1 \/ born[s] = T + 2
      BY <1>1, <2>2 DEF IndInv, Owners
    <3> QED
      BY Zenon, <1>2, <2>2, <3>1 DEF IndInv, Owners
  <2> QED
    BY <1>1, <2>1, <2>2
<1>5. s \notin disk.map
  BY Zenon DEF IndInv, RefsInv, InUse
<1> QED
  BY Zenon, <1>2, <1>3, <1>4, <1>5

-----------------------------------------------------------------------------
(* One lemma for each action.  The sets that an action leaves alone:       *)

SameInUse ==
    /\ T' = T /\ A(0)' = A(0) /\ A(1)' = A(1) /\ A(2)' = A(2) /\ A(3)' = A(3)
    /\ Deferred' = Deferred /\ InUse' = InUse /\ Slot(T)' = Slot(T)
    /\ Slot(T + 1)' = Slot(T + 1) /\ Slot(T + 2)' = Slot(T + 2)
    /\ Slot(T + 3)' = Slot(T + 3)
SameSets ==
    /\ T' = T /\ A(0)' = A(0) /\ A(1)' = A(1) /\ A(2)' = A(2) /\ A(3)' = A(3)
    /\ L(0)' = L(0) /\ L(1)' = L(1) /\ L(2)' = L(2) /\ L(3)' = L(3)
    /\ Deferred' = Deferred /\ InUse' = InUse /\ Slot(T)' = Slot(T)
    /\ Slot(T + 1)' = Slot(T + 1) /\ Slot(T + 2)' = Slot(T + 2)
    /\ Slot(T + 3)' = Slot(T + 3)

LEMMA SameTreesInUse ==
    ASSUME UNCHANGED <<ms_alloctree, ms_freedtree, ms_defertree, smp_alloc, spa_txg>>
    PROVE  SameInUse
BY Zenon DEF SameInUse, T, A, Deferred, InUse

LEMMA SameTrees ==
    ASSUME UNCHANGED <<ms_alloctree, ms_freedtree, ms_defertree, smp_alloc, free_bplist, spa_txg>>
    PROVE  SameSets
BY Zenon DEF SameSets, T, A, L, Deferred, InUse

LEMMA LoadStartInv == IndInv /\ LoadStart => IndInv'
<1> SUFFICES ASSUME IndInv, LoadStart PROVE IndInv'
  BY Zenon
<1> USE DEF LoadStart, maps, frees, sync, blocks, bounds
<1>1. TypeOK'
  BY Zenon DEF IndInv, TypeOK
<1>2. SameSets
  BY Zenon, SameTrees
<1>3. Partition' /\ Owners'
  BY ZenonT(20), <1>2 DEF IndInv, Partition, Owners, SameSets
<1>4. TreeInv'
  BY Zenon, <1>2 DEF IndInv, TreeInv, Loaded, SameSets
<1>5. ListInv' /\ SelectedInv'
  BY ZenonT(20), <1>2 DEF IndInv, ListInv, SelectedInv, SameSets
<1>6. StageInv'
  BY Zenon, <1>2 DEF IndInv, StageInv, SameSets
<1>7. RefsInv' /\ LogInv'
  BY ZenonT(20), <1>2 DEF IndInv, RefsInv, LogInv, Unsynced, SameSets
<1> QED
  BY Zenon, <1>1, <1>3, <1>4, <1>5, <1>6, <1>7 DEF IndInv

LEMMA LoadDoneInv == IndInv /\ LoadDone => IndInv'
<1> SUFFICES ASSUME IndInv, LoadDone PROVE IndInv'
  BY Zenon
<1> USE DEF LoadDone, maps, frees, sync, blocks, bounds
<1>1. ms_selected_txg' \in Nat
  <2>1. T \in Nat /\ (spa_pc = "idle" => T - 1 \in Nat)
    BY DEF IndInv, TypeOK, T, RefsInv, Unsynced
  <2> QED
    BY <2>1 DEF OpenTxgs
<1>2. TypeOK'
  BY Zenon, <1>1 DEF IndInv, TypeOK, LoadedTree
<1>3. SameSets
  BY Zenon, SameTrees
<1>4. Partition' /\ Owners'
  BY ZenonT(20), <1>3 DEF IndInv, Partition, Owners, SameSets
<1>5. ~Loaded /\ A(0) = {} /\ A(1) = {} /\ A(2) = {}
  BY Zenon DEF IndInv, TreeInv, Loaded
<1>6. TreeInv'
  <2>1. sm_alloc = smp_alloc \cup ms_freedtree
    BY Zenon, <1>5 DEF IndInv, TreeInv
  <2>2. ms_tree' = Segs \ (InUse \cup Deferred)
    BY Zenon, <1>5, <2>1 DEF IndInv, TreeInv, InUse, LoadedTree
  <2> QED
    BY Zenon, <1>3, <2>2 DEF IndInv, TreeInv, Loaded, SameSets
<1>7. ListInv' /\ SelectedInv'
  BY ZenonT(20), <1>3, <1>5 DEF IndInv, ListInv, SelectedInv, SameSets
<1>8. StageInv'
  BY Zenon, <1>3 DEF IndInv, StageInv, SameSets
<1>9. RefsInv' /\ LogInv'
  BY ZenonT(20), <1>3 DEF IndInv, RefsInv, LogInv, Unsynced, SameSets
<1> QED
  BY Zenon, <1>2, <1>4, <1>6, <1>7, <1>8, <1>9 DEF IndInv

LEMMA LoadFailInv == IndInv /\ LoadFail => IndInv'
<1> SUFFICES ASSUME IndInv, LoadFail PROVE IndInv'
  BY Zenon
<1> USE DEF LoadFail, maps, frees, sync, blocks, bounds
<1>1. TypeOK'
  BY Zenon DEF IndInv, TypeOK
<1>2. SameSets
  BY Zenon, SameTrees
<1>3. Partition' /\ Owners'
  BY ZenonT(20), <1>2 DEF IndInv, Partition, Owners, SameSets
<1>4. TreeInv'
  BY Zenon, <1>2 DEF IndInv, TreeInv, Loaded, SameSets
<1>5. ListInv' /\ SelectedInv'
  BY ZenonT(20), <1>2 DEF IndInv, ListInv, SelectedInv, SameSets
<1>6. StageInv'
  BY Zenon, <1>2 DEF IndInv, StageInv, SameSets
<1>7. RefsInv' /\ LogInv'
  BY ZenonT(20), <1>2 DEF IndInv, RefsInv, LogInv, Unsynced, SameSets
<1> QED
  BY Zenon, <1>1, <1>3, <1>4, <1>5, <1>6, <1>7 DEF IndInv

LEMMA WriteDoneInv == IndInv /\ (\E s \in Segs : WriteDone(s)) => IndInv'
<1> SUFFICES ASSUME IndInv, NEW s \in Segs, WriteDone(s) PROVE IndInv'
  BY Zenon
<1> USE DEF WriteDone, trees, state, maps, frees, sync, bounds
<1>1. TypeOK'
  BY Zenon DEF IndInv, TypeOK
<1>2. SameSets
  BY Zenon, SameTrees
<1>3. Partition' /\ TreeInv' /\ ListInv' /\ SelectedInv' /\ LogInv'
  BY ZenonT(20), <1>2
     DEF IndInv, Partition, TreeInv, Loaded, ListInv, SelectedInv, LogInv, Unsynced, SameSets
<1>4. Owners'
  <2>1. \A r \in Segs : /\ use'[r] # "no" <=> use[r] # "no"
                        /\ use'[r] = "writing" => use[r] = "writing"
    BY Zenon DEF IndInv, TypeOK
  <2> QED
    BY ZenonT(20), <1>2, <2>1 DEF IndInv, Owners, SameSets
<1>5. StageInv'
  BY Zenon, <1>2 DEF IndInv, StageInv, CondenseTree, SameSets
<1>6. RefsInv'
  BY ZenonT(20), <1>2 DEF IndInv, RefsInv, Unsynced, SameSets
<1> QED
  BY Zenon, <1>1, <1>3, <1>4, <1>5, <1>6 DEF IndInv

LEMMA SyncBeginInv == IndInv /\ SyncBegin => IndInv'
<1> SUFFICES ASSUME IndInv, SyncBegin PROVE IndInv'
  BY Zenon
<1> USE DEF SyncBegin, trees, state, maps, frees, blocks, bounds
<1>1. TypeOK'
  BY Zenon DEF IndInv, TypeOK
<1>2. SameSets
  BY Zenon, SameTrees
<1>3. Partition' /\ TreeInv' /\ ListInv' /\ SelectedInv'
  BY ZenonT(20), <1>2
     DEF IndInv, Partition, TreeInv, Loaded, ListInv, SelectedInv, SameSets
<1>4. Owners'
  BY Zenon, <1>2 DEF IndInv, Owners, SameSets
<1>5. StageInv'
  BY <1>2 DEF IndInv, StageInv, SameSets
<1>6. RefsInv' /\ LogInv'
  BY Zenon, <1>2 DEF IndInv, RefsInv, LogInv, Unsynced, SameSets
<1> QED
  BY Zenon, <1>1, <1>3, <1>4, <1>5, <1>6 DEF IndInv

-----------------------------------------------------------------------------
(* Allocating, unallocating and freeing                                    *)

LEMMA AllocInv == IndInv /\ (\E s \in Segs : Alloc(s)) => IndInv'
<1> SUFFICES ASSUME IndInv, NEW s \in Segs, Alloc(s) PROVE IndInv'
  BY Zenon
<1>1. PICK t \in OpenTxgs \cup (IF spa_pc = "write" /\ spa_pass <= MaxPass THEN {T} ELSE {}) :
        /\ ms_alloctree' = [ms_alloctree EXCEPT ![Slot(t)] = @ \cup {s}]
        /\ ms_list' = Dirty(ms_alloctree[Slot(t)], t)
        /\ ms_selected_txg' = t
        /\ born' = [born EXCEPT ![s] = t]
        /\ logged' = [logged EXCEPT ![s] = IF t \in OpenTxgs THEN t ELSE 0]
  BY Zenon DEF Alloc
<1>2. /\ ms_state = "loaded" /\ s \in ms_tree /\ ms_tree' = ms_tree \ {s}
      /\ use' = [use EXCEPT ![s] = "writing"] /\ allocs' = allocs + 1
      /\ UNCHANGED <<ms_state, ms_freeingtree, ms_freedtree, ms_defertree, maps, frees, sync,
                     disk, refs, crashes>>
  BY Zenon DEF Alloc
<1>3. /\ T \in Nat /\ T' = T /\ spa_pc # "claim"
      /\ t \in {T, T + 1, T + 2}
      /\ t = T => spa_pc \in {"idle", "write"}
      /\ t = T + 2 => spa_pc # "idle"
  BY <1>1, <1>2, Shapes DEF IndInv, StageInv, OpenTxgs, sync, T
<1>4. /\ Slot(T) \in Slots /\ Slot(T + 1) \in Slots /\ Slot(T + 2) \in Slots
      /\ Slot(T + 3) \in Slots /\ Slot(T) # Slot(T + 1) /\ Slot(T) # Slot(T + 2)
      /\ Slot(T) # Slot(T + 3) /\ Slot(T + 1) # Slot(T + 2) /\ Slot(T + 1) # Slot(T + 3)
      /\ Slot(T + 2) # Slot(T + 3)
  BY Zenon, <1>3, SlotFacts
<1>5. TypeOK'
  BY SMTT(20), <1>1, <1>2, <1>3, <1>4 DEF IndInv, TypeOK, Dirty, maps, frees, sync
<1>6. /\ A(0)' = IF t = T THEN A(0) \cup {s} ELSE A(0)
      /\ A(1)' = IF t = T + 1 THEN A(1) \cup {s} ELSE A(1)
      /\ A(2)' = IF t = T + 2 THEN A(2) \cup {s} ELSE A(2)
      /\ A(3)' = A(3)
      /\ L(0)' = L(0) /\ L(1)' = L(1) /\ L(2)' = L(2) /\ L(3)' = L(3)
      /\ Deferred' = Deferred
  <2>1. T + 0 = T /\ T' + 0 = T
    BY <1>3
  <2> QED
    BY Zenon, <1>1, <1>2, <1>3, <1>4, <2>1 DEF IndInv, TypeOK, A, L, Deferred, frees
<1>7. InUse' = InUse \cup {s}
  BY Zenon, <1>2, <1>3, <1>6 DEF InUse, maps
<1>8. s \notin InUse /\ s \notin Deferred
  BY Zenon, <1>2 DEF IndInv, TreeInv, Loaded
<1>9. /\ use[s] = "no" /\ s \notin bpobj /\ s \notin ms_freeingtree
      /\ s \notin L(0) /\ s \notin L(1) /\ s \notin L(2)
      /\ s \notin smp_alloc /\ s \notin A(0) /\ s \notin A(1) /\ s \notin A(2)
      /\ s \notin ms_freedtree /\ s \notin disk.map
  BY Zenon, <1>8, NotInUse
<1>10. Partition'
  BY <1>2, <1>3, <1>6, <1>8, <1>9 DEF IndInv, Partition, maps, Deferred
<1>11. Owners'
  <2>1. \A i \in 0 .. 2 : s \notin refs[i]
    BY <1>3, <1>8, <1>9, DeferFacts DEF IndInv, RefsInv, Unsynced, Deferred
  <2> SUFFICES ASSUME NEW r \in Segs PROVE Owners!(r)'
    BY Zenon DEF Owners
  <2>2. CASE r = s
    <3>1. use'[s] = "writing" /\ born'[s] = t
      BY <1>1, <1>2 DEF IndInv, TypeOK
    <3> QED
      BY <1>2, <1>3, <1>6, <1>9, <2>1, <2>2, <3>1 DEF maps, frees, sync
  <2>3. CASE r # s
    <3>1. use'[r] = use[r] /\ born'[r] = born[r]
      BY <1>1, <1>2, <2>3 DEF IndInv, TypeOK
    <3> QED
      BY Zenon, <1>2, <1>3, <1>6, <2>3, <3>1 DEF IndInv, Owners, maps, frees, sync
  <2> QED
    BY Zenon, <2>2, <2>3
<1>12. TreeInv'
  BY Zenon, <1>2, <1>6, <1>7 DEF IndInv, TreeInv, Loaded, maps
<1>13. ListInv' /\ SelectedInv'
  <2>1. ms_list \subseteq ms_list' /\ (ms_alloctree[Slot(t)] = {} => Slot(t) \in ms_list')
    BY Zenon, <1>1 DEF Dirty
  <2>2. A(0) = ms_alloctree[Slot(T)]
    BY Zenon, Shapes DEF IndInv
  <2>3. ListInv'
    BY Zenon, <1>2, <1>3, <1>6, <2>1, <2>2 DEF IndInv, ListInv, A, maps
  <2>4. SelectedInv'
    BY <1>1, <1>3 DEF SelectedInv
  <2> QED
    BY Zenon, <2>3, <2>4
<1>14. StageInv'
  <2>1. t # T => (Slot(T) \in ms_list' <=> Slot(T) \in ms_list)
    BY Zenon, <1>1, <1>3, <1>4 DEF Dirty
  <2> QED
    BY Zenon, <1>2, <1>3, <1>6, <2>1 DEF IndInv, StageInv, maps, frees, sync
<1>15. RefsInv'
  BY Zenon, <1>2, <1>3, <1>6, <1>7 DEF IndInv, RefsInv, Unsynced, maps, sync
<1>16. LogInv'
  <2> SUFFICES ASSUME NEW r \in Segs PROVE LogInv!(r)'
    BY Zenon DEF LogInv
  <2>1. CASE r = s
    <3>1. logged'[s] \in {0, t} /\ disk' = disk
      BY Zenon, <1>1, <1>2 DEF IndInv, TypeOK
    <3> QED
      BY <1>3, <1>6, <1>7, <1>9, <2>1, <3>1
  <2>2. CASE r # s
    <3>1. logged'[r] = logged[r]
      BY <1>1, <2>2 DEF IndInv, TypeOK
    <3> QED
      BY Zenon, <1>2, <1>3, <1>6, <1>7, <3>1 DEF IndInv, LogInv, Unsynced, sync
  <2> QED
    BY Zenon, <2>1, <2>2
<1> QED
  BY Zenon, <1>5, <1>10, <1>11, <1>12, <1>13, <1>14, <1>15, <1>16 DEF IndInv

LEMMA UnallocateInv == IndInv /\ (\E s \in Segs : Unallocate(s)) => IndInv'
<1> SUFFICES ASSUME IndInv, NEW s \in Segs, Unallocate(s) PROVE IndInv'
  BY Zenon
<1>1. /\ use[s] = "writing" /\ ms_state = "loaded"
      /\ ms_alloctree' = [ms_alloctree EXCEPT ![Slot(born[s])] = @ \ {s}]
      /\ ms_tree' = ms_tree \cup {s}
      /\ use' = [use EXCEPT ![s] = "no"]
      /\ logged' = [logged EXCEPT ![s] = 0]
      /\ UNCHANGED <<ms_freeingtree, ms_freedtree, ms_defertree, state, maps, frees, sync, disk,
                     born, refs, bounds>>
  BY Zenon DEF Unallocate
<1>2. T \in Nat /\ T' = T /\ born[s] \in Nat
  BY Zenon, <1>1, Shapes DEF IndInv, TypeOK, sync, T
<1>3. /\ Slot(T) \in Slots /\ Slot(T + 1) \in Slots /\ Slot(T + 2) \in Slots
      /\ Slot(T + 3) \in Slots /\ Slot(T) # Slot(T + 1) /\ Slot(T) # Slot(T + 2)
      /\ Slot(T) # Slot(T + 3) /\ Slot(T + 1) # Slot(T + 2) /\ Slot(T + 1) # Slot(T + 3)
      /\ Slot(T + 2) # Slot(T + 3)
  BY Zenon, <1>2, SlotFacts
<1>4. \/ born[s] = T /\ s \in A(0)
      \/ born[s] = T + 1 /\ s \in A(1)
      \/ born[s] = T + 2 /\ s \in A(2)
  <2>1. born[s] <= T \/ born[s] = T + 1 \/ born[s] = T + 2
    BY <1>1, <1>2 DEF IndInv, Owners
  <2> QED
    BY Zenon, <1>1, <2>1 DEF IndInv, Owners
<1>5. /\ s \notin smp_alloc /\ s \notin ms_freedtree /\ s \notin Deferred
      /\ s \in A(0) => s \notin A(1) /\ s \notin A(2)
      /\ s \in A(1) => s \notin A(0) /\ s \notin A(2)
      /\ s \in A(2) => s \notin A(0) /\ s \notin A(1)
  BY Zenon, <1>4 DEF IndInv, Partition
<1>6. /\ A(0)' = A(0) \ {s} /\ A(1)' = A(1) \ {s} /\ A(2)' = A(2) \ {s} /\ A(3)' = A(3)
      /\ L(0)' = L(0) /\ L(1)' = L(1) /\ L(2)' = L(2) /\ L(3)' = L(3)
      /\ Deferred' = Deferred
  <2>1. T + 0 = T /\ T' + 0 = T
    BY <1>2
  <2>2. UNCHANGED <<free_bplist, ms_defertree>>
    BY Zenon, <1>1 DEF frees
  <2>3. ms_alloctree \in [Slots -> SUBSET Segs]
    BY Zenon DEF IndInv, TypeOK
  <2>4. CASE born[s] = T
    BY Zenon, <1>1, <1>2, <1>3, <1>4, <1>5, <2>1, <2>2, <2>3, <2>4 DEF A, L, Deferred
  <2>5. CASE born[s] = T + 1
    BY Zenon, <1>1, <1>2, <1>3, <1>4, <1>5, <2>1, <2>2, <2>3, <2>5 DEF A, L, Deferred
  <2>6. CASE born[s] = T + 2
    BY Zenon, <1>1, <1>2, <1>3, <1>4, <1>5, <2>1, <2>2, <2>3, <2>6 DEF A, L, Deferred
  <2> QED
    BY Zenon, <1>4, <2>4, <2>5, <2>6
<1>7. InUse' = InUse \ {s}
  BY Zenon, <1>1, <1>5, <1>6 DEF InUse, maps
<1>8. TypeOK'
  <2>1. Slot(born[s]) \in Slots
    BY Zenon, <1>3, <1>4
  <2> QED
    BY Zenon, <1>1, <2>1 DEF IndInv, TypeOK, state, maps, frees, sync, bounds
<1>9. Partition'
  BY Zenon, <1>1, <1>6 DEF IndInv, Partition, maps
<1>10. Owners'
  <2> SUFFICES ASSUME NEW r \in Segs PROVE Owners!(r)'
    BY Zenon DEF Owners
  <2>1. CASE r = s
    <3>1. use'[s] = "no" /\ born'[s] = born[s]
      BY Zenon, <1>1 DEF IndInv, TypeOK
    <3>2. /\ s \notin bpobj /\ s \notin ms_freeingtree
          /\ s \notin L(0) /\ s \notin L(1) /\ s \notin L(2)
      BY Zenon, <1>1 DEF IndInv, Owners
    <3> QED
      BY Zenon, <1>1, <1>5, <1>6, <2>1, <3>1, <3>2 DEF maps, frees
  <2>2. CASE r # s
    <3>1. use'[r] = use[r] /\ born'[r] = born[r]
      BY Zenon, <1>1, <2>2 DEF IndInv, TypeOK
    <3> QED
      BY Zenon, <1>1, <1>2, <1>6, <2>2, <3>1 DEF IndInv, Owners, maps, frees, sync
  <2> QED
    BY Zenon, <2>1, <2>2
<1>11. TreeInv'
  BY Zenon, <1>1, <1>5, <1>6, <1>7 DEF IndInv, TreeInv, Loaded, maps, state
<1>12. ListInv' /\ SelectedInv'
  BY Zenon, <1>1, <1>2, <1>6 DEF IndInv, ListInv, SelectedInv, maps, state
<1>13. StageInv'
  BY Zenon, <1>1, <1>2, <1>6 DEF IndInv, StageInv, maps, frees, sync, state
<1>14. RefsInv'
  <2>1. s \notin refs[0] /\ s \notin refs[1] /\ s \notin refs[2] /\ s \notin disk.map
    BY <1>1 DEF IndInv, Owners
  <2> QED
    BY Zenon, <1>1, <1>2, <1>6, <1>7, <2>1 DEF IndInv, RefsInv, Unsynced, maps, sync
<1>15. LogInv'
  <2> SUFFICES ASSUME NEW r \in Segs PROVE LogInv!(r)'
    BY Zenon DEF LogInv
  <2>1. CASE r = s
    <3>1. logged'[s] = 0 /\ disk' = disk /\ disk.txg \in Nat /\ (Unsynced => T # 0) /\ spa_pc' = spa_pc
      BY <1>1 DEF IndInv, TypeOK, RefsInv, sync
    <3> QED
      BY <1>2, <2>1, <3>1 DEF Unsynced
  <2>2. CASE r # s
    <3>1. logged'[r] = logged[r]
      BY Zenon, <1>1, <2>2 DEF IndInv, TypeOK
    <3> QED
      BY Zenon, <1>1, <1>2, <1>6, <1>7, <2>2, <3>1 DEF IndInv, LogInv, Unsynced, sync
  <2> QED
    BY Zenon, <2>1, <2>2
<1> QED
  BY Zenon, <1>8, <1>9, <1>10, <1>11, <1>12, <1>13, <1>14, <1>15 DEF IndInv

LEMMA FreeBlockInv == IndInv /\ (\E s \in Segs : FreeBlock(s)) => IndInv'
<1> SUFFICES ASSUME IndInv, NEW s \in Segs, FreeBlock(s) PROVE IndInv'
  BY Zenon
<1>1. /\ spa_pc = "write" /\ use[s] = "live" /\ born[s] <= T
      /\ use' = [use EXCEPT ![s] = "no"]
      /\ born' = [born EXCEPT ![s] = T]
      /\ UNCHANGED <<ms_state, ms_tree, ms_alloctree, ms_freedtree, ms_defertree,
                     ms_selected_txg, maps, bpobj, sync, disk, logged, refs, bounds>>
  BY Zenon DEF FreeBlock
<1>2. \/ /\ ms_freeingtree' = ms_freeingtree \cup {s} /\ ms_list' = Dirty(ms_freeingtree, T)
         /\ UNCHANGED free_bplist
      \/ /\ free_bplist' = [free_bplist EXCEPT ![Slot(T)] = @ \cup {s}]
         /\ UNCHANGED <<ms_freeingtree, ms_list>>
  BY Zenon DEF FreeBlock, FreeDva
<1>3. SameInUse
  BY Zenon, <1>1, SameTreesInUse DEF maps, sync
<1>4. T \in Nat
  BY Zenon, Shapes DEF IndInv
<1>5. /\ Slot(T) \in Slots /\ Slot(T + 1) \in Slots /\ Slot(T + 2) \in Slots
      /\ Slot(T + 3) \in Slots /\ Slot(T) # Slot(T + 1) /\ Slot(T) # Slot(T + 2)
      /\ Slot(T) # Slot(T + 3)
  BY Zenon, <1>4, SlotFacts
<1>6. /\ L(1)' = L(1) /\ L(2)' = L(2) /\ L(3)' = L(3)
      /\ \/ ms_freeingtree' = ms_freeingtree \cup {s} /\ L(0)' = L(0)
         \/ ms_freeingtree' = ms_freeingtree /\ L(0)' = L(0) \cup {s}
  <2>1. T + 0 = T /\ T' + 0 = T /\ T' = T
    BY <1>3, <1>4 DEF SameInUse
  <2> QED
    BY <1>2, <1>5, <2>1 DEF IndInv, TypeOK, L
<1>7. /\ Slot(T) \in ms_list' <=> Slot(T) \in ms_list \/ ms_freeingtree' # ms_freeingtree
      /\ ms_list \subseteq ms_list' /\ ms_list' \subseteq Slots
  <2>1. s \notin ms_freeingtree
    BY Zenon, <1>1 DEF IndInv, Owners
  <2> QED
    BY Zenon, <1>2, <1>5, <2>1 DEF IndInv, ListInv, TypeOK, Dirty
<1>8. TypeOK'
  <2>1. free_bplist' \in [Slots -> SUBSET Segs] /\ ms_freeingtree' \subseteq Segs
    <3>1. /\ free_bplist \in [Slots -> SUBSET Segs] /\ ms_freeingtree \subseteq Segs
          /\ {s} \subseteq Segs
      BY DEF IndInv, TypeOK
    <3>2. CASE free_bplist' = [free_bplist EXCEPT ![Slot(T)] = @ \cup {s}]
      BY ONLY Zenon, <1>2, <1>5, <3>1, <3>2
    <3> QED
      BY ONLY Zenon, <1>2, <3>1, <3>2
  <2>2. use' \in [Segs -> {"no", "writing", "live"}] /\ born' \in [Segs -> Nat]
    BY Zenon, <1>1, <1>4 DEF IndInv, TypeOK
  <2>3. spa_pc' = "write"
    BY Zenon, <1>1 DEF sync
  <2> QED
    BY Zenon, <1>1, <1>7, <2>1, <2>2, <2>3 DEF IndInv, TypeOK, maps, sync, bounds
<1>9. Partition'
  BY Zenon, <1>1, <1>3, <1>6 DEF IndInv, Partition, maps, SameInUse
<1>10. Owners'
  <2> SUFFICES ASSUME NEW r \in Segs PROVE Owners!(r)'
    BY Zenon DEF Owners
  <2>1. CASE r = s
    <3>1. use'[s] = "no" /\ born'[s] = T
      BY <1>1 DEF IndInv, TypeOK
    <3>2. /\ s \notin bpobj /\ s \notin ms_freeingtree
          /\ s \notin L(0) /\ s \notin L(1) /\ s \notin L(2)
          /\ s \in smp_alloc \/ s \in A(0)
      BY Zenon, <1>1 DEF IndInv, Owners, Partition
    <3>3. s \notin A(1) /\ s \notin A(2)
      BY Zenon, <3>2 DEF IndInv, Partition
    <3> QED
      BY Zenon, <1>1, <1>3, <1>6, <2>1, <3>1, <3>2, <3>3 DEF maps, SameInUse
  <2>2. CASE r # s
    <3>1. use'[r] = use[r] /\ born'[r] = born[r]
      BY Zenon, <1>1, <2>2 DEF IndInv, TypeOK
    <3> QED
      BY Zenon, <1>1, <1>3, <1>6, <2>2, <3>1 DEF IndInv, Owners, maps, sync, SameInUse
  <2> QED
    BY Zenon, <2>1, <2>2
<1>11. TreeInv'
  BY Zenon, <1>1, <1>3 DEF IndInv, TreeInv, Loaded, maps, SameInUse
<1>12. ListInv' /\ SelectedInv'
  BY Zenon, <1>1, <1>3, <1>7 DEF IndInv, ListInv, SelectedInv, maps, SameInUse
<1>13. StageInv'
  BY Zenon, <1>1, <1>3 DEF IndInv, StageInv, maps, sync, SameInUse
<1>14. RefsInv'
  BY ZenonT(20), <1>1, <1>3 DEF IndInv, RefsInv, Unsynced, maps, sync, SameInUse
<1>15. LogInv'
  BY ZenonT(20), <1>1, <1>3 DEF IndInv, LogInv, Unsynced, maps, sync, SameInUse
<1> QED
  BY Zenon, <1>8, <1>9, <1>10, <1>11, <1>12, <1>13, <1>14, <1>15 DEF IndInv

LEMMA FreeOpenInv == IndInv /\ (\E s \in Segs : FreeOpen(s)) => IndInv'
<1> SUFFICES ASSUME IndInv, NEW s \in Segs, FreeOpen(s) PROVE IndInv'
  BY Zenon
<1>1. /\ use[s] = "live" /\ born[s] \in OpenTxgs
      /\ use' = [use EXCEPT ![s] = "no"]
      /\ free_bplist' = [free_bplist EXCEPT ![Slot(born[s])] = @ \cup {s}]
      /\ UNCHANGED <<trees, state, maps, bpobj, sync, disk, born, logged, refs, bounds>>
  BY Zenon DEF FreeOpen
<1>2. SameInUse
  BY Zenon, <1>1, SameTreesInUse DEF trees, maps, sync
<1>3. T \in Nat /\ T' = T /\ T + 0 = T
  BY <1>2, Shapes DEF IndInv, SameInUse
<1>4. /\ Slot(T) \in Slots /\ Slot(T + 1) \in Slots /\ Slot(T + 2) \in Slots
      /\ Slot(T + 3) \in Slots /\ Slot(T) # Slot(T + 1) /\ Slot(T) # Slot(T + 2)
      /\ Slot(T) # Slot(T + 3) /\ Slot(T + 1) # Slot(T + 2) /\ Slot(T + 1) # Slot(T + 3)
      /\ Slot(T + 2) # Slot(T + 3)
  BY Zenon, <1>3, SlotFacts
<1>5. /\ s \notin L(0) /\ s \notin L(1) /\ s \notin L(2)
      /\ s \notin bpobj /\ s \notin ms_freeingtree
  BY Zenon, <1>1 DEF IndInv, Owners
<1>6. \/ /\ born[s] = T /\ spa_pc = "idle" /\ (s \in smp_alloc \/ s \in A(0))
         /\ s \notin A(1) /\ s \notin A(2)
      \/ /\ born[s] = T + 1 /\ spa_pc # "claim" /\ s \in A(1)
         /\ s \notin smp_alloc /\ s \notin A(0) /\ s \notin A(2)
      \/ /\ born[s] = T + 2 /\ spa_pc \notin {"idle", "claim"} /\ s \in A(2)
         /\ s \notin smp_alloc /\ s \notin A(0) /\ s \notin A(1)
  <2>1. \/ born[s] = T /\ spa_pc = "idle"
        \/ born[s] = T + 1
        \/ born[s] = T + 2 /\ spa_pc # "idle"
    BY Zenon, <1>1 DEF OpenTxgs
  <2>2. born[s] = T => s \in smp_alloc \/ s \in A(0)
    BY <1>1, <1>3 DEF IndInv, Owners
  <2>3. (born[s] = T + 1 => s \in A(1)) /\ (born[s] = T + 2 => s \in A(2))
    BY Zenon, <1>1 DEF IndInv, Owners
  <2>4. s \in A(1) \/ s \in A(2) => spa_pc # "claim"
    BY Zenon DEF IndInv, StageInv, TreeInv, Loaded
  <2> QED
    BY Zenon, <2>1, <2>2, <2>3, <2>4 DEF IndInv, Partition
<1>7. /\ L(0)' = IF born[s] = T THEN L(0) \cup {s} ELSE L(0)
      /\ L(1)' = IF born[s] = T + 1 THEN L(1) \cup {s} ELSE L(1)
      /\ L(2)' = IF born[s] = T + 2 THEN L(2) \cup {s} ELSE L(2)
      /\ L(3)' = L(3)
  <2>1. free_bplist \in [Slots -> SUBSET Segs] /\ T' + 0 = T
    BY Zenon, <1>3 DEF IndInv, TypeOK
  <2> QED
    BY Zenon, <1>1, <1>3, <1>4, <1>6, <2>1 DEF L
<1>8. TypeOK'
  <2>1. Slot(born[s]) \in Slots
    BY Zenon, <1>4, <1>6
  <2> QED
    BY Zenon, <1>1, <2>1 DEF IndInv, TypeOK, trees, state, maps, sync, bounds
<1>9. Partition'
  BY Zenon, <1>1, <1>2, <1>7 DEF IndInv, Partition, trees, maps, SameInUse
<1>10. Owners'
  <2> SUFFICES ASSUME NEW r \in Segs PROVE Owners!(r)'
    BY Zenon DEF Owners
  <2>1. CASE r = s
    <3>1. use'[s] = "no" /\ born'[s] = born[s]
      BY Zenon, <1>1 DEF IndInv, TypeOK
    <3> QED
      BY SMTT(20), <1>1, <1>2, <1>3, <1>5, <1>6, <1>7, <2>1, <3>1 DEF trees, maps, SameInUse
  <2>2. CASE r # s
    <3>1. use'[r] = use[r] /\ born'[r] = born[r]
      BY Zenon, <1>1, <2>2 DEF IndInv, TypeOK
    <3> QED
      BY Zenon, <1>1, <1>2, <1>7, <2>2, <3>1 DEF IndInv, Owners, trees, maps, sync, SameInUse
  <2> QED
    BY Zenon, <2>1, <2>2
<1>11. TreeInv' /\ ListInv' /\ SelectedInv'
  BY ZenonT(20), <1>1, <1>2
     DEF IndInv, TreeInv, Loaded, ListInv, SelectedInv, trees, state, maps, SameInUse
<1>12. StageInv'
  <2>1. /\ spa_pc \in {"idle", "claim"} => L(2)' = L(2)
        /\ spa_pc \in {"vdev", "commit", "done"} => L(0)' = L(0)
    BY ONLY <1>3, <1>6, <1>7
  <2>2. CondenseTree' = CondenseTree
    BY Zenon, <1>1, <1>2 DEF CondenseTree, trees, maps, SameInUse
  <2> QED
    BY Zenon, <1>1, <1>2, <2>1, <2>2
       DEF IndInv, StageInv, trees, state, maps, sync, SameInUse
<1>13. RefsInv' /\ LogInv'
  BY ZenonT(20), <1>1, <1>2
     DEF IndInv, RefsInv, LogInv, Unsynced, trees, maps, sync, SameInUse
<1> QED
  BY Zenon, <1>8, <1>9, <1>10, <1>11, <1>12, <1>13 DEF IndInv

-----------------------------------------------------------------------------
(* The part of spa_sync that writes the space map                          *)

LEMMA SyncFreesInv == IndInv /\ SyncFrees => IndInv'
<1> SUFFICES ASSUME IndInv, SyncFrees PROVE IndInv'
  BY Zenon
<1>1. /\ spa_pc = "write" /\ spa_pc' = "vdev"
      /\ \A s \in Segs : ~(use[s] = "writing" /\ born[s] = T)
      /\ free_bplist' = [free_bplist EXCEPT ![Slot(T)] = {}]
      /\ mos' = [map |-> smp_alloc, bpobj |-> bpobj, dirty |-> IF bpobj' = bpobj THEN 0 ELSE 1]
      /\ UNCHANGED <<ms_state, ms_tree, ms_alloctree, ms_freedtree, ms_defertree,
                     ms_selected_txg, maps, spa_txg, spa_pass, disk, blocks, refs, bounds>>
  BY Zenon DEF SyncFrees
<1>2. \/ /\ ms_freeingtree' = ms_freeingtree \cup L(0) /\ bpobj' = bpobj
         /\ ms_list' = IF L(0) = {} THEN ms_list ELSE Dirty(ms_freeingtree, T)
      \/ /\ bpobj' = bpobj \cup L(0)
         /\ ms_freeingtree' = ms_freeingtree /\ ms_list' = ms_list
  BY Zenon, Shapes DEF IndInv, SyncFrees, FreeDva
<1>3. SameInUse
  BY Zenon, <1>1, SameTreesInUse DEF maps
<1>4. T \in Nat /\ T' = T /\ T + 0 = T /\ L(0) \subseteq Segs
  BY <1>3, Shapes DEF IndInv, SameInUse
<1>5. /\ Slot(T) \in Slots /\ Slot(T + 1) \in Slots /\ Slot(T + 2) \in Slots
      /\ Slot(T + 3) \in Slots /\ Slot(T) # Slot(T + 1) /\ Slot(T) # Slot(T + 2)
      /\ Slot(T) # Slot(T + 3)
  BY Zenon, <1>4, SlotFacts
<1>6. L(0)' = {} /\ L(1)' = L(1) /\ L(2)' = L(2) /\ L(3)' = L(3)
  <2>1. free_bplist \in [Slots -> SUBSET Segs] /\ T' + 0 = T
    BY Zenon, <1>4 DEF IndInv, TypeOK
  <2> QED
    BY Zenon, <1>1, <1>4, <1>5, <2>1 DEF L
<1>7. /\ ms_list \subseteq ms_list' /\ ms_list' \subseteq Slots
      /\ ms_freeingtree' # {} => Slot(T) \in ms_list'
  BY SMTT(30), <1>2, <1>5 DEF IndInv, ListInv, TypeOK, Dirty
<1>8. TypeOK'
  <2>1. /\ free_bplist' \in [Slots -> SUBSET Segs] /\ ms_freeingtree' \subseteq Segs
        /\ bpobj' \subseteq Segs
    BY Zenon, <1>1, <1>2, <1>4, <1>5 DEF IndInv, TypeOK
  <2>2. mos' \in [map : SUBSET Segs, bpobj : SUBSET Segs, dirty : {0, 1}]
    BY Zenon, <1>1 DEF IndInv, TypeOK
  <2> QED
    BY Zenon, <1>1, <1>7, <2>1, <2>2 DEF IndInv, TypeOK, maps, blocks, bounds
<1>9. Partition'
  BY Zenon, <1>1, <1>3, <1>6 DEF IndInv, Partition, maps, SameInUse
<1>10. Owners'
  <2> SUFFICES ASSUME NEW r \in Segs PROVE Owners!(r)'
    BY Zenon DEF Owners
  <2>1. use'[r] = use[r] /\ born'[r] = born[r] /\ refs' = refs /\ disk' = disk
    BY Zenon, <1>1 DEF blocks
  <2>2. use[r] = "writing" => ~(born[r] <= T)
    BY Zenon, <1>1 DEF IndInv, Owners
  <2>3. \/ /\ r \in ms_freeingtree' <=> r \in ms_freeingtree \/ r \in L(0)
           /\ r \in bpobj' <=> r \in bpobj
        \/ /\ r \in bpobj' <=> r \in bpobj \/ r \in L(0)
           /\ r \in ms_freeingtree' <=> r \in ms_freeingtree
    BY Zenon, <1>2
  <2>4. r \notin L(0)' /\ smp_alloc' = smp_alloc
    BY Zenon, <1>1, <1>6 DEF maps
  <2> QED
    BY Zenon, <1>3, <1>6, <2>1, <2>2, <2>3, <2>4 DEF IndInv, Owners, SameInUse
<1>11. TreeInv'
  BY Zenon, <1>1, <1>3 DEF IndInv, TreeInv, Loaded, maps, SameInUse
<1>12. ListInv' /\ SelectedInv'
  BY Zenon, <1>1, <1>3, <1>7 DEF IndInv, ListInv, SelectedInv, maps, SameInUse
<1>13. StageInv'
  <2>1. mos'.dirty = 0 => mos'.map = smp_alloc' /\ mos'.bpobj = bpobj'
    BY <1>1 DEF maps
  <2> QED
    BY Zenon, <1>1, <1>3, <1>6, <2>1 DEF IndInv, StageInv, maps, SameInUse
<1>14. RefsInv'
  BY Zenon, <1>1, <1>3 DEF IndInv, RefsInv, Unsynced, maps, SameInUse
<1>15. LogInv'
  BY Zenon, <1>1, <1>3 DEF IndInv, LogInv, Unsynced, blocks, SameInUse
<1> QED
  BY Zenon, <1>8, <1>9, <1>10, <1>11, <1>12, <1>13, <1>14, <1>15 DEF IndInv

(* What metaslab_sync does to the trees, whichever way the map is written. *)
MapWritten ==
    /\ spa_pc = "vdev" /\ Slot(T) \in ms_list
    /\ smp_alloc' = (smp_alloc \cup A(0)) \ ms_freeingtree
    /\ Written
    /\ mos' = [mos EXCEPT !.dirty = 1]
    /\ ms_state' = "loaded" \/ (ms_state' = ms_state /\ ms_state # "condensing")
    /\ Loaded' <=> Loaded
    /\ condense_tree' \subseteq Segs
    /\ UNCHANGED <<ms_tree, ms_defertree, ms_selected_txg, sm_alloc, frees, spa_pc, spa_txg,
                   spa_pass, disk, blocks, refs, bounds>>

LEMMA MapWrittenInv == IndInv /\ MapWritten => IndInv'
<1> SUFFICES ASSUME IndInv, MapWritten PROVE IndInv'
  BY Zenon
<1>1. T \in Nat /\ T' = T /\ T + 0 = T /\ A(0) = ms_alloctree[Slot(T)] /\ A(0) \subseteq Segs
  BY Shapes DEF IndInv, MapWritten, T
<1>2. /\ Slot(T) \in Slots /\ Slot(T + 1) \in Slots /\ Slot(T + 2) \in Slots
      /\ Slot(T + 3) \in Slots /\ Slot(T) # Slot(T + 1) /\ Slot(T) # Slot(T + 2)
      /\ Slot(T) # Slot(T + 3)
  BY Zenon, <1>1, SlotFacts
<1>3. /\ A(0)' = {} /\ A(1)' = A(1) /\ A(2)' = A(2) /\ A(3)' = A(3)
      /\ L(0)' = L(0) /\ L(1)' = L(1) /\ L(2)' = L(2) /\ L(3)' = L(3)
      /\ Deferred' = Deferred
  <2>1. /\ ms_alloctree \in [Slots -> SUBSET Segs] /\ T' + 0 = T
        /\ ms_alloctree' = [ms_alloctree EXCEPT ![Slot(T)] = {}]
        /\ UNCHANGED <<free_bplist, ms_defertree>>
    BY Zenon, <1>1 DEF IndInv, TypeOK, MapWritten, Written, frees
  <2> QED
    BY Zenon, <1>1, <1>2, <2>1 DEF A, L, Deferred
<1>4. ms_freeingtree' = {} /\ ms_freedtree' = ms_freedtree \cup ms_freeingtree
  <2>1. spa_pass = 1 => ms_freedtree = {}
    BY Zenon DEF IndInv, StageInv, MapWritten
  <2> QED
    BY Zenon, <2>1 DEF MapWritten, Written
<1>5. /\ ms_freeingtree \subseteq smp_alloc \cup A(0)
      /\ smp_alloc' = (smp_alloc \cup A(0)) \ ms_freeingtree
  BY Zenon DEF IndInv, Owners, TypeOK, MapWritten
<1>6. InUse' = InUse
  BY Zenon, <1>3, <1>4, <1>5 DEF InUse
<1>7. ms_list' = (ms_list \ {Slot(T)}) \cup {Slot(T + 3)}
  BY Zenon DEF MapWritten, Written, Cleaned
<1>8. TypeOK'
  <2>1. ms_alloctree' \in [Slots -> SUBSET Segs]
    BY Zenon, <1>2 DEF IndInv, TypeOK, MapWritten, Written
  <2>2. mos' \in [map : SUBSET Segs, bpobj : SUBSET Segs, dirty : {0, 1}]
    BY Zenon DEF IndInv, TypeOK, MapWritten
  <2>3. ms_list' \subseteq Slots
    BY Zenon, <1>2, <1>7 DEF IndInv, TypeOK
  <2> QED
    BY Zenon, <1>1, <1>4, <1>5, <2>1, <2>2, <2>3
       DEF IndInv, TypeOK, MapWritten, frees, blocks, bounds
<1>9. Partition'
  <2> SUFFICES ASSUME NEW r \in Segs PROVE Partition!2!(r)'
    BY Zenon, <1>3 DEF IndInv, Partition
  <2>1. /\ r \in smp_alloc' <=> (r \in smp_alloc \/ r \in A(0)) /\ r \notin ms_freeingtree
        /\ r \in ms_freedtree' <=> r \in ms_freedtree \/ r \in ms_freeingtree
        /\ r \in ms_freeingtree => r \in smp_alloc \/ r \in A(0)
        /\ r \in ms_defertree'[0] <=> r \in ms_defertree[0]
        /\ r \in ms_defertree'[1] <=> r \in ms_defertree[1]
    BY Zenon, <1>4, <1>5 DEF MapWritten
  <2> QED
    BY Zenon, <1>3, <2>1 DEF IndInv, Partition
<1>10. Owners'
  <2> SUFFICES ASSUME NEW r \in Segs PROVE Owners!(r)'
    BY Zenon DEF Owners
  <2>1. /\ use'[r] = use[r] /\ born'[r] = born[r] /\ refs' = refs /\ disk' = disk
        /\ bpobj' = bpobj /\ spa_pc' = spa_pc /\ spa_pc = "vdev"
    BY Zenon DEF MapWritten, blocks, frees
  <2>2. /\ r \in smp_alloc' <=> (r \in smp_alloc \/ r \in A(0)) /\ r \notin ms_freeingtree
        /\ r \notin ms_freeingtree' /\ r \notin A(0)'
    BY Zenon, <1>3, <1>4, <1>5
  <2> QED
    BY Zenon, <1>1, <1>3, <2>1, <2>2 DEF IndInv, Owners
<1>11. TreeInv'
  BY Zenon, <1>3, <1>4, <1>5, <1>6 DEF IndInv, TreeInv, Loaded, MapWritten
<1>12. ListInv' /\ SelectedInv'
  BY Zenon, <1>1, <1>2, <1>3, <1>4, <1>7 DEF IndInv, ListInv, SelectedInv, MapWritten
<1>13. StageInv'
  BY Zenon, <1>1, <1>2, <1>3, <1>7 DEF IndInv, StageInv, TypeOK, MapWritten
<1>14. RefsInv'
  BY Zenon, <1>1, <1>3, <1>6 DEF IndInv, RefsInv, Unsynced, MapWritten
<1>15. LogInv'
  BY Zenon, <1>1, <1>3, <1>6 DEF IndInv, LogInv, Unsynced, MapWritten, blocks
<1> QED
  BY Zenon, <1>8, <1>9, <1>10, <1>11, <1>12, <1>13, <1>14, <1>15 DEF IndInv

LEMMA MetaslabSyncInv == IndInv /\ MetaslabSync => IndInv'
<1> SUFFICES ASSUME IndInv, MetaslabSync PROVE IndInv'
  BY Zenon
<1>1. T \in Nat /\ A(0) = ms_alloctree[Slot(T)]
  BY Zenon, Shapes DEF IndInv
<1>2. CASE A(0) = {} /\ ms_freeingtree = {}
  <2>1. /\ spa_pc = "vdev" /\ ms_state # "condensing" /\ ms_list' = Cleaned
        /\ UNCHANGED <<trees, ms_state, ms_selected_txg, maps, frees, sync, disk, blocks, refs,
                       bounds>>
    BY Zenon, <1>1, <1>2 DEF MetaslabSync, maps, sync
  <2>2. SameSets
    BY Zenon, <2>1, SameTrees DEF trees, maps, frees, sync
  <2>3. /\ ms_list' = (ms_list \ {Slot(T)}) \cup {Slot(T + 3)}
        /\ Slot(T + 3) \in Slots /\ Slot(T) # Slot(T + 1) /\ Slot(T) # Slot(T + 2)
        /\ Slot(T) # Slot(T + 3)
    BY Zenon, <1>1, <2>1, SlotFacts DEF Cleaned
  <2>4. TypeOK'
    BY Zenon, <2>1, <2>3 DEF IndInv, TypeOK, trees, maps, frees, sync, blocks, bounds
  <2>5. Partition' /\ TreeInv' /\ SelectedInv'
    BY ZenonT(20), <2>1, <2>2
       DEF IndInv, Partition, TreeInv, Loaded, SelectedInv, SameSets, trees, maps
  <2>6. Owners'
    BY ZenonT(20), <2>1, <2>2
       DEF IndInv, Owners, SameSets, trees, maps, frees, sync, blocks
  <2>7. RefsInv' /\ LogInv'
    BY ZenonT(20), <2>1, <2>2
       DEF IndInv, RefsInv, LogInv, Unsynced, SameSets, trees, maps, sync, blocks
  <2>8. ListInv'
    BY Zenon, <1>2, <2>1, <2>2, <2>3 DEF IndInv, ListInv, SameSets, trees, maps
  <2>9. StageInv'
    BY Zenon, <2>1, <2>2, <2>3 DEF IndInv, StageInv, SameSets, trees, maps, frees, sync
  <2> QED
    BY Zenon, <2>4, <2>5, <2>6, <2>7, <2>8, <2>9 DEF IndInv
<1>3. CASE ~(A(0) = {} /\ ms_freeingtree = {})
  <2>1. MapWritten
    <3>1. condense_tree' = condense_tree /\ condense_tree \subseteq Segs
      BY Zenon DEF MetaslabSync, IndInv, TypeOK
    <3>2. Loaded' <=> Loaded
      BY Zenon DEF MetaslabSync, Loaded
    <3> QED
      BY Zenon, <1>1, <1>3, <3>1, <3>2 DEF MetaslabSync, MapWritten
  <2> QED
    BY Zenon, <2>1, MapWrittenInv
<1> QED
  BY Zenon, <1>2, <1>3

LEMMA CondenseStartInv == IndInv /\ CondenseStart => IndInv'
<1> SUFFICES ASSUME IndInv, CondenseStart PROVE IndInv'
  BY Zenon
<1> USE DEF CondenseStart, trees, frees, sync, blocks, bounds
<1>1. SameSets
  BY Zenon, SameTrees
<1>2. CondenseTree' = CondenseTree
  BY Zenon, <1>1 DEF CondenseTree, SameSets
<1>3. TypeOK'
  BY Zenon DEF IndInv, TypeOK, CondenseTree
<1>4. Partition' /\ ListInv' /\ SelectedInv'
  BY ZenonT(20), <1>1 DEF IndInv, Partition, ListInv, SelectedInv, SameSets
<1>5. Owners'
  BY ZenonT(20), <1>1 DEF IndInv, Owners, SameSets
<1>6. RefsInv' /\ LogInv'
  BY ZenonT(20), <1>1 DEF IndInv, RefsInv, LogInv, Unsynced, SameSets
<1>7. TreeInv'
  BY Zenon, <1>1 DEF IndInv, TreeInv, Loaded, SameSets
<1>8. StageInv'
  BY Zenon, <1>1, <1>2 DEF IndInv, StageInv, SameSets
<1> QED
  BY Zenon, <1>3, <1>4, <1>5, <1>6, <1>7, <1>8 DEF IndInv

(* Condensing writes the map that appending would have written.            *)
LEMMA Condensed ==
    ASSUME IndInv, ms_state = "condensing"
    PROVE  /\ ms_tree \subseteq condense_tree
           /\ condense_tree \ ms_tree = (smp_alloc \cup A(0)) \ ms_freeingtree
<1>1. /\ ms_tree = Segs \ (InUse \cup Deferred) /\ ms_freedtree = {}
      /\ condense_tree = Segs \ (ms_freeingtree \cup Deferred \cup A(1) \cup A(2))
  BY Zenon DEF IndInv, TreeInv, Loaded, StageInv, CondenseTree, A
<1>2. /\ smp_alloc \subseteq Segs /\ A(0) \subseteq Segs
      /\ \A s \in Segs :
           /\ s \in ms_freeingtree => s \in smp_alloc \/ s \in A(0)
           /\ s \in smp_alloc \/ s \in A(0)
                => s \notin A(1) /\ s \notin A(2) /\ s \notin Deferred
  BY Zenon, Shapes DEF IndInv, TypeOK, Owners, Partition
<1> QED
  BY Zenon, <1>1, <1>2 DEF InUse

LEMMA CondenseEndInv == IndInv /\ CondenseEnd => IndInv'
<1> SUFFICES ASSUME IndInv, CondenseEnd PROVE IndInv'
  BY Zenon
<1>1. /\ ms_state = "condensing" /\ ms_state' = "loaded"
      /\ spa_pc = "vdev" /\ Slot(T) \in ms_list
  BY Zenon DEF CondenseEnd, IndInv, StageInv
<1>2. Loaded' <=> Loaded
  BY Zenon, <1>1 DEF Loaded
<1>3. smp_alloc' = (smp_alloc \cup A(0)) \ ms_freeingtree
  BY Zenon, <1>1, Condensed DEF CondenseEnd
<1>4. MapWritten
  <2>1. condense_tree' \subseteq Segs
    BY Zenon DEF CondenseEnd
  <2>2. Written /\ mos' = [mos EXCEPT !.dirty = 1]
    BY Zenon DEF CondenseEnd
  <2>3. UNCHANGED <<ms_tree, ms_defertree, ms_selected_txg, sm_alloc, frees, spa_pc, spa_txg,
                    spa_pass, disk, blocks, refs, bounds>>
    BY Zenon DEF CondenseEnd
  <2> QED
    BY Zenon, <1>1, <1>2, <1>3, <2>1, <2>2, <2>3 DEF MapWritten
<1> QED
  BY Zenon, <1>4, MapWrittenInv

-----------------------------------------------------------------------------
(* The end of a pass, the uberblock and metaslab_sync_done                 *)

LEMMA PassDoneInv == IndInv /\ PassDone => IndInv'
<1> SUFFICES ASSUME IndInv, PassDone PROVE IndInv'
  BY Zenon
<1>1. /\ spa_pc = "vdev" /\ Slot(T) \notin ms_list
      /\ UNCHANGED <<ms_state, ms_tree, ms_alloctree, ms_freedtree, ms_defertree,
                     ms_selected_txg, maps, free_bplist, spa_txg, disk, use, logged, refs, bounds>>
  BY Zenon DEF PassDone
<1>2. \/ /\ NextPass(mos.dirty) /\ UNCHANGED <<ms_freeingtree, ms_list, bpobj, mos, born>>
      \/ /\ FreeDva(bpobj) /\ bpobj' = {} /\ NextPass(mos'.dirty)
         /\ born' = [s \in Segs |-> IF s \in bpobj THEN T ELSE born[s]]
         /\ mos' = [mos EXCEPT !.dirty = IF bpobj = {} THEN @ ELSE 1]
  BY Zenon DEF PassDone
<1>3. SameSets
  BY Zenon, <1>1, SameTrees DEF maps
<1>4. T \in Nat /\ spa_pass \in Nat /\ Slot(T) \in Slots /\ spa_pass >= 1 /\ mos.dirty \in {0, 1}
  BY Zenon, <1>1, Shapes, SlotFacts DEF IndInv, TypeOK, StageInv
<1>5. A(0) = {} /\ ms_freeingtree = {} /\ L(0) = {}
  BY Zenon, <1>1 DEF IndInv, ListInv, StageInv
<1>6. /\ ms_freeingtree' \cup bpobj' = bpobj /\ ms_freeingtree' \cap bpobj' = {}
      /\ ms_list \subseteq ms_list' /\ ms_list' \subseteq Slots
      /\ ms_freeingtree' # {} => Slot(T) \in ms_list' /\ mos'.dirty = 1
      /\ mos'.dirty = 0 => bpobj' = bpobj /\ mos.dirty = 0
      /\ mos'.map = mos.map /\ mos'.bpobj = mos.bpobj
      /\ mos' \in [map : SUBSET Segs, bpobj : SUBSET Segs, dirty : {0, 1}]
      /\ \/ spa_pc' = "write" /\ spa_pass' = spa_pass + 1
         \/ spa_pc' = "commit" /\ spa_pass' = spa_pass /\ mos'.dirty = 0
  <2>1. /\ ms_list \subseteq Slots
        /\ mos \in [map : SUBSET Segs, bpobj : SUBSET Segs, dirty : {0, 1}]
    BY Zenon DEF IndInv, TypeOK
  <2>2. CASE NextPass(mos.dirty) /\ UNCHANGED <<ms_freeingtree, ms_list, bpobj, mos, born>>
    BY Zenon, <1>4, <1>5, <2>1, <2>2 DEF NextPass
  <2>3. CASE /\ FreeDva(bpobj) /\ bpobj' = {} /\ NextPass(mos'.dirty)
             /\ mos' = [mos EXCEPT !.dirty = IF bpobj = {} THEN @ ELSE 1]
    <3>1. /\ mos'.dirty = (IF bpobj = {} THEN mos.dirty ELSE 1)
          /\ mos'.map = mos.map /\ mos'.bpobj = mos.bpobj
          /\ mos' \in [map : SUBSET Segs, bpobj : SUBSET Segs, dirty : {0, 1}]
      BY Zenon, <2>1, <2>3
    <3>2. /\ ms_freeingtree' = bpobj
          /\ ms_list' = IF bpobj = {} THEN ms_list ELSE ms_list \cup {Slot(T)}
      BY Zenon, <1>5, <2>3 DEF FreeDva, Dirty
    <3>3. \/ spa_pc' = "write" /\ spa_pass' = spa_pass + 1
          \/ spa_pc' = "commit" /\ spa_pass' = spa_pass /\ mos'.dirty = 0
      BY Zenon, <1>4, <2>3, <3>1 DEF NextPass
    <3> QED
      BY <1>4, <2>1, <2>3, <3>1, <3>2, <3>3
  <2> QED
    BY Zenon, <1>2, <2>2, <2>3
<1>7. \A s \in Segs : /\ born'[s] \in Nat
                      /\ use[s] # "no" => born'[s] = born[s]
  BY SMTT(30), <1>2, <1>4 DEF IndInv, TypeOK, Owners
<1>8. TypeOK'
  <2>1. born' \in [Segs -> Nat]
    BY SMTT(30), <1>2, <1>4 DEF IndInv, TypeOK
  <2>2. bpobj' \subseteq Segs /\ ms_freeingtree' \subseteq Segs
    BY Zenon, <1>6 DEF IndInv, TypeOK
  <2> QED
    BY <1>1, <1>4, <1>6, <2>1, <2>2 DEF IndInv, TypeOK, maps, bounds
<1>9. Partition' /\ TreeInv' /\ SelectedInv'
  BY ZenonT(20), <1>1, <1>3
     DEF IndInv, Partition, TreeInv, Loaded, SelectedInv, SameSets, maps
<1>10. Owners'
  <2> SUFFICES ASSUME NEW r \in Segs PROVE Owners!(r)'
    BY Zenon DEF Owners
  <2>1. /\ r \in ms_freeingtree' \/ r \in bpobj' <=> r \in bpobj
        /\ ~(r \in ms_freeingtree' /\ r \in bpobj')
        /\ r \notin ms_freeingtree /\ r \notin L(0)
    BY Zenon, <1>5, <1>6
  <2>2. /\ use'[r] = use[r] /\ (use[r] # "no" => born'[r] = born[r])
        /\ smp_alloc' = smp_alloc /\ refs' = refs /\ disk' = disk
    BY Zenon, <1>1, <1>7 DEF maps
  <2>3. use[r] = "writing" => ~(born[r] <= T)
    BY Zenon, <1>1 DEF IndInv, Owners
  <2> QED
    BY Zenon, <1>3, <2>1, <2>2, <2>3 DEF IndInv, Owners, SameSets
<1>11. ListInv'
  BY Zenon, <1>1, <1>3, <1>5, <1>6 DEF IndInv, ListInv, SameSets, maps
<1>12. StageInv'
  BY <1>1, <1>3, <1>4, <1>5, <1>6 DEF IndInv, StageInv, SameSets, maps
<1>13. RefsInv'
  <2>1. spa_pc # "done" /\ spa_pc' # "done"
    BY Zenon, <1>1, <1>6
  <2> QED
    BY ZenonT(20), <1>1, <1>3, <2>1 DEF IndInv, RefsInv, Unsynced, SameSets
<1>14. LogInv'
  <2>1. spa_pc # "done" /\ spa_pc' # "done" /\ spa_pc # "claim"
    BY Zenon, <1>1, <1>6
  <2> QED
    BY ZenonT(20), <1>1, <1>3, <2>1 DEF IndInv, LogInv, Unsynced, SameSets
<1> QED
  BY Zenon, <1>8, <1>9, <1>10, <1>11, <1>12, <1>13, <1>14 DEF IndInv

LEMMA CommitInv == IndInv /\ Commit => IndInv'
<1> SUFFICES ASSUME IndInv, Commit PROVE IndInv'
  BY Zenon
<1>1. /\ spa_pc = "commit" /\ spa_pc' = "done"
      /\ disk' = [map |-> mos.map, bpobj |-> mos.bpobj, txg |-> T]
      /\ refs' = [i \in 0 .. 2 |->
                    IF i = 0 THEN {s \in Segs : use[s] = "live" /\ born[s] <= T} ELSE refs[i - 1]]
      /\ UNCHANGED <<trees, state, maps, frees, spa_txg, spa_pass, mos, blocks, bounds>>
  BY Zenon DEF Commit, TXG_DEFER_SIZE
<1>2. SameSets
  BY Zenon, <1>1, SameTrees DEF trees, maps, frees
<1>3. T \in Nat /\ \A s \in Segs : born[s] \in Nat
  BY Zenon, Shapes DEF IndInv, TypeOK
<1>4. /\ mos.map = smp_alloc /\ mos.bpobj = bpobj
      /\ A(0) = {} /\ L(0) = {} /\ ms_freeingtree = {}
  BY Zenon, <1>1 DEF IndInv, StageInv
<1>5. /\ disk'.map = smp_alloc /\ disk'.bpobj = bpobj /\ disk'.txg = T
      /\ refs'[0] = {s \in Segs : use[s] = "live" /\ born[s] <= T}
      /\ refs'[1] = refs[0] /\ refs'[2] = refs[1]
  BY <1>1, <1>4
<1>6. \A s \in Segs : use[s] = "writing" => ~(born[s] <= T) /\ s \notin smp_alloc
  <2> SUFFICES ASSUME NEW s \in Segs, use[s] = "writing"
               PROVE  ~(born[s] <= T) /\ s \notin smp_alloc
    BY Zenon
  <2>1. ~(born[s] <= T)
    BY Zenon, <1>1 DEF IndInv, Owners
  <2>2. s \in A(1) \/ s \in A(2)
    <3>1. born[s] = T + 1 \/ born[s] = T + 2
      BY <1>3, <2>1 DEF IndInv, Owners
    <3> QED
      BY Zenon, <3>1 DEF IndInv, Owners
  <2> QED
    BY Zenon, <2>1, <2>2 DEF IndInv, Partition
<1>7. TypeOK'
  <2>1. disk' \in [map : SUBSET Segs, bpobj : SUBSET Segs, txg : Nat]
    BY Zenon, <1>1, <1>3 DEF IndInv, TypeOK
  <2>2. refs' \in [0 .. 2 -> SUBSET Segs]
    BY <1>1 DEF IndInv, TypeOK, TXG_DEFER_SIZE
  <2> QED
    BY Zenon, <1>1, <2>1, <2>2
       DEF IndInv, TypeOK, TXG_DEFER_SIZE, trees, state, maps, frees, blocks, bounds
<1>8. Partition' /\ TreeInv' /\ ListInv' /\ SelectedInv'
  BY ZenonT(20), <1>1, <1>2
     DEF IndInv, Partition, TreeInv, Loaded, ListInv, SelectedInv, SameSets, trees, state, maps
<1>9. Owners'
  <2> SUFFICES ASSUME NEW r \in Segs PROVE Owners!(r)'
    BY Zenon DEF Owners
  <2>1. /\ use' = use /\ born' = born /\ bpobj' = bpobj /\ ms_freeingtree' = ms_freeingtree
        /\ smp_alloc' = smp_alloc
    BY Zenon, <1>1 DEF blocks, frees, trees, maps
  <2>2. use[r] = "writing" => /\ ~(born[r] <= T) /\ r \notin disk'.map
                              /\ \A i \in 0 .. 2 : r \notin refs'[i]
    <3>1. use[r] = "writing" => \A i \in 0 .. 2 : r \notin refs[i]
      BY Zenon DEF IndInv, Owners
    <3> QED
      BY <1>5, <1>6, <3>1
  <2> QED
    BY Zenon, <1>2, <2>1, <2>2 DEF IndInv, Owners, SameSets
<1>10. StageInv'
  BY Zenon, <1>1, <1>2 DEF IndInv, StageInv, SameSets, trees, state, maps, frees
<1>11. RefsInv'
  <2>1. \A s \in Segs : s \in smp_alloc <=> s \in refs'[0] \/ s \in bpobj
    <3> SUFFICES ASSUME NEW s \in Segs PROVE s \in smp_alloc <=> s \in refs'[0] \/ s \in bpobj
      BY Zenon
    <3>1. use[s] # "no" /\ born[s] <= T <=> use[s] = "live" /\ born[s] <= T
      BY Zenon, <1>6 DEF IndInv, TypeOK
    <3> QED
      BY Zenon, <1>4, <1>5, <3>1 DEF IndInv, Owners
  <2>2. \A s \in Segs : ~(s \in refs'[0] /\ s \in bpobj)
    BY Zenon, <1>5 DEF IndInv, Owners
  <2>3. disk'.map = refs'[0] \cup disk'.bpobj /\ refs'[0] \cap disk'.bpobj = {}
    BY Zenon, <1>5, <2>1, <2>2 DEF IndInv, TypeOK
  <2>4. refs[0] \subseteq InUse /\ refs[1] \subseteq InUse \cup ms_defertree[(T + 1) % 2]
    BY Zenon, <1>1 DEF IndInv, RefsInv, Unsynced
  <2> QED
    BY Zenon, <1>1, <1>2, <1>5, <2>3, <2>4 DEF RefsInv, Unsynced, SameSets, trees, maps
<1>12. LogInv'
  <2> SUFFICES ASSUME NEW r \in Segs PROVE LogInv!(r)'
    BY Zenon DEF LogInv
  <2>1. r \in smp_alloc => logged[r] <= T
    <3>1. r \in smp_alloc => r \notin A(1) /\ r \notin A(2)
      BY Zenon DEF IndInv, Partition
    <3>2. logged[r] \in Nat /\ logged[r] <= T + 2
      BY Zenon, <1>1 DEF IndInv, TypeOK, LogInv
    <3>3. (logged[r] = T + 1 => r \in A(1)) /\ (logged[r] = T + 2 => r \in A(2))
      BY Zenon, <1>1 DEF IndInv, LogInv
    <3> QED
      BY <1>3, <3>1, <3>2, <3>3
  <2>2. logged' = logged
    BY Zenon, <1>1 DEF blocks
  <2> QED
    BY Zenon, <1>1, <1>2, <1>5, <2>1, <2>2 DEF IndInv, LogInv, Unsynced, SameSets
<1> QED
  BY Zenon, <1>7, <1>8, <1>9, <1>10, <1>11, <1>12 DEF IndInv

-----------------------------------------------------------------------------
(* The end of spa_sync: every txg moves up by one slot.                    *)

Shifted ==
    /\ T' = T + 1 /\ Slot(T)' = Slot(T + 1) /\ Slot(T + 1)' = Slot(T + 2)
    /\ A(0)' = A(1) /\ A(1)' = A(2) /\ A(2)' = {} /\ A(3)' = {}
    /\ L(0)' = L(1) /\ L(1)' = L(2) /\ L(2)' = {} /\ L(3)' = {}

LEMMA SyncDoneShifts == IndInv /\ SyncDone => Shifted /\ A(0) = {} /\ L(0) = {}
<1> SUFFICES ASSUME IndInv, SyncDone PROVE Shifted /\ A(0) = {} /\ L(0) = {}
  BY Zenon
<1>1. spa_pc = "done" /\ spa_txg' = T + 1 /\ UNCHANGED <<ms_alloctree, free_bplist>>
  BY Zenon DEF SyncDone, MetaslabSyncDone, T, trees, frees
<1>2. T \in Nat /\ T' = T + 1
  BY Zenon, <1>1, Shapes DEF IndInv, T
<1>3. A(0) = {} /\ A(3) = {} /\ L(0) = {} /\ L(3) = {}
  BY Zenon, <1>1 DEF IndInv, StageInv, Partition
<1>4. /\ Slot(T + 1 + 0) = Slot(T + 1) /\ Slot(T + 1 + 1) = Slot(T + 2)
      /\ Slot(T + 1 + 2) = Slot(T + 3) /\ Slot(T + 1 + 3) = Slot(T + 0)
  BY ONLY <1>2 DEF Slot, TXG_SIZE
<1>5. \A i : A(i)' = ms_alloctree[Slot(T + 1 + i)] /\ L(i)' = free_bplist[Slot(T + 1 + i)]
  BY Zenon, <1>1, <1>2 DEF A, L, Slot
<1>6. Slot(T)' = Slot(T + 1) /\ Slot(T + 1)' = Slot(T + 2)
  BY Zenon, <1>2, <1>4 DEF Slot
<1>7. /\ A(0)' = A(1) /\ A(1)' = A(2) /\ A(2)' = A(3) /\ A(3)' = A(0)
      /\ L(0)' = L(1) /\ L(1)' = L(2) /\ L(2)' = L(3) /\ L(3)' = L(0)
  BY Zenon, <1>4, <1>5 DEF A, L
<1> QED
  BY Zenon, <1>2, <1>3, <1>6, <1>7 DEF Shifted

(* What the two cases of SyncDone have in common                           *)
Released(R) ==
    /\ ms_freedtree' = {} /\ sm_alloc' = smp_alloc /\ smp_alloc' = smp_alloc
    /\ ms_freeingtree' = ms_freeingtree /\ ms_selected_txg' = ms_selected_txg
    /\ R \subseteq ms_freedtree
    /\ ms_defertree'[(T + 1) % 2] = ms_defertree[(T + 1) % 2]
    /\ ms_defertree'[T % 2] \subseteq ms_defertree[T % 2] \cup (ms_freedtree \ R)
    /\ ms_freedtree \ R \subseteq ms_defertree'[T % 2]
    /\ R # {} => refs' = [i \in 0 .. 2 |-> refs[0]]
    /\ R = {} => refs' = refs \/ refs' = [i \in 0 .. 2 |-> refs[0]]
    /\ ms_list \ {Slot(T + 3)} \subseteq ms_list'
    /\ ms_defertree' \in [0 .. 1 -> SUBSET Segs] /\ ms_list' \subseteq Slots
    /\ condense_tree' = condense_tree
    /\ \/ ms_state' = ms_state /\ (Loaded => ms_tree' = Segs \ (smp_alloc \cup A(1) \cup A(2)
                                                   \cup ms_defertree'[0] \cup ms_defertree'[1]))
                               /\ (~Loaded => ms_tree' = ms_tree)
                               /\ (ms_state = "loading" => sm_alloc = smp_alloc)
       \/ ms_state' = "unloaded" /\ ms_tree' = {} /\ A(1) = {} /\ A(2) = {}

LEMMA SyncDoneReleases == IndInv /\ SyncDone => \E R : Released(R)
<1> SUFFICES ASSUME IndInv, SyncDone PROVE \E R : Released(R)
  BY Zenon
<1>1. spa_pc = "done"
  BY Zenon DEF SyncDone
<1>2. T \in Nat /\ A(0) = {}
  BY Zenon, SyncDoneShifts, Shapes DEF IndInv
<1>3. /\ T % 2 \in {0, 1} /\ (T + 1) % 2 \in {0, 1} /\ T % 2 # (T + 1) % 2
  BY Zenon, <1>2, DeferFacts
<1>4. ms_defertree \in [0 .. 1 -> SUBSET Segs] /\ ms_list \subseteq Slots
  BY Zenon DEF IndInv, TypeOK
<1>5. CASE Slot(T + 3) \notin ms_list
  <2>1. UNCHANGED <<trees, state, maps, refs>>
    BY Zenon, <1>5 DEF SyncDone
  <2>2. ms_freedtree = {} /\ sm_alloc = smp_alloc
    BY Zenon, <1>5 DEF IndInv, ListInv
  <2>3. InUse \cup Deferred = smp_alloc \cup A(1) \cup A(2) \cup ms_defertree[0] \cup ms_defertree[1]
    BY Zenon, <1>2, <2>2 DEF InUse, Deferred
  <2>4. Loaded => ms_tree = Segs \ (smp_alloc \cup A(1) \cup A(2)
                                      \cup ms_defertree[0] \cup ms_defertree[1])
    BY Zenon, <2>3 DEF IndInv, TreeInv
  <2>5. /\ ms_tree' = ms_tree /\ ms_freeingtree' = ms_freeingtree /\ ms_freedtree' = ms_freedtree
        /\ ms_defertree' = ms_defertree /\ ms_state' = ms_state /\ ms_list' = ms_list
        /\ ms_selected_txg' = ms_selected_txg /\ sm_alloc' = sm_alloc /\ smp_alloc' = smp_alloc
        /\ condense_tree' = condense_tree /\ refs' = refs
    BY Zenon, <2>1 DEF trees, state, maps
  <2>6. Released({})
    BY Zenon, <1>4, <2>2, <2>4, <2>5 DEF Released
  <2> QED
    BY Zenon, <2>6
<1>6. CASE Slot(T + 3) \in ms_list
  <2>1. MetaslabSyncDone
    BY Zenon, <1>6 DEF SyncDone
  <2>2. PICK ok \in BOOLEAN :
          /\ ms_defertree' = [ms_defertree EXCEPT ![T % 2] = IF ok THEN ms_freedtree ELSE {}]
          /\ ms_tree' = IF ~Loaded THEN ms_tree
                        ELSE IF UnloadDue THEN {}
                        ELSE ms_tree \cup ms_defertree[T % 2]
                               \cup (IF ok THEN {} ELSE ms_freedtree)
          /\ refs' = IF ok THEN refs ELSE [i \in 0 .. 2 |-> refs[0]]
    BY Zenon, <2>1 DEF MetaslabSyncDone, TXG_DEFER_SIZE
  <2> DEFINE R == IF ok THEN {} ELSE ms_freedtree
  <2>3. /\ ms_defertree'[(T + 1) % 2] = ms_defertree[(T + 1) % 2]
        /\ ms_defertree'[T % 2] = ms_freedtree \ R
        /\ ms_defertree' \in [0 .. 1 -> SUBSET Segs]
    <3>1. ms_freedtree \subseteq Segs
      BY Zenon DEF IndInv, TypeOK
    <3> QED
      BY <1>3, <1>4, <2>2, <3>1
  <2>4. /\ ms_freedtree' = {} /\ sm_alloc' = smp_alloc /\ smp_alloc' = smp_alloc
        /\ ms_freeingtree' = ms_freeingtree /\ ms_selected_txg' = ms_selected_txg
        /\ condense_tree' = condense_tree /\ ms_state # "loading"
        /\ ms_state' = IF UnloadDue THEN "unloaded" ELSE ms_state
    BY Zenon, <2>1 DEF MetaslabSyncDone, LoadWait
  <2>5. ms_list \ {Slot(T + 3)} \subseteq ms_list' /\ ms_list' \subseteq Slots
    BY <1>2, <1>4, <2>1, SlotFacts DEF MetaslabSyncDone, DirtyForDeferred
  <2>6. /\ R # {} => refs' = [i \in 0 .. 2 |-> refs[0]]
        /\ R = {} => refs' = refs \/ refs' = [i \in 0 .. 2 |-> refs[0]]
    BY Zenon, <2>2
  <2>7. CASE UnloadDue
    <3>1. ms_selected_txg + 1 < T
      BY <1>2, <2>7, TxgAssumption DEF UnloadDue, IndInv, TypeOK
    <3>2. A(1) = {} /\ A(2) = {}
      BY <1>2, <3>1 DEF IndInv, SelectedInv, TypeOK
    <3>3. ms_state' = "unloaded" /\ ms_tree' = {}
      BY Zenon, <2>2, <2>4, <2>7 DEF UnloadDue
    <3>4. Released(R)
      BY Zenon, <2>3, <2>4, <2>5, <2>6, <3>2, <3>3 DEF Released
    <3> QED
      BY Zenon, <3>4
  <2>8. CASE ~UnloadDue
    <3>1. Loaded => ms_tree' = Segs \ (smp_alloc \cup A(1) \cup A(2)
                                         \cup ms_defertree'[0] \cup ms_defertree'[1])
      <4> SUFFICES ASSUME Loaded
                   PROVE  ms_tree' = Segs \ (smp_alloc \cup A(1) \cup A(2)
                                               \cup ms_defertree'[0] \cup ms_defertree'[1])
        BY Zenon
      <4>1. ms_tree' = ms_tree \cup ms_defertree[T % 2] \cup R
        BY Zenon, <2>2, <2>8
      <4>2. ms_tree = Segs \ (smp_alloc \cup A(1) \cup A(2) \cup ms_freedtree
                                \cup ms_defertree[T % 2] \cup ms_defertree[(T + 1) % 2])
        BY <1>2, <1>3 DEF IndInv, TreeInv, InUse, Deferred
      <4>3. ms_defertree'[0] \cup ms_defertree'[1]
              = (ms_freedtree \ R) \cup ms_defertree[(T + 1) % 2]
        BY <1>3, <2>3
      <4>4. /\ ms_defertree[T % 2] \subseteq Segs /\ R \subseteq ms_freedtree
            /\ ms_freedtree \subseteq Segs
        BY <1>3, <1>4 DEF IndInv, TypeOK
      <4>5. \A s \in Segs :
              /\ s \in ms_freedtree => s \notin ms_defertree[(T + 1) % 2]
              /\ s \in ms_defertree[T % 2] =>
                   s \notin ms_freedtree /\ s \notin ms_defertree[(T + 1) % 2]
              /\ s \in ms_freedtree \/ s \in ms_defertree[T % 2]
                   => s \notin smp_alloc /\ s \notin A(1) /\ s \notin A(2)
        BY <1>3 DEF IndInv, Partition, Deferred
      <4> QED
        BY Zenon, <4>1, <4>2, <4>3, <4>4, <4>5
    <3>2. ms_state' = ms_state /\ (~Loaded => ms_tree' = ms_tree)
      BY Zenon, <2>2, <2>4, <2>8
    <3>3. Released(R)
      BY Zenon, <2>3, <2>4, <2>5, <2>6, <3>1, <3>2 DEF Released
    <3> QED
      BY Zenon, <3>3
  <2> QED
    BY Zenon, <2>7, <2>8
<1> QED
  BY Zenon, <1>5, <1>6

LEMMA SyncDoneInv == IndInv /\ SyncDone => IndInv'
<1> SUFFICES ASSUME IndInv, SyncDone PROVE IndInv'
  BY Zenon
<1>1. /\ spa_pc = "done" /\ spa_pc' = "idle" /\ spa_txg' = spa_txg + 1 /\ spa_pass' = 0
      /\ UNCHANGED <<frees, mos, disk, blocks, bounds>>
  BY Zenon DEF SyncDone
<1>2. Shifted /\ A(0) = {} /\ L(0) = {}
  BY Zenon, SyncDoneShifts
<1>3. PICK R : Released(R)
  BY Zenon, SyncDoneReleases
<1>4. /\ T \in Nat /\ A(1) \subseteq Segs /\ A(2) \subseteq Segs
      /\ \A s \in Segs : born[s] \in Nat /\ logged[s] \in Nat
  BY Zenon, Shapes DEF IndInv, TypeOK
<1>5. ms_freeingtree = {} /\ ms_freeingtree' = {}
  BY Zenon, <1>1, <1>3 DEF IndInv, StageInv, Released
<1>6. /\ T % 2 \in {0, 1} /\ (T + 1) % 2 \in {0, 1} /\ T % 2 # (T + 1) % 2
      /\ (T' + 1) % 2 = T % 2
  BY <1>2, <1>4, DeferFacts DEF Shifted
<1>7. InUse' = smp_alloc \cup A(1) \cup A(2) /\ InUse = InUse' \cup ms_freedtree
  BY <1>2, <1>3 DEF InUse, Shifted, Released
<1>8. Deferred' = ms_defertree'[T % 2] \cup ms_defertree[(T + 1) % 2]
  BY Zenon, <1>3, <1>6 DEF Deferred, Released
<1>9. use' = use /\ born' = born /\ logged' = logged /\ bpobj' = bpobj
  BY Zenon, <1>1 DEF frees, blocks
<1>10. TypeOK'
  <2>1. /\ ms_state' \in {"unloaded", "loading", "loaded", "condensing"} /\ ms_tree' \subseteq Segs
        /\ ms_alloctree' = ms_alloctree
    <3>1. ms_alloctree' = ms_alloctree
      BY Zenon DEF SyncDone, MetaslabSyncDone, trees
    <3> QED
      BY Zenon, <1>3, <3>1 DEF IndInv, TypeOK, Released
  <2>2. refs' \in [0 .. 2 -> SUBSET Segs]
    <3>1. refs \in [0 .. 2 -> SUBSET Segs]
      BY Zenon DEF IndInv, TypeOK, TXG_DEFER_SIZE
    <3>2. refs' = refs \/ refs' = [i \in 0 .. 2 |-> refs[0]]
      BY Zenon, <1>3 DEF Released
    <3> QED
      BY <3>1, <3>2
  <2>3. spa_txg' \in Nat
    BY <1>1 DEF IndInv, TypeOK
  <2> QED
    BY Zenon, <1>1, <1>3, <1>5, <2>1, <2>2, <2>3
       DEF IndInv, TypeOK, TXG_DEFER_SIZE, Released, frees, blocks, bounds
<1>11. Partition'
  <2> SUFFICES ASSUME NEW r \in Segs PROVE Partition!2!(r)'
    BY Zenon, <1>2 DEF Partition, Shifted
  <2>1. /\ r \in smp_alloc => r \notin A(1) /\ r \notin A(2)
        /\ r \in A(1) => r \notin A(2)
        /\ r \in ms_freedtree => r \notin ms_defertree[(T + 1) % 2]
        /\ r \in ms_defertree[T % 2] => r \notin ms_defertree[(T + 1) % 2]
        /\ r \in ms_freedtree \/ r \in ms_defertree[T % 2] \/ r \in ms_defertree[(T + 1) % 2]
             => r \notin smp_alloc /\ r \notin A(1) /\ r \notin A(2)
    BY Zenon, <1>6 DEF IndInv, Partition, Deferred
  <2>2. r \in ms_defertree'[T % 2] => r \in ms_defertree[T % 2] \/ r \in ms_freedtree
    BY Zenon, <1>3 DEF Released
  <2>3. r \in ms_defertree'[0] => r \notin ms_defertree'[1]
    BY Zenon, <1>3, <1>6, <2>1, <2>2 DEF Released
  <2>4. r \in Deferred' => r \notin smp_alloc /\ r \notin A(1) /\ r \notin A(2)
    BY Zenon, <1>8, <2>1, <2>2
  <2> QED
    BY Zenon, <1>2, <1>3, <2>1, <2>3, <2>4 DEF Shifted, Released
<1>12. Owners'
  <2> SUFFICES ASSUME NEW r \in Segs PROVE Owners!(r)'
    BY Zenon DEF Owners
  <2>1. born[r] \in Nat /\ T \in Nat
    BY Zenon, <1>4
  <2>2. /\ r \in smp_alloc <=> (use[r] # "no" /\ born[r] <= T) \/ r \in bpobj
        /\ r \in A(1) <=> (use[r] # "no" /\ born[r] = T + 1) \/ r \in L(1)
        /\ r \in A(2) <=> (use[r] # "no" /\ born[r] = T + 2) \/ r \in L(2)
        /\ use[r] # "no" => r \notin L(1) /\ r \notin L(2) /\ r \notin bpobj /\ born[r] <= T + 2
        /\ r \in smp_alloc => r \notin A(1)
    BY Zenon, <1>2, <1>5 DEF IndInv, Owners, Partition
  <2>3. (use[r] # "no" /\ born[r] <= T + 1) \/ r \in L(1) \/ r \in bpobj
           <=> r \in smp_alloc \/ r \in A(1)
    <3>1. born[r] <= T + 1 <=> born[r] <= T \/ born[r] = T + 1
      BY ONLY <2>1
    <3> QED
      BY ONLY Zenon, <2>2, <3>1
  <2>4. use[r] # "no" => born[r] <= T + 1 + 2 /\ born[r] # T + 1 + 2
    BY ONLY <2>1, <2>2
  <2>5. T + 1 + 1 = T + 2
    BY ONLY <2>1
  <2>6. use[r] = "writing" => /\ r \notin disk.map /\ \A i \in 0 .. 2 : r \notin refs'[i]
                              /\ born[r] <= T + 1 => r \in A(1) /\ born[r] = T + 1
    <3>1. use[r] = "writing" => /\ ~(born[r] <= T) /\ \A i \in 0 .. 2 : r \notin refs[i]
                                /\ r \notin disk.map
      BY Zenon, <1>1 DEF IndInv, Owners
    <3>2. use[r] = "writing" /\ born[r] <= T + 1 => born[r] = T + 1
      BY ONLY <2>1, <3>1
    <3>3. refs' = refs \/ refs' = [i \in 0 .. 2 |-> refs[0]]
      BY Zenon, <1>3 DEF Released
    <3>4. use[r] = "writing" => \A i \in 0 .. 2 : r \notin refs'[i]
      BY <3>1, <3>3
    <3> QED
      BY Zenon, <2>2, <3>1, <3>2, <3>4
  <2>7. r \in L(1) => r \notin bpobj
    BY Zenon, <2>2
  <2>8. disk' = disk
    BY Zenon, <1>1
  <2>9. /\ T' = T + 1 /\ A(0)' = A(1) /\ A(1)' = A(2) /\ A(2)' = {} /\ L(0)' = L(1)
        /\ L(1)' = L(2) /\ L(2)' = {} /\ smp_alloc' = smp_alloc
    BY Zenon, <1>2, <1>3 DEF Shifted, Released
  <2>10. (r \in smp_alloc \/ r \in A(0) <=>
            \/ use[r] # "no" /\ born[r] <= T
            \/ r \in L(0) \/ r \in bpobj \/ r \in ms_freeingtree)'
    BY ONLY Zenon, <1>5, <1>9, <2>3, <2>9
  <2>11. (/\ r \in A(1) <=> (use[r] # "no" /\ born[r] = T + 1) \/ r \in L(1)
          /\ r \in A(2) <=> (use[r] # "no" /\ born[r] = T + 2) \/ r \in L(2))'
    BY ONLY Zenon, <1>9, <2>2, <2>4, <2>5, <2>9
  <2>12. (use[r] = "writing" =>
             /\ born[r] <= T => r \in A(0) /\ born[r] = T /\ spa_pc \in {"idle", "write"}
             /\ \A i \in 0 .. 2 : r \notin refs[i]
             /\ r \notin disk.map)'
    BY ONLY Zenon, <1>1, <1>9, <2>6, <2>8, <2>9
  <2>13. (use[r] # "no" => /\ r \notin L(0) /\ r \notin L(1) /\ r \notin L(2)
                           /\ r \notin bpobj /\ r \notin ms_freeingtree
                           /\ born[r] <= T + 2)'
    BY ONLY Zenon, <1>5, <1>9, <2>2, <2>4, <2>9
  <2> QED
    BY Zenon, <1>5, <1>9, <2>7, <2>9, <2>10, <2>11, <2>12, <2>13
<1>13. TreeInv'
  <2>1. sm_alloc' = smp_alloc /\ smp_alloc' = smp_alloc /\ ms_freedtree' = {}
    BY Zenon, <1>3 DEF Released
  <2>2. CASE ms_state' = "unloaded" /\ ms_tree' = {} /\ A(1) = {} /\ A(2) = {}
    BY Zenon, <1>2, <2>1, <2>2 DEF TreeInv, Loaded, Shifted
  <2>3. CASE /\ ms_state' = ms_state
             /\ (Loaded => ms_tree' = Segs \ (smp_alloc \cup A(1) \cup A(2)
                                                \cup ms_defertree'[0] \cup ms_defertree'[1]))
             /\ (~Loaded => ms_tree' = ms_tree)
             /\ (ms_state = "loading" => sm_alloc = smp_alloc)
    <3>1. Loaded' <=> Loaded
      BY Zenon, <2>3 DEF Loaded
    <3>2. Loaded => ms_tree' = Segs \ (InUse' \cup Deferred')
      BY Zenon, <1>7, <2>3 DEF Deferred
    <3>3. ms_state = "loading" => ms_tree' = Segs \ sm_alloc'
      BY Zenon, <2>1, <2>3 DEF IndInv, TreeInv, Loaded
    <3>4. ~Loaded => A(1) = {} /\ A(2) = {}
      BY Zenon DEF IndInv, TreeInv
    <3> QED
      BY Zenon, <1>2, <2>1, <2>3, <3>1, <3>2, <3>3, <3>4 DEF TreeInv, Shifted
  <2> QED
    BY Zenon, <1>3, <2>2, <2>3 DEF Released
<1>14. ListInv'
  <2>1. Slot(T + 1) # Slot(T + 3) /\ Slot(T + 2) # Slot(T + 3)
    BY Zenon, <1>4, SlotFacts
  <2>2. /\ A(1) # {} => Slot(T + 1) \in ms_list'
        /\ A(2) # {} => Slot(T + 2) \in ms_list'
    BY Zenon, <1>3, <2>1 DEF IndInv, ListInv, Released
  <2>3. ms_freedtree' = {} /\ sm_alloc' = smp_alloc'
    BY Zenon, <1>3 DEF Released
  <2> QED
    BY Zenon, <1>2, <1>5, <2>2, <2>3 DEF ListInv, Shifted
<1>15. StageInv'
  <2>1. ms_state' # "condensing"
    BY Zenon, <1>1, <1>3 DEF IndInv, StageInv, Released
  <2> QED
    BY Zenon, <1>1, <1>2, <1>3, <1>5, <2>1 DEF StageInv, Shifted, Released
<1>16. SelectedInv'
  <2>1. A(2) # {} => ms_selected_txg >= T
    BY Zenon DEF IndInv, SelectedInv
  <2>2. ms_selected_txg' = ms_selected_txg /\ ms_selected_txg \in Nat
    BY Zenon, <1>3 DEF IndInv, TypeOK, Released
  <2> QED
    BY <1>2, <1>4, <2>1, <2>2 DEF SelectedInv, Shifted
<1>17. RefsInv'
  <2>1. /\ disk.txg = T /\ disk.map = smp_alloc /\ refs[1] \subseteq InUse
        /\ refs[2] \subseteq InUse \cup ms_defertree[(T + 1) % 2]
        /\ disk.map = refs[0] \cup disk.bpobj /\ refs[0] \cap disk.bpobj = {}
    BY Zenon, <1>1 DEF IndInv, RefsInv, Unsynced
  <2>2. refs'[0] = refs[0] /\ disk' = disk
    BY <1>1, <1>3 DEF Released
  <2>3. /\ refs'[1] \subseteq InUse' \cup ms_defertree'[T % 2]
        /\ refs'[2] \subseteq InUse' \cup Deferred'
    <3>1. CASE refs' = [i \in 0 .. 2 |-> refs[0]]
      BY <1>7, <2>1, <3>1
    <3>2. CASE refs' = refs /\ R = {}
      <4>1. ms_freedtree \subseteq ms_defertree'[T % 2]
        BY Zenon, <1>3, <3>2 DEF Released
      <4> QED
        BY Zenon, <1>7, <1>8, <2>1, <3>2, <4>1
    <3> QED
      BY Zenon, <1>3, <3>1, <3>2 DEF Released
  <2>4. (T' + 1) % 2 = T % 2 /\ T' = disk'.txg + 1
    BY Zenon, <1>2, <1>6, <2>1, <2>2 DEF Shifted
  <2>5. disk'.map \subseteq InUse' /\ Unsynced'
    BY Zenon, <1>1, <1>7, <2>1, <2>2 DEF Unsynced
  <2>6. ms_defertree'[(T' + 1) % 2] = ms_defertree'[T % 2]
    BY Zenon, <2>4
  <2> QED
    BY Zenon, <2>1, <2>2, <2>3, <2>4, <2>5, <2>6 DEF RefsInv
<1>18. LogInv'
  <2> SUFFICES ASSUME NEW r \in Segs PROVE LogInv!(r)'
    BY Zenon DEF LogInv
  <2>1. /\ logged[r] \in Nat /\ T \in Nat /\ logged[r] <= T + 2
        /\ logged[r] = T + 1 => r \in A(1)
        /\ logged[r] = T + 2 => r \in A(2)
    BY Zenon, <1>1, <1>4 DEF IndInv, LogInv
  <2>2. r \in disk.map => logged[r] <= disk.txg
    BY Zenon DEF IndInv, LogInv
  <2>3. logged[r] <= T + 1 + 2 /\ logged[r] # T + 1 + 2 /\ (logged[r] = T + 1 + 1 => r \in A(2))
    BY ONLY <2>1
  <2>4. logged[r] = T + 1 => r \in InUse'
    BY Zenon, <1>7, <2>1
  <2> QED
    BY Zenon, <1>1, <1>2, <1>9, <2>2, <2>3, <2>4 DEF Shifted
<1> QED
  BY Zenon, <1>10, <1>11, <1>12, <1>13, <1>14, <1>15, <1>16, <1>17, <1>18 DEF IndInv

-----------------------------------------------------------------------------
(* Crashes, every step, and the theorems                                   *)

LEMMA CrashInv == IndInv /\ Crash => IndInv'
<1> SUFFICES ASSUME IndInv, Crash PROVE IndInv'
  BY Zenon
<1>1. /\ ms_state' = "unloaded" /\ ms_tree' = {} /\ ms_alloctree' = [i \in Slots |-> {}]
      /\ ms_freeingtree' = {} /\ ms_freedtree' = {} /\ ms_defertree' = [i \in 0 .. 1 |-> {}]
      /\ ms_list' = {} /\ sm_alloc' = disk.map /\ smp_alloc' = disk.map
      /\ spa_pc' = "claim" /\ spa_txg' = disk.txg + 1
      /\ free_bplist' = [i \in Slots |-> {}] /\ bpobj' = disk.bpobj
      /\ use' = [s \in Segs |-> IF s \in refs[0] THEN "live" ELSE "no"]
      /\ born' = [s \in Segs |-> 0] /\ refs' = [i \in 0 .. 2 |-> refs[0]]
      /\ disk' = disk /\ logged' = logged
  BY Zenon DEF Crash, TXG_DEFER_SIZE
<1>2. TypeOK'
  <2>1. /\ disk.txg + 1 \in Nat /\ disk.map \subseteq Segs /\ disk.bpobj \subseteq Segs
        /\ refs[0] \subseteq Segs /\ crashes + 1 \in Nat
    BY DEF IndInv, TypeOK, TXG_DEFER_SIZE
  <2>2. refs' \in [0 .. 2 -> SUBSET Segs]
    BY Zenon, <1>1, <2>1
  <2>3. /\ mos' \in [map : SUBSET Segs, bpobj : SUBSET Segs, dirty : {0, 1}]
        /\ crashes' \in Nat /\ allocs' = allocs /\ spa_pass' = 0 /\ condense_tree' = {}
        /\ ms_selected_txg' = 0
    BY Zenon, <2>1 DEF Crash
  <2>4. /\ ms_alloctree' \in [Slots -> SUBSET Segs] /\ free_bplist' \in [Slots -> SUBSET Segs]
        /\ ms_defertree' \in [0 .. 1 -> SUBSET Segs]
        /\ use' \in [Segs -> {"no", "writing", "live"}] /\ born' \in [Segs -> Nat]
    BY Zenon, <1>1
  <2> QED
    BY Zenon, <1>1, <2>1, <2>2, <2>3, <2>4 DEF IndInv, TypeOK, TXG_DEFER_SIZE
<1>3. T' \in Nat /\ A(0)' = {} /\ A(1)' = {} /\ A(2)' = {} /\ A(3)' = {}
                /\ L(0)' = {} /\ L(1)' = {} /\ L(2)' = {} /\ L(3)' = {}
  <2>1. T' \in Nat /\ T' = disk.txg + 1
    BY Zenon, <1>1, <1>2 DEF TypeOK, T
  <2>2. /\ Slot(T + 0)' \in Slots /\ Slot(T + 1)' \in Slots
        /\ Slot(T + 2)' \in Slots /\ Slot(T + 3)' \in Slots
    BY <2>1 DEF Slot, Slots, TXG_SIZE
  <2> QED
    BY Zenon, <1>1, <2>1, <2>2 DEF A, L
<1>4. Deferred' = {} /\ ms_defertree'[0] = {} /\ ms_defertree'[1] = {}
  BY <1>1 DEF Deferred
<1>5. InUse' = disk.map
  BY Zenon, <1>1, <1>3 DEF InUse
<1>6. disk.map = refs[0] \cup disk.bpobj /\ refs[0] \cap disk.bpobj = {}
  BY Zenon DEF IndInv, RefsInv
<1>7. Partition'
  BY Zenon, <1>1, <1>3, <1>4 DEF Partition
<1>8. Owners'
  <2> SUFFICES ASSUME NEW r \in Segs PROVE Owners!(r)'
    BY Zenon DEF Owners
  <2>1. use'[r] # "writing" /\ (use'[r] # "no" <=> r \in refs[0])
    BY Zenon, <1>1
  <2>2. born'[r] <= T' /\ born'[r] # T' + 1 /\ born'[r] # T' + 2 /\ born'[r] <= T' + 2
    <3>1. born'[r] = 0 /\ T' \in Nat
      BY Zenon, <1>1, <1>3
    <3>2. \A n \in Nat : 0 <= n /\ 0 # n + 1 /\ 0 # n + 2 /\ 0 <= n + 2
      BY ONLY SMT
    <3> QED
      BY ONLY Zenon, <3>1, <3>2
  <2>3. /\ r \in smp_alloc' <=> r \in refs[0] \/ r \in bpobj'
        /\ r \in refs[0] => r \notin bpobj'
        /\ ms_freeingtree' = {}
    BY Zenon, <1>1, <1>6
  <2> QED
    BY ONLY <1>3, <2>1, <2>2, <2>3, Zenon
<1>9. TreeInv'
  BY Zenon, <1>1, <1>3 DEF TreeInv, Loaded
<1>10. ListInv' /\ SelectedInv'
  BY Zenon, <1>1, <1>3 DEF ListInv, SelectedInv
<1>11. StageInv'
  BY Zenon, <1>1, <1>3, <1>4 DEF StageInv
<1>12. RefsInv'
  <2>1. T' = disk'.txg + 1
    BY Zenon, <1>1 DEF T
  <2>2. refs'[0] = refs[0] /\ refs'[1] = refs[0] /\ refs'[2] = refs[0]
    BY <1>1
  <2> QED
    BY Zenon, <1>1, <1>5, <1>6, <2>1, <2>2 DEF RefsInv, Unsynced
<1>13. LogInv'
  BY Zenon, <1>1 DEF IndInv, LogInv
<1> QED
  BY Zenon, <1>2, <1>7, <1>8, <1>9, <1>10, <1>11, <1>12, <1>13 DEF IndInv

LEMMA ClaimInv == IndInv /\ Claim => IndInv'
<1> SUFFICES ASSUME IndInv, Claim PROVE IndInv'
  BY Zenon
<1>1. /\ spa_pc = "claim" /\ spa_pc' = "idle"
      /\ UNCHANGED <<ms_freeingtree, ms_freedtree, ms_defertree, ms_selected_txg, maps, frees,
                     spa_txg, spa_pass, mos, disk, refs, bounds>>
  BY Zenon DEF Claim
<1>2. PICK S \in SUBSET Claimable :
        /\ ms_state' = IF S = {} THEN ms_state ELSE "loaded"
        /\ ms_tree' = IF S = {} THEN ms_tree ELSE (Segs \ sm_alloc) \ S
        /\ ms_alloctree' = [ms_alloctree EXCEPT ![Slot(T)] = S]
        /\ ms_list' = IF S = {} THEN ms_list ELSE ms_list \cup {Slot(T)}
        /\ use' = [s \in Segs |-> IF s \in S THEN "live" ELSE use[s]]
        /\ born' = [s \in Segs |-> IF s \in S THEN T ELSE born[s]]
        /\ logged' = [s \in Segs |-> IF s \in S THEN T ELSE 0]
  BY Zenon DEF Claim
<1>3. T \in Nat /\ disk.txg \in Nat /\ disk.txg + 1 = T /\ T' = T
  BY Zenon, <1>1, Shapes DEF IndInv, TypeOK, RefsInv, Unsynced, T
<1>4. /\ ms_freeingtree = {} /\ ms_freedtree = {} /\ sm_alloc = smp_alloc /\ A(2) = {} /\ L(2) = {}
      /\ ms_state = "unloaded" /\ ms_tree = {} /\ disk.map = sm_alloc /\ Deferred = {}
      /\ A(0) = {} /\ A(1) = {} /\ A(3) = {} /\ L(3) = {}
  BY Zenon, <1>1 DEF IndInv, StageInv, TreeInv, Loaded, Partition
<1>5. S \subseteq Segs /\ \A s \in S : s \notin disk.map
  BY <1>3 DEF IndInv, TypeOK, LogInv, Claimable
<1>6. /\ Slot(T)' = Slot(T) /\ Slot(T + 1)' = Slot(T + 1) /\ Slot(T + 2)' = Slot(T + 2)
      /\ Slot(T + 3)' = Slot(T + 3) /\ Slot(T + 0)' = Slot(T)
      /\ Slot(T) \in Slots /\ Slot(T + 1) \in Slots /\ Slot(T + 2) \in Slots
      /\ Slot(T + 3) \in Slots /\ Slot(T) # Slot(T + 1) /\ Slot(T) # Slot(T + 2)
      /\ Slot(T) # Slot(T + 3)
  BY <1>3, SlotFacts DEF Slot
<1>7. ms_alloctree \in [Slots -> SUBSET Segs] /\ free_bplist' = free_bplist
  BY Zenon, <1>1 DEF IndInv, TypeOK, frees
<1>8. /\ A(0)' = S /\ A(1)' = {} /\ A(2)' = {} /\ A(3)' = {}
      /\ L(0)' = L(0) /\ L(1)' = L(1) /\ L(2)' = {} /\ L(3)' = {}
  <2>1. /\ ms_alloctree[Slot(T + 1)] = {} /\ ms_alloctree[Slot(T + 2)] = {}
        /\ ms_alloctree[Slot(T + 3)] = {} /\ free_bplist[Slot(T + 2)] = {}
        /\ free_bplist[Slot(T + 3)] = {}
    BY Zenon, <1>4 DEF A, L
  <2>2. L(0) = free_bplist[Slot(T)]
    BY Zenon, Shapes DEF IndInv
  <2> QED
    BY Zenon, <1>2, <1>6, <1>7, <2>1, <2>2 DEF A, L
<1>9. /\ smp_alloc' = smp_alloc /\ sm_alloc' = sm_alloc /\ Deferred' = {}
      /\ ms_freedtree' = {} /\ ms_freeingtree' = {} /\ bpobj' = bpobj
      /\ ms_defertree' = ms_defertree
  BY Zenon, <1>1, <1>4 DEF maps, frees, Deferred
<1>10. InUse' = smp_alloc \cup S /\ InUse = smp_alloc
  BY Zenon, <1>4, <1>8, <1>9 DEF InUse
<1>11. TypeOK'
  <2>1. /\ use' \in [Segs -> {"no", "writing", "live"}]
        /\ born' \in [Segs -> Nat] /\ logged' \in [Segs -> Nat]
    BY Zenon, <1>2, <1>3 DEF IndInv, TypeOK
  <2>2. ms_alloctree' \in [Slots -> SUBSET Segs] /\ ms_list' \subseteq Slots
    BY Zenon, <1>2, <1>5, <1>6, <1>7 DEF IndInv, TypeOK
  <2>3. ms_state' \in {"unloaded", "loading", "loaded", "condensing"} /\ ms_tree' \subseteq Segs
    BY Zenon, <1>2, <1>4
  <2> QED
    BY <1>1, <1>9, <2>1, <2>2, <2>3 DEF IndInv, TypeOK, TXG_DEFER_SIZE, maps, frees, bounds
<1>12. Partition'
  BY Zenon, <1>4, <1>5, <1>8, <1>9 DEF IndInv, Partition
<1>13. Owners'
  <2> SUFFICES ASSUME NEW r \in Segs PROVE Owners!(r)'
    BY Zenon DEF Owners
  <2>1. use[r] # "writing"
    <3>1. use[r] = "writing" => ~(born[r] <= T)
      BY Zenon, <1>1 DEF IndInv, Owners
    <3>2. use[r] # "no" => born[r] # T + 1 /\ born[r] # T + 2 /\ born[r] <= T + 2
      BY Zenon, <1>4 DEF IndInv, Owners
    <3>3. born[r] \in Nat
      BY Zenon DEF IndInv, TypeOK
    <3> QED
      BY ONLY <1>3, <3>1, <3>2, <3>3
  <2>2. CASE r \in S
    <3>1. r \notin L(0) /\ r \notin bpobj /\ r \notin L(1)
      BY Zenon, <1>4, <1>5, <2>2 DEF IndInv, Owners
    <3>2. use'[r] = "live" /\ born'[r] = T
      BY Zenon, <1>2, <2>2
    <3>3. T <= T /\ T # T + 1 /\ T # T + 2 /\ T <= T + 2
      BY ONLY <1>3
    <3> QED
      BY ONLY Zenon, <1>3, <1>8, <1>9, <2>2, <3>1, <3>2, <3>3
  <2>3. CASE r \notin S
    <3>1. use'[r] = use[r] /\ born'[r] = born[r]
      BY Zenon, <1>2, <2>3
    <3>2. Owners!(r)
      BY Zenon DEF IndInv, Owners
    <3> QED
      BY ONLY Zenon, <1>3, <1>4, <1>8, <1>9, <2>1, <2>3, <3>1, <3>2
  <2> QED
    BY Zenon, <2>2, <2>3
<1>14. TreeInv'
  <2>1. CASE S = {}
    BY Zenon, <1>2, <1>4, <1>8, <1>9, <2>1 DEF TreeInv, Loaded
  <2>2. CASE S # {}
    <3>1. ms_state' = "loaded" /\ ms_tree' = (Segs \ sm_alloc) \ S
      BY Zenon, <1>2, <2>2
    <3> QED
      BY Zenon, <1>4, <1>9, <1>10, <3>1 DEF TreeInv, Loaded
  <2> QED
    BY Zenon, <2>1, <2>2
<1>15. ListInv'
  BY Zenon, <1>2, <1>4, <1>6, <1>8, <1>9 DEF ListInv
<1>16. StageInv'
  BY Zenon, <1>1, <1>2, <1>4, <1>8, <1>9 DEF StageInv
<1>17. SelectedInv'
  BY Zenon, <1>8 DEF SelectedInv
<1>18. RefsInv'
  <2>1. InUse \subseteq InUse' /\ Deferred' = Deferred
    BY Zenon, <1>4, <1>9, <1>10
  <2> QED
    BY Zenon, <1>1, <1>3, <1>9, <2>1 DEF IndInv, RefsInv, Unsynced
<1>19. LogInv'
  <2> SUFFICES ASSUME NEW r \in Segs PROVE LogInv!(r)'
    BY Zenon DEF LogInv
  <2>1. logged'[r] = (IF r \in S THEN T ELSE 0)
    BY Zenon, <1>2
  <2>2. r \in disk'.map => logged'[r] <= disk'.txg
    BY <1>1, <1>3, <1>5, <2>1
  <2>3. /\ logged'[r] <= T' + 2 /\ logged'[r] # T' + 1 /\ logged'[r] # T' + 2
        /\ logged'[r] = T' => r \in S
    BY ONLY <1>3, <2>1
  <2>4. r \in S => r \in InUse'
    BY Zenon, <1>10
  <2> QED
    BY Zenon, <2>2, <2>3, <2>4
<1> QED
  BY Zenon, <1>11, <1>12, <1>13, <1>14, <1>15, <1>16, <1>17, <1>18, <1>19 DEF IndInv

-----------------------------------------------------------------------------
LEMMA StutterInv == IndInv /\ UNCHANGED vars => IndInv'
<1> SUFFICES ASSUME IndInv, UNCHANGED vars PROVE IndInv'
  BY Zenon
<1>1. UNCHANGED <<trees, state, maps, frees, sync, disk, blocks, refs, bounds>>
  BY Zenon DEF vars
<1>2. SameSets
  BY Zenon, <1>1, SameTrees DEF trees, maps, frees, sync
<1>3. TypeOK'
  BY Zenon, <1>1 DEF IndInv, TypeOK, TXG_DEFER_SIZE, trees, state, maps, frees, sync, blocks, bounds
<1>4. Partition' /\ TreeInv' /\ ListInv' /\ SelectedInv'
  BY ZenonT(20), <1>1, <1>2
     DEF IndInv, Partition, TreeInv, Loaded, ListInv, SelectedInv, SameSets, trees, state, maps
<1>5. Owners'
  BY ZenonT(20), <1>1, <1>2
     DEF IndInv, Owners, SameSets, trees, maps, frees, sync, blocks
<1>6. StageInv'
  <2>1. CondenseTree' = CondenseTree
    BY ZenonT(20), <1>1, <1>2 DEF CondenseTree, SameSets, trees
  <2> QED
    BY Zenon, <1>1, <1>2, <2>1 DEF IndInv, StageInv, SameSets, trees, state, maps, frees, sync
<1>7. RefsInv' /\ LogInv'
  BY Zenon, <1>1, <1>2 DEF IndInv, RefsInv, LogInv, Unsynced, SameSets, trees, maps, sync, blocks
<1> QED
  BY Zenon, <1>3, <1>4, <1>5, <1>6, <1>7 DEF IndInv

\* The conjunction above is preserved by every step of loading, allocating,
\* freeing, spa_sync, crashing and claiming.
THEOREM Inductive == Spec => []IndInv
<1>1. IndInv /\ [Next]_vars => IndInv'
  <2> SUFFICES ASSUME IndInv, [Next]_vars PROVE IndInv'
    BY Zenon
  <2>1. CASE LoadStart \/ LoadDone \/ LoadFail
    BY Zenon, <2>1, LoadStartInv, LoadDoneInv, LoadFailInv
  <2>2. CASE \E s \in Segs : Alloc(s) \/ WriteDone(s) \/ Unallocate(s) \/ FreeBlock(s) \/ FreeOpen(s)
    BY Zenon, <2>2, AllocInv, WriteDoneInv, UnallocateInv, FreeBlockInv, FreeOpenInv
  <2>3. CASE SyncBegin \/ SyncFrees \/ MetaslabSync \/ CondenseStart \/ CondenseEnd
    BY Zenon, <2>3, SyncBeginInv, SyncFreesInv, MetaslabSyncInv, CondenseStartInv, CondenseEndInv
  <2>4. CASE PassDone \/ Commit \/ SyncDone \/ Crash \/ Claim
    BY Zenon, <2>4, PassDoneInv, CommitInv, SyncDoneInv, CrashInv, ClaimInv
  <2>5. CASE UNCHANGED vars
    BY Zenon, <2>5, StutterInv
  <2> QED
    BY Zenon, <2>1, <2>2, <2>3, <2>4, <2>5 DEF Next
<1> QED
  BY <1>1, InitIndInv, PTL DEF Spec

-----------------------------------------------------------------------------
(* The theorems.                                                           *)

\* The freeing and freed trees have entries only while spa_sync runs, and all
\* the sets, slots and txgs stay in range.
THEOREM TypeCorrect == Spec => []TypeOK
<1>1. IndInv => TypeOK
  BY Zenon DEF IndInv
<1> QED
  BY <1>1, Inductive, PTL

\* What can be allocated belongs to no block that is written or in use
\* (metaslab_block_alloc), over loads, unloads, condensing and crashes.
THEOREM NeverTwice == Spec => []NoDoubleAllocation
<1>1. IndInv => NoDoubleAllocation
  <2> SUFFICES ASSUME IndInv, NEW s \in Free PROVE use[s] = "no"
    BY Zenon DEF NoDoubleAllocation
  <2>1. s \in Segs /\ s \notin InUse
    BY Zenon DEF IndInv, TreeInv, Free
  <2> QED
    BY Zenon, <2>1, NotInUse
<1> QED
  BY <1>1, Inductive, PTL

\* No segment of the last synced states can be allocated: metaslab_sync_done
\* gives the deferred frees back only after TXG_DEFER_SIZE txgs, and a load in
\* between (metaslab_load) takes them out again.
THEOREM RollbackPossible == Spec => []RollbackSafe
<1>1. IndInv => RollbackSafe
  <2> SUFFICES ASSUME IndInv PROVE RollbackSafe
    BY Zenon
  <2>1. (T + 1) % 2 \in {0, 1}
    BY Zenon, Shapes, DeferFacts DEF IndInv
  <2>2. ms_defertree[(T + 1) % 2] \subseteq Deferred
    BY Zenon, <2>1 DEF Deferred
  <2>3. /\ refs[0] \subseteq InUse /\ refs[1] \subseteq InUse \cup Deferred
        /\ refs[2] \subseteq InUse \cup Deferred
    BY Zenon, <2>2 DEF IndInv, RefsInv, InUse
  <2>4. Free \cap (InUse \cup Deferred) = {}
    BY Zenon DEF IndInv, TreeInv, Free
  <2> QED
    BY <2>3, <2>4 DEF RollbackSafe, TXG_DEFER_SIZE
<1> QED
  BY <1>1, Inductive, PTL

\* After a crash zil_claim finds every block of the log that is not in the last
\* synced state: free in its space map, and given to nobody since.
THEOREM LogClaimable == Spec => []ClaimableIntact
<1>1. IndInv => ClaimableIntact
  <2> SUFFICES ASSUME IndInv, NEW s \in Segs, logged[s] > disk.txg
               PROVE  s \notin Free /\ s \notin disk.map
    BY Zenon DEF ClaimableIntact, Claimable
  <2>1. logged[s] \in Nat /\ disk.txg \in Nat /\ T \in Nat
    BY Zenon, Shapes DEF IndInv, TypeOK
  <2>2. s \notin disk.map
    BY <2>1 DEF IndInv, LogInv
  <2>3. CASE s \in Free
    <3>1. spa_pc # "claim" /\ s \notin InUse
      BY Zenon, <2>3 DEF IndInv, StageInv, TreeInv, Free, Loaded
    <3>2. /\ logged[s] <= T + 2 /\ logged[s] # T + 1 /\ logged[s] # T + 2
          /\ Unsynced => logged[s] # T
      BY Zenon, <3>1 DEF IndInv, LogInv, InUse
    <3>3. (Unsynced => disk.txg + 1 = T) /\ (~Unsynced => disk.txg = T)
      BY Zenon DEF IndInv, RefsInv
    <3> QED
      BY ONLY <2>1, <3>2, <3>3, logged[s] > disk.txg
  <2> QED
    BY Zenon, <2>2, <2>3
<1> QED
  BY <1>1, Inductive, PTL

\* The space map that a crash leaves behind has allocated what that state
\* refers to and what spa_sync_deferred_frees has yet to free, and no more.
THEOREM SyncedMapCorrect == Spec => []SyncedMapExact
<1>1. IndInv => SyncedMapExact
  BY Zenon DEF IndInv, RefsInv, SyncedMapExact
<1> QED
  BY <1>1, Inductive, PTL

\* ms_tree of a loaded metaslab is the space map's free space without the
\* unsynced allocations and the frees that are kept back (metaslab_verify_space).
THEOREM FreeTreeCorrect == Spec => []FreeTreeExact
<1>1. IndInv => FreeTreeExact
  <2> SUFFICES ASSUME IndInv, Loaded PROVE FreeTreeExact
    BY Zenon DEF FreeTreeExact
  <2>1. UNION {ms_alloctree[i] : i \in Slots} = A(0) \cup A(1) \cup A(2)
    <3>1. T \in Nat /\ A(0) = ms_alloctree[Slot(T)] /\ A(3) = {}
      BY Zenon, Shapes DEF IndInv, Partition
    <3>2. /\ \A i \in Slots : i \in {Slot(T), Slot(T + 1), Slot(T + 2), Slot(T + 3)}
          /\ Slot(T) \in Slots /\ Slot(T + 1) \in Slots /\ Slot(T + 2) \in Slots
      BY Zenon, <3>1, SlotFacts
    <3>3. /\ A(1) = ms_alloctree[Slot(T + 1)] /\ A(2) = ms_alloctree[Slot(T + 2)]
          /\ ms_alloctree[Slot(T + 3)] = {}
      BY Zenon, <3>1 DEF A
    <3> QED
      BY Zenon, <3>1, <3>2, <3>3
  <2>2. sm_alloc \subseteq smp_alloc \cup ms_freedtree
    BY Zenon DEF IndInv, TreeInv
  <2>3. \A s \in Segs : s \in ms_freeingtree => s \in smp_alloc \/ s \in A(0)
    BY Zenon DEF IndInv, Owners
  <2>4. ms_freeingtree \subseteq smp_alloc \cup A(0)
    BY Zenon, <2>3 DEF IndInv, TypeOK
  <2>5. ms_tree = Segs \ (InUse \cup Deferred)
    BY Zenon DEF IndInv, TreeInv
  <2>6. InUse \cup Deferred
          = sm_alloc \cup smp_alloc \cup Deferred \cup ms_freeingtree
              \cup ms_freedtree \cup (A(0) \cup A(1) \cup A(2))
    BY Zenon, <2>2, <2>4 DEF InUse
  <2> QED
    BY Zenon, <2>1, <2>5, <2>6 DEF FreeTreeExact
<1> QED
  BY <1>1, Inductive, PTL

\* metaslab_condense writes the space map it found, brought up to date, however
\* the lock is used by others while space_map_truncate runs.
THEOREM CondenseCorrect == Spec => []CondensedMapSame
<1>1. IndInv => CondensedMapSame
  BY Zenon, Condensed, Shapes DEF CondensedMapSame, IndInv
<1> QED
  BY <1>1, Inductive, PTL

-----------------------------------------------------------------------------
(* How long a free is kept back.  born[s] is the txg in which s was freed: *)
(* the segments that are freed in the txg that syncs, and those of the two *)
(* deferred trees, by their age.                                           *)

Freed(s) == s \in ms_freeingtree \/ s \in ms_freedtree \/ s \in L(0)
BornInv ==
    \A s \in Segs :
        /\ Freed(s) => born[s] = T
        /\ s \in L(1) => born[s] = T + 1
        /\ s \in L(2) => born[s] = T + 2
        /\ s \in ms_defertree[T % 2] => born[s] + 2 >= T
        /\ s \in ms_defertree[(T + 1) % 2] => born[s] + 1 >= T

(* A metaslab with deferred frees is on the list of this txg, or on that   *)
(* of the metaslabs it has synced: metaslab_sync_done is not passed over.  *)
DeferListed ==
    /\ Deferred # {} => Slot(T) \in ms_list \/ Slot(T + 3) \in ms_list
    /\ spa_pc \in {"commit", "done"} => Slot(T) \notin ms_list

DeferInv == BornInv /\ DeferListed

(* A step that does not end the txg keeps the age of a segment, or the     *)
(* segment is not one whose age counts.                                    *)
AgeKept(s) ==
    \/ /\ born'[s] = born[s] /\ (Freed(s)' => Freed(s))
       /\ (s \in L(1)' => s \in L(1)) /\ (s \in L(2)' => s \in L(2))
    \/ /\ Freed(s)' => born'[s] = T
       /\ s \notin L(1)' /\ s \notin L(2)' /\ s \notin Deferred

LEMMA AgesKept ==
    ASSUME IndInv, BornInv, UNCHANGED <<spa_txg, ms_defertree>>, \A s \in Segs : AgeKept(s)
    PROVE  BornInv'
<1>1. T' = T /\ T \in Nat /\ ms_defertree' = ms_defertree
  BY Zenon, Shapes DEF IndInv, T
<1>2. T % 2 \in {0, 1} /\ (T + 1) % 2 \in {0, 1}
  BY Zenon, <1>1, DeferFacts
<1>3. ms_defertree[T % 2] \subseteq Deferred /\ ms_defertree[(T + 1) % 2] \subseteq Deferred
  BY Zenon, <1>2 DEF Deferred
<1> SUFFICES ASSUME NEW s \in Segs PROVE BornInv!(s)'
  BY Zenon DEF BornInv
<1>4. AgeKept(s)
  BY Zenon
<1>5. CASE /\ born'[s] = born[s] /\ (Freed(s)' => Freed(s))
           /\ (s \in L(1)' => s \in L(1)) /\ (s \in L(2)' => s \in L(2))
  BY Zenon, <1>1, <1>5 DEF BornInv
<1>6. CASE /\ Freed(s)' => born'[s] = T
           /\ s \notin L(1)' /\ s \notin L(2)' /\ s \notin Deferred
  BY Zenon, <1>1, <1>3, <1>6
<1> QED
  BY Zenon, <1>4, <1>5, <1>6 DEF AgeKept

LEMMA ListKept ==
    ASSUME DeferListed, UNCHANGED <<spa_txg, ms_defertree>>,
           ms_list \subseteq ms_list' \/ Slot(T + 3) \in ms_list',
           spa_pc' \in {"commit", "done"} => Slot(T) \notin ms_list'
    PROVE  DeferListed'
BY Zenon DEF DeferListed, Deferred, T, Slot

LEMMA InitDefer == Init => DeferInv
<1> SUFFICES ASSUME Init PROVE DeferInv
  BY Zenon
<1>1. IndInv /\ T \in Nat
  BY Zenon, InitIndInv, Shapes DEF IndInv
<1>2. L(0) = {} /\ L(1) = {} /\ L(2) = {}
  <2>1. \A i \in Slots : free_bplist[i] = {}
    BY Zenon DEF Init
  <2>2. L(0) = free_bplist[Slot(T)]
    BY Zenon, <1>1, Shapes DEF IndInv
  <2> QED
    BY Zenon, <1>1, <2>1, <2>2, SlotFacts DEF L
<1>3. ms_defertree[0] = {} /\ ms_defertree[1] = {} /\ Deferred = {}
  BY DEF Init, Deferred
<1>4. ms_defertree[T % 2] = {} /\ ms_defertree[(T + 1) % 2] = {}
  BY Zenon, <1>1, <1>3, DeferFacts
<1> QED
  BY Zenon, <1>2, <1>3, <1>4 DEF Init, DeferInv, BornInv, DeferListed, Freed

(* The steps that leave the ages, the frees and the list alone             *)
LEMMA QuietDefer ==
    ASSUME IndInv, DeferInv,
           UNCHANGED <<spa_txg, ms_freeingtree, ms_freedtree, ms_defertree, free_bplist, born,
                       ms_list>>,
           spa_pc' \in {"commit", "done"} => spa_pc \in {"commit", "done"}
    PROVE  DeferInv'
<1>1. \A s \in Segs : AgeKept(s)
  BY Zenon DEF AgeKept, Freed, L, T
<1>2. BornInv'
  BY Zenon, <1>1, AgesKept DEF DeferInv
<1>3. DeferListed'
  BY Zenon DEF DeferInv, DeferListed, Deferred, T, Slot
<1> QED
  BY Zenon, <1>2, <1>3 DEF DeferInv

LEMMA QuietSteps ==
    ASSUME IndInv, DeferInv,
           \/ LoadStart \/ LoadDone \/ LoadFail \/ SyncBegin \/ CondenseStart \/ Commit
           \/ \E s \in Segs : WriteDone(s) \/ Unallocate(s)
           \/ UNCHANGED vars
    PROVE  DeferInv'
<1> USE DEF trees, state, maps, frees, sync, blocks, bounds
<1>1. CASE LoadStart \/ LoadDone \/ LoadFail
  BY Zenon, <1>1, QuietDefer DEF LoadStart, LoadDone, LoadFail
<1>2. CASE SyncBegin \/ CondenseStart \/ Commit
  BY Zenon, <1>2, QuietDefer DEF SyncBegin, CondenseStart, Commit
<1>3. CASE \E s \in Segs : WriteDone(s) \/ Unallocate(s)
  BY Zenon, <1>3, QuietDefer DEF WriteDone, Unallocate
<1>4. CASE UNCHANGED vars
  BY Zenon, <1>4, QuietDefer DEF vars
<1> QED
  BY Zenon, <1>1, <1>2, <1>3, <1>4

LEMMA AllocDefer ==
    ASSUME IndInv, DeferInv, NEW s \in Segs, Alloc(s)
    PROVE  DeferInv'
<1>1. PICK t \in OpenTxgs \cup (IF spa_pc = "write" /\ spa_pass <= MaxPass THEN {T} ELSE {}) :
        ms_list' = Dirty(ms_alloctree[Slot(t)], t) /\ born' = [born EXCEPT ![s] = t]
  BY Zenon DEF Alloc
<1>2. /\ ms_state = "loaded" /\ s \in ms_tree
      /\ UNCHANGED <<spa_txg, spa_pc, ms_freeingtree, ms_freedtree, ms_defertree, free_bplist>>
  BY Zenon DEF Alloc, frees, sync
<1>3. s \notin InUse /\ s \notin Deferred
  BY Zenon, <1>2 DEF IndInv, TreeInv, Loaded
<1>4. /\ s \notin ms_freeingtree /\ s \notin L(0) /\ s \notin L(1) /\ s \notin L(2)
      /\ s \notin ms_freedtree
  BY Zenon, <1>3, NotInUse
<1>5. /\ L(0)' = L(0) /\ L(1)' = L(1) /\ L(2)' = L(2)
      /\ \A r \in Segs : Freed(r)' = Freed(r)
  BY Zenon, <1>2 DEF L, T, Freed
<1>6. \A r \in Segs : AgeKept(r)
  <2> SUFFICES ASSUME NEW r \in Segs PROVE AgeKept(r)
    BY Zenon
  <2>1. CASE r = s
    BY Zenon, <1>3, <1>4, <1>5, <2>1 DEF AgeKept, Freed
  <2>2. CASE r # s
    <3>1. born'[r] = born[r]
      BY <1>1, <2>2 DEF IndInv, TypeOK
    <3> QED
      BY Zenon, <1>5, <3>1 DEF AgeKept
  <2> QED
    BY Zenon, <2>1, <2>2
<1>7. BornInv'
  BY Zenon, <1>2, <1>6, AgesKept DEF DeferInv
<1>8. ms_list \subseteq ms_list'
  BY Zenon, <1>1 DEF Dirty
<1>9. spa_pc \in {"commit", "done"} => Slot(T) \notin ms_list'
  <2> SUFFICES ASSUME spa_pc \in {"commit", "done"} PROVE Slot(T) \notin ms_list'
    BY Zenon
  <2>1. t \in {T + 1, T + 2}
    BY Zenon, <1>1 DEF OpenTxgs
  <2>2. Slot(t) # Slot(T)
    BY Zenon, <2>1, Shapes, SlotFacts DEF IndInv
  <2> QED
    BY Zenon, <1>1, <2>2 DEF Dirty, DeferInv, DeferListed
<1>10. DeferListed'
  BY Zenon, <1>2, <1>8, <1>9, ListKept DEF DeferInv
<1> QED
  BY Zenon, <1>7, <1>10 DEF DeferInv

(* A block that is freed in syncing context was in the space map or is to  *)
(* be put there: it is not deferred.                                       *)
LEMMA FreeBlockDefer ==
    ASSUME IndInv, DeferInv, NEW s \in Segs, FreeBlock(s)
    PROVE  DeferInv'
<1>1. /\ spa_pc = "write" /\ use[s] = "live" /\ born[s] <= T
      /\ born' = [born EXCEPT ![s] = T]
      /\ UNCHANGED <<spa_txg, spa_pc, ms_freedtree, ms_defertree>>
  BY Zenon DEF FreeBlock, sync
<1>2. \/ /\ ms_freeingtree' = ms_freeingtree \cup {s} /\ ms_list' = Dirty(ms_freeingtree, T)
         /\ UNCHANGED free_bplist
      \/ /\ free_bplist' = [free_bplist EXCEPT ![Slot(T)] = @ \cup {s}]
         /\ UNCHANGED <<ms_freeingtree, ms_list>>
  BY Zenon DEF FreeBlock, FreeDva
<1>3. s \in smp_alloc \/ s \in A(0)
  BY Zenon, <1>1 DEF IndInv, Owners
<1>4. s \notin Deferred /\ s \notin L(1) /\ s \notin L(2)
  BY Zenon, <1>1, <1>3 DEF IndInv, Partition, Owners
<1>5. T \in Nat /\ T' = T
  BY Zenon, <1>1, Shapes DEF IndInv, T
<1>6. /\ Slot(T) \in Slots /\ Slot(T + 1) \in Slots /\ Slot(T + 2) \in Slots
      /\ Slot(T) # Slot(T + 1) /\ Slot(T) # Slot(T + 2)
  BY Zenon, <1>5, SlotFacts
<1>7. /\ L(1)' = L(1) /\ L(2)' = L(2)
      /\ \A r \in Segs : r # s /\ r \in L(0)' => r \in L(0)
  <2>1. T + 0 = T /\ T' + 0 = T
    BY <1>5
  <2> QED
    BY <1>2, <1>5, <1>6, <2>1 DEF IndInv, TypeOK, L
<1>8. \A r \in Segs : AgeKept(r)
  <2> SUFFICES ASSUME NEW r \in Segs PROVE AgeKept(r)
    BY Zenon
  <2>1. CASE r = s
    <3>1. born'[s] = T
      BY Zenon, <1>1 DEF IndInv, TypeOK
    <3> QED
      BY Zenon, <1>4, <1>7, <2>1, <3>1 DEF AgeKept
  <2>2. CASE r # s
    <3>1. born'[r] = born[r]
      BY Zenon, <1>1, <2>2 DEF IndInv, TypeOK
    <3>2. r \in ms_freeingtree' => r \in ms_freeingtree
      BY Zenon, <1>2, <2>2
    <3> QED
      BY Zenon, <1>1, <1>7, <2>2, <3>1, <3>2 DEF AgeKept, Freed
  <2> QED
    BY Zenon, <2>1, <2>2
<1>9. BornInv'
  BY Zenon, <1>1, <1>8, AgesKept DEF DeferInv
<1>10. ms_list \subseteq ms_list' /\ spa_pc' \notin {"commit", "done"}
  BY Zenon, <1>1, <1>2 DEF Dirty
<1>11. DeferListed'
  BY Zenon, <1>1, <1>10, ListKept DEF DeferInv
<1> QED
  BY Zenon, <1>9, <1>11 DEF DeferInv

LEMMA FreeOpenDefer ==
    ASSUME IndInv, DeferInv, NEW s \in Segs, FreeOpen(s)
    PROVE  DeferInv'
<1>1. /\ born[s] \in OpenTxgs
      /\ free_bplist' = [free_bplist EXCEPT ![Slot(born[s])] = @ \cup {s}]
      /\ UNCHANGED <<spa_txg, spa_pc, ms_freeingtree, ms_freedtree, ms_defertree, ms_list, born>>
  BY Zenon DEF FreeOpen, trees, state, sync
<1>2. T \in Nat /\ T' = T /\ T + 0 = T /\ T' + 0 = T
  BY <1>1, Shapes DEF IndInv, T
<1>3. born[s] \in {T, T + 1, T + 2}
  BY Zenon, <1>1 DEF OpenTxgs
<1>4. /\ Slot(T) \in Slots /\ Slot(T + 1) \in Slots /\ Slot(T + 2) \in Slots
      /\ Slot(T) # Slot(T + 1) /\ Slot(T) # Slot(T + 2) /\ Slot(T + 1) # Slot(T + 2)
  BY Zenon, <1>2, SlotFacts
<1>5. \A r \in Segs : /\ r \in L(0)' => r \in L(0) \/ (r = s /\ born[s] = T)
                      /\ r \in L(1)' => r \in L(1) \/ (r = s /\ born[s] = T + 1)
                      /\ r \in L(2)' => r \in L(2) \/ (r = s /\ born[s] = T + 2)
  <2>1. free_bplist \in [Slots -> SUBSET Segs]
    BY Zenon DEF IndInv, TypeOK
  <2> QED
    BY Zenon, <1>1, <1>2, <1>3, <1>4, <2>1 DEF L
<1>6. BornInv'
  <2> SUFFICES ASSUME NEW r \in Segs PROVE BornInv!(r)'
    BY Zenon DEF BornInv
  <2> QED
    BY Zenon, <1>1, <1>2, <1>5 DEF DeferInv, BornInv, Freed
<1>7. DeferListed'
  BY Zenon, <1>1 DEF DeferInv, DeferListed, Deferred, T, Slot
<1> QED
  BY Zenon, <1>6, <1>7 DEF DeferInv

LEMMA SyncFreesDefer ==
    ASSUME IndInv, DeferInv, SyncFrees
    PROVE  DeferInv'
<1>1. /\ spa_pc' = "vdev" /\ free_bplist' = [free_bplist EXCEPT ![Slot(T)] = {}]
      /\ UNCHANGED <<spa_txg, ms_freedtree, ms_defertree, born>>
  BY Zenon DEF SyncFrees, blocks
<1>2. T \in Nat /\ T' = T /\ T + 0 = T /\ T' + 0 = T /\ L(0) = free_bplist[Slot(T)]
  BY <1>1, Shapes DEF IndInv, T
<1>3. /\ ms_freeingtree' \subseteq ms_freeingtree \cup L(0)
      /\ ms_list \subseteq ms_list'
  BY Zenon, <1>2 DEF SyncFrees, FreeDva, Dirty
<1>4. /\ Slot(T) \in Slots /\ Slot(T + 1) \in Slots /\ Slot(T + 2) \in Slots
      /\ Slot(T) # Slot(T + 1) /\ Slot(T) # Slot(T + 2)
  BY Zenon, <1>2, SlotFacts
<1>5. L(0)' = {} /\ L(1)' = L(1) /\ L(2)' = L(2)
  <2>1. free_bplist \in [Slots -> SUBSET Segs]
    BY Zenon DEF IndInv, TypeOK
  <2> QED
    BY Zenon, <1>1, <1>2, <1>4, <2>1 DEF L
<1>6. \A r \in Segs : AgeKept(r)
  BY Zenon, <1>1, <1>3, <1>5 DEF AgeKept, Freed
<1>7. BornInv'
  BY Zenon, <1>1, <1>6, AgesKept DEF DeferInv
<1>8. DeferListed'
  BY Zenon, <1>1, <1>3, ListKept DEF DeferInv
<1> QED
  BY Zenon, <1>7, <1>8 DEF DeferInv

(* The space map is written: the metaslab is listed for metaslab_sync_done. *)
LEMMA WriteDefer ==
    ASSUME IndInv, DeferInv, MetaslabSync \/ CondenseEnd
    PROVE  DeferInv'
<1>1. /\ spa_pc = "vdev" /\ ms_list' = Cleaned
      /\ UNCHANGED <<spa_txg, spa_pc, ms_defertree, free_bplist, born>>
  BY Zenon DEF IndInv, StageInv, MetaslabSync, CondenseEnd, Written, trees, frees, blocks
<1>2. /\ ms_freeingtree' \subseteq ms_freeingtree \cup ms_freedtree
      /\ ms_freedtree' \subseteq ms_freeingtree \cup ms_freedtree
  BY Zenon DEF MetaslabSync, CondenseEnd, Written, trees
<1>3. \A r \in Segs : AgeKept(r)
  BY Zenon, <1>1, <1>2 DEF AgeKept, Freed, L, T
<1>4. BornInv'
  BY Zenon, <1>1, <1>3, AgesKept DEF DeferInv
<1>5. Slot(T + 3) \in ms_list' /\ spa_pc' \notin {"commit", "done"}
  BY Zenon, <1>1 DEF Cleaned
<1>6. DeferListed'
  BY Zenon, <1>1, <1>5, ListKept DEF DeferInv
<1> QED
  BY Zenon, <1>4, <1>6 DEF DeferInv

LEMMA PassDoneDefer ==
    ASSUME IndInv, DeferInv, PassDone
    PROVE  DeferInv'
<1>1. /\ spa_pc = "vdev" /\ Slot(T) \notin ms_list
      /\ UNCHANGED <<spa_txg, ms_freedtree, ms_defertree, free_bplist>>
  BY Zenon DEF PassDone
<1>2. \/ UNCHANGED <<ms_freeingtree, ms_list, born>>
      \/ /\ ms_freeingtree' = ms_freeingtree \cup bpobj
         /\ ms_list' = IF bpobj = {} THEN ms_list ELSE Dirty(ms_freeingtree, T)
         /\ born' = [s \in Segs |-> IF s \in bpobj THEN T ELSE born[s]]
         /\ bpobj # {} => spa_pc' = "write"
  <2>1. CASE /\ FreeDva(bpobj) /\ NextPass(mos'.dirty)
             /\ born' = [s \in Segs |-> IF s \in bpobj THEN T ELSE born[s]]
             /\ mos' = [mos EXCEPT !.dirty = IF bpobj = {} THEN @ ELSE 1]
    <3>1. bpobj # {} => mos'.dirty = 1
      BY <2>1 DEF IndInv, TypeOK
    <3> QED
      BY Zenon, <2>1, <3>1 DEF FreeDva, NextPass
  <2> QED
    BY Zenon, <2>1 DEF PassDone
<1>3. \A s \in Segs : s \in bpobj => s \notin Deferred /\ s \notin L(1) /\ s \notin L(2)
  <2> SUFFICES ASSUME NEW s \in Segs, s \in bpobj
               PROVE  s \notin Deferred /\ s \notin L(1) /\ s \notin L(2)
    BY Zenon
  <2>1. s \in smp_alloc \/ s \in A(0)
    BY Zenon DEF IndInv, Owners
  <2>2. s \notin Deferred /\ s \notin A(1) /\ s \notin A(2)
    BY Zenon, <2>1 DEF IndInv, Partition
  <2> QED
    BY Zenon, <2>2 DEF IndInv, Owners
<1>4. T' = T /\ L(0)' = L(0) /\ L(1)' = L(1) /\ L(2)' = L(2)
  BY Zenon, <1>1 DEF L, T
<1>5. \A s \in Segs : AgeKept(s)
  <2> SUFFICES ASSUME NEW s \in Segs PROVE AgeKept(s)
    BY Zenon
  <2>1. CASE UNCHANGED <<ms_freeingtree, ms_list, born>>
    BY Zenon, <1>1, <1>4, <2>1 DEF AgeKept, Freed
  <2>2. CASE /\ ms_freeingtree' = ms_freeingtree \cup bpobj
             /\ born' = [r \in Segs |-> IF r \in bpobj THEN T ELSE born[r]]
    <3>1. (s \in bpobj => born'[s] = T) /\ (s \notin bpobj => born'[s] = born[s])
      BY Zenon, <2>2
    <3> QED
      BY Zenon, <1>1, <1>3, <1>4, <2>2, <3>1 DEF AgeKept, Freed
  <2> QED
    BY Zenon, <1>2, <2>1, <2>2
<1>6. BornInv'
  BY Zenon, <1>1, <1>5, AgesKept DEF DeferInv
<1>7. ms_list \subseteq ms_list' /\ (spa_pc' \in {"commit", "done"} => Slot(T) \notin ms_list')
  BY Zenon, <1>1, <1>2 DEF Dirty
<1>8. DeferListed'
  BY Zenon, <1>1, <1>7, ListKept DEF DeferInv
<1> QED
  BY Zenon, <1>6, <1>8 DEF DeferInv

(* The end of the txg: the frees of this txg become the younger of the two *)
(* deferred trees, and the metaslab is listed for the next txg.            *)
LEMMA SyncDoneDefer ==
    ASSUME IndInv, DeferInv, SyncDone
    PROVE  DeferInv'
<1>1. spa_pc = "done" /\ spa_pc' = "idle" /\ born' = born
  BY Zenon DEF SyncDone, blocks
<1>2. /\ T' = T + 1 /\ Slot(T)' = Slot(T + 1)
      /\ L(0)' = L(1) /\ L(1)' = L(2) /\ L(2)' = {}
  BY Zenon, SyncDoneShifts DEF Shifted
<1>3. T \in Nat /\ ms_freeingtree = {} /\ ms_freedtree \subseteq Segs
  BY Zenon, <1>1, Shapes DEF IndInv, StageInv, TypeOK
<1>4. /\ T % 2 \in {0, 1} /\ (T + 1) % 2 \in {0, 1} /\ T % 2 # (T + 1) % 2
      /\ (T + 2) % 2 = T % 2
  BY Zenon, <1>3, DeferFacts
<1>5. Deferred # {} => Slot(T + 3) \in ms_list
  BY Zenon, <1>1 DEF DeferInv, DeferListed
<1>6. /\ ms_freeingtree' = {} /\ ms_freedtree' = {}
      /\ ms_defertree'[(T + 1) % 2] = ms_defertree[(T + 1) % 2]
      /\ ms_defertree'[T % 2] \subseteq ms_freedtree
      /\ Deferred' # {} => Slot(T + 1) \in ms_list'
  <2>1. CASE Slot(T + 3) \notin ms_list
    <3>1. UNCHANGED <<ms_freeingtree, ms_freedtree, ms_defertree>>
      BY Zenon, <2>1 DEF SyncDone, trees
    <3>2. ms_freedtree = {} /\ Deferred = {}
      BY Zenon, <1>5, <2>1 DEF IndInv, ListInv
    <3>3. ms_defertree[T % 2] = {} /\ Deferred' = {}
      BY Zenon, <1>4, <3>1, <3>2 DEF Deferred
    <3> QED
      BY Zenon, <1>3, <3>1, <3>2, <3>3
  <2>2. CASE Slot(T + 3) \in ms_list
    <3>1. MetaslabSyncDone
      BY Zenon, <2>2 DEF SyncDone
    <3>2. PICK ok \in BOOLEAN :
            ms_defertree' = [ms_defertree EXCEPT ![T % 2] = IF ok THEN ms_freedtree ELSE {}]
      BY Zenon, <3>1 DEF MetaslabSyncDone, TXG_DEFER_SIZE
    <3>3. ms_defertree \in [0 .. 1 -> SUBSET Segs] /\ T % 2 \in 0 .. 1 /\ (T + 1) % 2 \in 0 .. 1
      BY <1>4 DEF IndInv, TypeOK
    <3>4. /\ ms_defertree'[(T + 1) % 2] = ms_defertree[(T + 1) % 2]
          /\ ms_defertree'[T % 2] \subseteq ms_freedtree
      BY Zenon, <1>4, <3>2, <3>3
    <3>5. Deferred' # {} => Slot(T + 1) \in ms_list'
      BY Zenon, <3>1 DEF MetaslabSyncDone, DirtyForDeferred, Deferred
    <3>6. ms_freeingtree' = {} /\ ms_freedtree' = {}
      BY Zenon, <1>3, <3>1 DEF MetaslabSyncDone
    <3> QED
      BY Zenon, <3>4, <3>5, <3>6
  <2> QED
    BY Zenon, <2>1, <2>2
<1>7. BornInv'
  <2> SUFFICES ASSUME NEW s \in Segs PROVE BornInv!(s)'
    BY Zenon DEF BornInv
  <2>1. /\ s \in ms_freedtree => born[s] = T
        /\ s \in L(1) => born[s] = T + 1
        /\ s \in L(2) => born[s] = T + 2
        /\ s \in ms_defertree[(T + 1) % 2] => born[s] + 1 >= T
    BY Zenon DEF DeferInv, BornInv, Freed
  <2>2. born[s] \in Nat /\ T' % 2 = (T + 1) % 2 /\ (T' + 1) % 2 = T % 2
    BY <1>2, <1>3, <1>4 DEF IndInv, TypeOK
  <2>3. Freed(s)' => s \in L(1)
    BY Zenon, <1>2, <1>6 DEF Freed
  <2>4. /\ s \in ms_defertree'[T' % 2] => s \in ms_defertree[(T + 1) % 2]
        /\ s \in ms_defertree'[(T' + 1) % 2] => s \in ms_freedtree
    BY Zenon, <1>6, <2>2
  <2>5. /\ s \in ms_defertree'[T' % 2] => born[s] + 2 >= T'
        /\ s \in ms_defertree'[(T' + 1) % 2] => born[s] + 1 >= T'
    BY <1>2, <1>3, <2>1, <2>2, <2>4
  <2>6. T + 2 = T' + 1
    BY <1>2, <1>3
  <2> QED
    BY Zenon, <1>1, <1>2, <2>1, <2>3, <2>5, <2>6
<1>8. DeferListed'
  BY Zenon, <1>1, <1>2, <1>6 DEF DeferListed
<1> QED
  BY Zenon, <1>7, <1>8 DEF DeferInv

LEMMA CrashDefer ==
    ASSUME IndInv, Crash
    PROVE  DeferInv'
<1>1. IndInv'
  BY Zenon, CrashInv
<1>2. /\ spa_pc' = "claim" /\ ms_freeingtree' = {} /\ ms_freedtree' = {}
      /\ ms_defertree' = [i \in 0 .. 1 |-> {}] /\ free_bplist' = [i \in Slots |-> {}]
  BY Zenon DEF Crash
<1>3. PICK t \in Nat : t = T'
  BY Zenon, <1>1 DEF IndInv, TypeOK, T
<1>4. /\ t % 2 \in 0 .. 1 /\ (t + 1) % 2 \in 0 .. 1 /\ Slot(t + 0) \in Slots
      /\ Slot(t + 1) \in Slots /\ Slot(t + 2) \in Slots
  <2>1. t + 0 = t /\ 0 \in 0 .. 1 /\ 1 \in 0 .. 1
    OBVIOUS
  <2> QED
    BY Zenon, <2>1, SlotFacts, DeferFacts
<1>5. L(0)' = {} /\ L(1)' = {} /\ L(2)' = {}
  BY Zenon, <1>2, <1>3, <1>4 DEF L, Slot
<1>6. ms_defertree'[T' % 2] = {} /\ ms_defertree'[(T' + 1) % 2] = {}
  BY Zenon, <1>2, <1>3, <1>4
<1>7. Deferred' = {}
  BY <1>2 DEF Deferred
<1> QED
  BY Zenon, <1>2, <1>5, <1>6, <1>7 DEF DeferInv, BornInv, DeferListed, Freed

LEMMA ClaimDefer ==
    ASSUME IndInv, DeferInv, Claim
    PROVE  DeferInv'
<1>1. /\ spa_pc = "claim" /\ spa_pc' = "idle"
      /\ UNCHANGED <<spa_txg, ms_freeingtree, ms_freedtree, ms_defertree, free_bplist>>
  BY Zenon DEF Claim, frees
<1>2. PICK S \in SUBSET Claimable :
        /\ ms_list' = IF S = {} THEN ms_list ELSE ms_list \cup {Slot(T)}
        /\ born' = [s \in Segs |-> IF s \in S THEN T ELSE born[s]]
  BY Zenon DEF Claim
<1>3. /\ Deferred = {} /\ ms_freeingtree = {} /\ ms_freedtree = {} /\ L(2) = {}
      /\ A(0) = {} /\ A(1) = {}
  BY Zenon, <1>1 DEF IndInv, StageInv, TreeInv, Loaded
<1>4. \A s \in Segs : s \notin L(1)
  BY Zenon, <1>3 DEF IndInv, Owners
<1>5. \A s \in Segs : Freed(s)' => born'[s] = T
  <2> SUFFICES ASSUME NEW s \in Segs, s \in L(0) PROVE born'[s] = T
    BY Zenon, <1>1, <1>3 DEF Freed, L, T
  <2>1. born[s] = T
    BY Zenon DEF DeferInv, BornInv, Freed
  <2> QED
    BY Zenon, <1>2, <2>1
<1>6. \A s \in Segs : AgeKept(s)
  <2>1. T' = T /\ L(1)' = L(1) /\ L(2)' = L(2)
    BY Zenon, <1>1 DEF L, T
  <2> QED
    BY Zenon, <1>3, <1>4, <1>5, <2>1 DEF AgeKept
<1>7. BornInv'
  BY Zenon, <1>1, <1>6, AgesKept DEF DeferInv
<1>8. ms_list \subseteq ms_list' /\ spa_pc' \notin {"commit", "done"}
  BY Zenon, <1>1, <1>2
<1>9. DeferListed'
  BY Zenon, <1>1, <1>8, ListKept DEF DeferInv
<1> QED
  BY Zenon, <1>7, <1>9 DEF DeferInv

LEMMA DeferStep == IndInv /\ DeferInv /\ [Next]_vars => DeferInv'
<1> SUFFICES ASSUME IndInv, DeferInv, [Next]_vars PROVE DeferInv'
  BY Zenon
<1>1. CASE \/ LoadStart \/ LoadDone \/ LoadFail \/ SyncBegin \/ CondenseStart \/ Commit
           \/ \E s \in Segs : WriteDone(s) \/ Unallocate(s)
           \/ UNCHANGED vars
  BY Zenon, <1>1, QuietSteps
<1>2. CASE \E s \in Segs : Alloc(s) \/ FreeBlock(s) \/ FreeOpen(s)
  BY Zenon, <1>2, AllocDefer, FreeBlockDefer, FreeOpenDefer
<1>3. CASE SyncFrees \/ MetaslabSync \/ CondenseEnd \/ PassDone
  BY Zenon, <1>3, SyncFreesDefer, WriteDefer, PassDoneDefer
<1>4. CASE SyncDone \/ Crash \/ Claim
  BY Zenon, <1>4, SyncDoneDefer, CrashDefer, ClaimDefer
<1> QED
  BY Zenon, <1>1, <1>2, <1>3, <1>4 DEF Next

\* "Keep syncing this metaslab until all deferred frees are back in
\* circulation": vdev_dirty at the end of metaslab_sync_done puts the metaslab
\* on the list of the next txg, so that no free is kept back for more than
\* TXG_DEFER_SIZE txgs, over passes, condensing, loads, unloads and crashes.
THEOREM DeferredReturn == Spec => []DeferredInTime
<1>1. IndInv /\ DeferInv => DeferredInTime
  <2> SUFFICES ASSUME IndInv, DeferInv, NEW s \in Deferred PROVE born[s] + 2 >= T
    BY Zenon DEF DeferredInTime, TXG_DEFER_SIZE
  <2>1. T \in Nat /\ s \in Segs /\ born[s] \in Nat
    BY Zenon, Shapes DEF IndInv, TypeOK
  <2>2. T % 2 \in {0, 1} /\ (T + 1) % 2 \in {0, 1} /\ T % 2 # (T + 1) % 2
    BY Zenon, <2>1, DeferFacts
  <2>3. s \in ms_defertree[T % 2] \/ s \in ms_defertree[(T + 1) % 2]
    <3>1. s \in ms_defertree[0] \/ s \in ms_defertree[1]
      BY Zenon DEF Deferred
    <3>2. (T % 2 = 0 /\ (T + 1) % 2 = 1) \/ (T % 2 = 1 /\ (T + 1) % 2 = 0)
      BY ONLY Zenon, <2>2
    <3> QED
      BY ONLY Zenon, <3>1, <3>2
  <2>4. born[s] + 2 >= T \/ born[s] + 1 >= T
    BY Zenon, <2>1, <2>3 DEF DeferInv, BornInv
  <2> QED
    BY <2>1, <2>4
<1> QED
  BY <1>1, Inductive, InitDefer, DeferStep, PTL DEF Spec
=============================================================================
