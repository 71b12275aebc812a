------------------------------ MODULE TxgProofs ------------------------------
(***************************************************************************)
(* Proofs about the txg pipeline, for every number of cpus, transaction    *)
(* threads and waiters, every first txg and every bound.                   *)
(***************************************************************************)
EXTENDS Txg, FiniteSetTheorems, TLAPS

-----------------------------------------------------------------------------
(* Facts about the operators.                                              *)

(* A slot number is a slot, and txgs less than TXG_SIZE apart that share a  *)
(* slot are the same txg: why the three active txgs never collide.          *)
LEMMA SlotFacts ==
    /\ \A n \in Nat : Slot(n) \in Slots
    /\ \A m, n \in Nat : Slot(m) = Slot(n) /\ m <= n /\ n < m + TXG_SIZE
                            => m = n
BY DEF Slot, TXG_SIZE, Slots

(* Sleeping and waking keep cv a function from condition variables to sets *)
(* of threads.                                                             *)
LEMMA CvTypes ==
    ASSUME LockTypeOK
    PROVE  /\ \A V : Broadcast(V) => cv' \in [CVs -> SUBSET Threads]
           /\ \A V, w : \A t \in Threads :
                BroadcastAndWait(V, t, w) => cv' \in [CVs -> SUBSET Threads]
BY Zenon DEF LockTypeOK, Broadcast, BroadcastAndWait

LEMMA HoldsFinite ==
    \A c, g : IsFiniteSet(HoldsOn(c, g)) /\ Cardinality(HoldsOn(c, g)) \in Nat
<1> SUFFICES ASSUME NEW c, NEW g
             PROVE  IsFiniteSet(HoldsOn(c, g))
  BY Zenon, FS_CardinalityType
<1> QED
  BY Zenon, FS_Subset, TxsFinite DEF HoldsOn

(* Where the txgs stand, and where the transactions in progress do.        *)
LEMMA PipelineFacts ==
    ASSUME StateTypeOK, PipelineInv
    PROVE  /\ LastSynced \in Nat /\ LastTaken \in Nat
           /\ tx_synced_txg <= LastSynced /\ LastSynced <= LastTaken
           /\ LastTaken < tx_open_txg
           /\ tx_syncing_txg # 0 => /\ LastTaken = tx_syncing_txg
                                    /\ tx_syncing_txg = LastSynced + 1
BY InitTxgAssumption DEF StateTypeOK, PipelineInv, LastTaken, LastSynced

LEMMA HoldersFacts ==
    ASSUME StateTypeOK, CpuTypeOK, PipelineInv, HoldersInv
    PROVE  \A t \in Txs : InTxg(t) => th[t].txg \in Nat /\ th[t].txg > LastTaken
BY PipelineFacts
   DEF StateTypeOK, CpuTypeOK, PipelineInv, HoldersInv, Closing

-----------------------------------------------------------------------------

LEMMA InitIndInv == Init => IndInv
<1> SUFFICES ASSUME Init PROVE IndInv
  BY Zenon
<1> USE NCPUAssumption, InitTxgAssumption, BoundsAssumption DEF Init
<1>1. TypeOK
  BY DEF TypeOK, NoHandle, StateTypeOK, LockTypeOK, CpuTypeOK, CallbackTypeOK,
         ThreadTypeOK, CPUs, Slots, TXG_SIZE
<1>2. ThreadsInv /\ PipelineInv /\ OpenLockInv /\ HoldersInv
  BY DEF ThreadsInv, PipelineInv, OpenLockInv, HoldersInv, InTxg, Closing,
         LastTaken, LastSynced
<1>3. HoldCountsExact
  <2> SUFFICES ASSUME NEW c \in CPUs, NEW g \in Slots
               PROVE  tc_count[c][g] = Cardinality(HoldsOn(c, g))
    BY Zenon DEF HoldCountsExact
  <2>1. HoldsOn(c, g) = {}
    BY Zenon DEF HoldsOn, InTxg
  <2> QED
    BY Zenon, <2>1, FS_EmptySet
<1>4. CallbacksInv /\ RequestInv /\ StopInv
  BY Zenon DEF CallbacksInv, RequestInv, StopInv
<1> QED
  BY Zenon, <1>1, <1>2, <1>3, <1>4 DEF IndInv

-----------------------------------------------------------------------------

USE DEF pipeline, waiting, life, holds, cbs, quiesce, waiters, stop

(* A transaction's steps: the count of its slot follows it in and out, and  *)
(* it enters only while it keeps the open txg from closing.                 *)
LEMMA HoldOpenStep ==
    ASSUME IndInv, NEW t \in Txs, NEW c \in CPUs, TxgHoldOpen(t, c)
    PROVE  IndInv'
<1>i. /\ StateTypeOK /\ LockTypeOK /\ CpuTypeOK /\ CallbackTypeOK
      /\ ThreadTypeOK /\ ThreadsInv /\ PipelineInv /\ OpenLockInv
      /\ HoldersInv /\ HoldCountsExact /\ CallbacksInv /\ RequestInv
      /\ StopInv
  BY ZenonT(20) DEF IndInv, TypeOK
<1> USE <1>i
<1> USE DEF TxgHoldOpen
<1> DEFINE g == Slot(tx_open_txg)
<1>1. g \in Slots /\ tx_open_txg \in Nat
  BY Zenon, SlotFacts DEF StateTypeOK
<1>2. CpuTypeOK'
  BY <1>1 DEF CpuTypeOK
<1>3. StateTypeOK' /\ LockTypeOK' /\ CallbackTypeOK' /\ ThreadTypeOK'
  BY Zenon DEF StateTypeOK, LockTypeOK, CallbackTypeOK, ThreadTypeOK
<1>4. OpenLockInv'
  BY Zenon, ThreadsDistinct DEF OpenLockInv, CpuTypeOK
<1>5. HoldersInv'
  BY Zenon DEF HoldersInv, InTxg, CpuTypeOK, Closing
<1>6. HoldCountsExact'
  <2> SUFFICES ASSUME NEW d \in CPUs, NEW h \in Slots
               PROVE  tc_count'[d][h] = Cardinality(HoldsOn(d, h)')
    BY Zenon DEF HoldCountsExact
  <2>1. CASE d = c /\ h = g
    <3>1. HoldsOn(d, h)' = HoldsOn(d, h) \cup {t} /\ t \notin HoldsOn(d, h)
      BY Zenon, <2>1 DEF HoldsOn, InTxg, CpuTypeOK
    <3>2. tc_count'[d][h] = tc_count[d][h] + 1
      BY Zenon, <2>1 DEF CpuTypeOK
    <3> QED
      BY ZenonT(20), <3>1, <3>2, HoldsFinite, FS_AddElement DEF HoldCountsExact
  <2>2. CASE ~(d = c /\ h = g)
    <3>1. HoldsOn(d, h)' = HoldsOn(d, h)
      BY Zenon, <2>2 DEF HoldsOn, InTxg, CpuTypeOK
    <3>2. tc_count'[d][h] = tc_count[d][h]
      BY Zenon, <2>2 DEF CpuTypeOK
    <3> QED
      BY Zenon, <3>1, <3>2 DEF HoldCountsExact
  <2> QED
    BY Zenon, <2>1, <2>2
<1>7. ThreadsInv' /\ PipelineInv' /\ CallbacksInv' /\ RequestInv' /\ StopInv'
  BY Zenon DEF ThreadsInv, PipelineInv, LastTaken, LastSynced, Closing, CallbacksInv,
         RequestInv, StopInv, PoolInUse
<1> QED
  BY Zenon, <1>2, <1>3, <1>4, <1>5, <1>6, <1>7
     DEF IndInv, TypeOK

(* Steps that leave every hold alone leave the counts exact.               *)
LEMMA HoldCountsFrame ==
    ASSUME HoldCountsExact, UNCHANGED <<tc_count, th>>,
           \A t \in Txs : InTxg(t)' = InTxg(t)
    PROVE  HoldCountsExact'
<1>1. \A c \in CPUs, g \in Slots : HoldsOn(c, g)' = HoldsOn(c, g)
  BY Zenon DEF HoldsOn
<1> QED
  BY Zenon, <1>1 DEF IndInv, TypeOK, HoldCountsExact

LEMMA DelayStep ==
    ASSUME IndInv, NEW t \in Txs, TxgDelayWait(t) \/ TxgDelayDone(t)
    PROVE  IndInv'
<1>i. /\ StateTypeOK /\ LockTypeOK /\ CpuTypeOK /\ CallbackTypeOK
      /\ ThreadTypeOK /\ ThreadsInv /\ PipelineInv /\ OpenLockInv
      /\ HoldersInv /\ HoldCountsExact /\ CallbacksInv /\ RequestInv
      /\ StopInv
  BY ZenonT(20) DEF IndInv, TypeOK
<1> USE <1>i
<1> USE DEF TxgDelayWait, TxgDelayDone
<1>1. LockTypeOK'
  <2>1. t \in Threads
    BY Zenon DEF Threads
  <2> QED
    BY ZenonT(20), <2>1, CvTypes DEF LockTypeOK
<1>2. StateTypeOK' /\ CpuTypeOK' /\ CallbackTypeOK' /\ ThreadTypeOK'
  BY ZenonT(40) DEF StateTypeOK, CpuTypeOK, CallbackTypeOK, ThreadTypeOK
<1>3. \A u \in Txs : /\ InTxg(u)' = InTxg(u)
                     /\ tx_pc'[u] \in {"held", "delay"}
                          <=> tx_pc[u] \in {"held", "delay"}
  BY ZenonT(20) DEF InTxg, CpuTypeOK
<1>4. OpenLockInv' /\ HoldersInv'
  BY <1>3 DEF OpenLockInv, HoldersInv, Closing
<1>5. HoldCountsExact'
  BY Zenon, <1>3, HoldCountsFrame
<1>6. ThreadsInv' /\ PipelineInv' /\ CallbacksInv' /\ RequestInv' /\ StopInv'
  BY ZenonT(40), <1>3 DEF ThreadsInv, PipelineInv, LastTaken, LastSynced, Closing,
              CallbacksInv, RequestInv, StopInv
<1> QED
  BY Zenon, <1>1, <1>2, <1>4, <1>5, <1>6
     DEF IndInv, TypeOK

LEMMA ReleToQuiesceStep ==
    ASSUME IndInv, NEW t \in Txs, TxgReleToQuiesce(t)
    PROVE  IndInv'
<1>i. /\ StateTypeOK /\ LockTypeOK /\ CpuTypeOK /\ CallbackTypeOK
      /\ ThreadTypeOK /\ ThreadsInv /\ PipelineInv /\ OpenLockInv
      /\ HoldersInv /\ HoldCountsExact /\ CallbacksInv /\ RequestInv
      /\ StopInv
  BY ZenonT(20) DEF IndInv, TypeOK
<1> USE <1>i
<1> USE DEF TxgReleToQuiesce
<1>1. TypeOK'
  BY DEF TypeOK, StateTypeOK, LockTypeOK, CpuTypeOK, CallbackTypeOK, ThreadTypeOK
<1>2. \A u \in Txs : InTxg(u)' = InTxg(u)
  BY Zenon DEF InTxg, CpuTypeOK
<1>3. OpenLockInv'
  <2>1. tc_open_lock[th[t].cpu] = t /\ t # QuiesceThread
    BY Zenon, ThreadsDistinct DEF OpenLockInv
  <2> QED
    BY <2>1 DEF OpenLockInv, CpuTypeOK, ThreadTypeOK, CPUs
<1>4. HoldersInv'
  BY Zenon, <1>2 DEF HoldersInv, Closing
<1>5. HoldCountsExact'
  BY Zenon, <1>2, HoldCountsFrame
<1>6. ThreadsInv' /\ PipelineInv' /\ CallbacksInv' /\ RequestInv' /\ StopInv'
  BY Zenon, <1>2 DEF ThreadsInv, PipelineInv, LastTaken, LastSynced, Closing,
              CallbacksInv, RequestInv, StopInv
<1> QED
  BY Zenon, <1>1, <1>3, <1>4, <1>5, <1>6
     DEF IndInv, TypeOK

LEMMA RegisterCallbacksStep ==
    ASSUME IndInv, NEW t \in Txs, TxgRegisterCallbacks(t)
    PROVE  IndInv'
<1>i. /\ StateTypeOK /\ LockTypeOK /\ CpuTypeOK /\ CallbackTypeOK
      /\ ThreadTypeOK /\ ThreadsInv /\ PipelineInv /\ OpenLockInv
      /\ HoldersInv /\ HoldCountsExact /\ CallbacksInv /\ RequestInv
      /\ StopInv
  BY ZenonT(20) DEF IndInv, TypeOK
<1> USE <1>i
<1> DEFINE c == th[t].cpu
           g == Slot(th[t].txg)
<1>0. PICK id \in 1 .. MaxCallbacks :
        tc_callbacks' = [tc_callbacks EXCEPT ![c][g] =
                            @ \cup {[id |-> id, txg |-> th[t].txg]}]
  BY ZenonT(20) DEF TxgRegisterCallbacks
<1> USE DEF TxgRegisterCallbacks
<1>1. c \in CPUs /\ th[t].txg \in Nat /\ g \in Slots
  BY ZenonT(20), SlotFacts DEF CpuTypeOK
<1>2. CallbackTypeOK'
  <2>1. /\ [id |-> id, txg |-> th[t].txg] \in Callback
        /\ cb_taskq' = cb_taskq /\ cb_done' = cb_done
    BY Zenon, <1>1 DEF Callback
  <2> QED
    BY ONLY SMT, <1>i, <1>0, <1>1, <2>1 DEF CallbackTypeOK
<1>3. StateTypeOK' /\ LockTypeOK' /\ CpuTypeOK' /\ ThreadTypeOK'
  BY ZenonT(20) DEF StateTypeOK, LockTypeOK, CpuTypeOK, ThreadTypeOK
<1>4. \A u \in Txs : /\ InTxg(u)' = InTxg(u)
                     /\ tx_pc'[u] \in {"held", "delay"}
                          <=> tx_pc[u] \in {"held", "delay"}
  BY Zenon DEF InTxg, CpuTypeOK
<1>5. OpenLockInv' /\ HoldersInv'
  BY Zenon, <1>4 DEF OpenLockInv, HoldersInv, Closing
<1>6. HoldCountsExact'
  BY ZenonT(20), <1>4, HoldCountsFrame
<1>7. CallbacksInv'
  <2>1. LastSynced < th[t].txg
    <3>1. /\ LastSynced \in Nat /\ LastTaken \in Nat /\ LastSynced <= LastTaken
          /\ LastTaken < th[t].txg
      BY Zenon, PipelineFacts, HoldersFacts DEF InTxg
    <3> QED
      BY ONLY SMT, <1>1, <3>1
  <2>2. th[t].txg <= tx_open_txg
    <3>1. \/ th[t].txg = tx_open_txg
          \/ th[t].txg = LastTaken + 1 /\ tx_open_txg = LastTaken + 2
      BY Zenon DEF HoldersInv, PipelineInv, InTxg
    <3>2. LastTaken \in Nat /\ tx_open_txg \in Nat
      BY Zenon, PipelineFacts DEF StateTypeOK
    <3> QED
      BY ONLY SMT, <3>1, <3>2
  <2>3. /\ LastSynced' = LastSynced /\ tx_open_txg' = tx_open_txg
        /\ tx_synced_txg' = tx_synced_txg /\ cb_taskq' = cb_taskq /\ cb_done' = cb_done
    BY Zenon DEF LastSynced
  <2>4. ASSUME NEW d \in CPUs, NEW h \in Slots, NEW cb \in tc_callbacks'[d][h]
        PROVE  /\ Slot(cb.txg) = h
               /\ LastSynced < cb.txg /\ cb.txg <= tx_open_txg
    <3>1. \/ cb \in tc_callbacks[d][h]
          \/ h = g /\ cb.txg = th[t].txg
      BY ONLY SMT, <1>i, <1>0, <1>1, <2>4 DEF CallbackTypeOK
    <3> QED
      BY ONLY Zenon, <1>i, <2>1, <2>2, <2>4, <3>1 DEF CallbacksInv
  <2> QED
    BY ONLY Zenon, <1>i, <2>3, <2>4 DEF CallbacksInv
<1>8. ThreadsInv' /\ PipelineInv' /\ RequestInv'
  BY Zenon DEF ThreadsInv, PipelineInv, LastTaken, LastSynced, Closing, RequestInv
<1>9. StopInv'
  BY Zenon DEF StopInv, InTxg
<1> QED
  BY Zenon, <1>2, <1>3, <1>5, <1>6, <1>7, <1>8, <1>9
     DEF IndInv, TypeOK

LEMMA ReleToSyncStep ==
    ASSUME IndInv, NEW t \in Txs, TxgReleToSync(t)
    PROVE  IndInv'
<1>i. /\ StateTypeOK /\ LockTypeOK /\ CpuTypeOK /\ CallbackTypeOK
      /\ ThreadTypeOK /\ ThreadsInv /\ PipelineInv /\ OpenLockInv
      /\ HoldersInv /\ HoldCountsExact /\ CallbacksInv /\ RequestInv
      /\ StopInv
  BY ZenonT(20) DEF IndInv, TypeOK
<1> USE <1>i
<1> USE DEF TxgReleToSync
<1> DEFINE c == th[t].cpu
           g == Slot(th[t].txg)
<1>1. c \in CPUs /\ th[t].txg \in Nat /\ g \in Slots
  BY Zenon, SlotFacts DEF CpuTypeOK
<1>2. InTxg(t) /\ t \in HoldsOn(c, g)
  BY Zenon DEF InTxg, HoldsOn
<1>3. tc_count[c][g] \in Nat \ {0}
  BY ONLY <1>1, <1>2, HoldsFinite, FS_EmptySet, <1>i
     DEF HoldCountsExact
<1>4. CpuTypeOK'
  <2>1. NoHandle \in [cpu : CPUs, txg : Nat]
    BY ONLY SMT, NCPUAssumption DEF NoHandle, CPUs
  <2>2. tc_count[c][g] - 1 \in Nat
    BY ONLY SMT, <1>3
  <2>3. /\ tc_count' = [tc_count EXCEPT ![c][g] = tc_count[c][g] - 1]
        /\ th' = [th EXCEPT ![t] = NoHandle] /\ tx_pc' = [tx_pc EXCEPT ![t] = "idle"]
        /\ tc_open_lock' = tc_open_lock
    BY Zenon
  <2> QED
    BY ONLY SMT, <1>i, <1>1, <2>1, <2>2, <2>3 DEF CpuTypeOK
<1>5. LockTypeOK'
  BY Zenon, CvTypes DEF LockTypeOK
<1>6. StateTypeOK' /\ CallbackTypeOK' /\ ThreadTypeOK'
  BY ZenonT(20) DEF StateTypeOK, CallbackTypeOK, ThreadTypeOK
<1>7. OpenLockInv' /\ HoldersInv'
  BY ZenonT(20) DEF OpenLockInv, HoldersInv, InTxg, CpuTypeOK, Closing
<1>8. HoldCountsExact'
  <2> SUFFICES ASSUME NEW d \in CPUs, NEW h \in Slots
               PROVE  tc_count'[d][h] = Cardinality(HoldsOn(d, h)')
    BY ZenonT(20) DEF HoldCountsExact
  <2>1. CASE d = c /\ h = g
    <3>1. HoldsOn(d, h)' = HoldsOn(d, h) \ {t}
      BY Zenon, <2>1 DEF HoldsOn, InTxg, CpuTypeOK
    <3>2. tc_count'[d][h] = tc_count[d][h] - 1
      BY Zenon, <2>1, <1>1 DEF CpuTypeOK
    <3>3. Cardinality(HoldsOn(d, h) \ {t}) = Cardinality(HoldsOn(d, h)) - 1
      <4>1. t \in HoldsOn(d, h) /\ IsFiniteSet(HoldsOn(d, h))
        BY ZenonT(20), <2>1, <1>2, HoldsFinite
      <4> QED
        BY ONLY ZenonT(20), <4>1, FS_RemoveElement
    <3> QED
      BY ONLY Zenon, <3>1, <3>2, <3>3, <1>i DEF HoldCountsExact
  <2>2. CASE ~(d = c /\ h = g)
    <3>1. HoldsOn(d, h)' = HoldsOn(d, h)
      BY Zenon, <2>2 DEF HoldsOn, InTxg, CpuTypeOK
    <3>2. tc_count'[d][h] = tc_count[d][h]
      BY ZenonT(20), <2>2, <1>1 DEF CpuTypeOK
    <3> QED
      BY Zenon, <3>1, <3>2 DEF HoldCountsExact
  <2> QED
    BY ZenonT(20), <2>1, <2>2
<1>9. ThreadsInv' /\ PipelineInv' /\ CallbacksInv' /\ RequestInv' /\ StopInv'
  BY Zenon DEF ThreadsInv, PipelineInv, LastTaken, LastSynced, Closing, CallbacksInv,
         RequestInv, StopInv, InTxg
<1> QED
  BY Zenon, <1>4, <1>5, <1>6, <1>7, <1>8, <1>9
     DEF IndInv, TypeOK

-----------------------------------------------------------------------------

(* The quiesce thread's steps.                                             *)
LEMMA QuiesceTypeOK ==
    ASSUME IndInv, QuiesceNext
    PROVE  TypeOK'
<1>i. /\ StateTypeOK /\ LockTypeOK /\ CpuTypeOK /\ CallbackTypeOK
      /\ ThreadTypeOK /\ ThreadsInv /\ PipelineInv /\ OpenLockInv
      /\ HoldersInv /\ HoldCountsExact /\ CallbacksInv /\ RequestInv
      /\ StopInv
  BY ZenonT(20) DEF IndInv, TypeOK
<1> USE <1>i
<1> USE DEF QuiesceNext
<1>1. StateTypeOK'
  <2>1. CASE QuiesceExit
    BY <2>1 DEF QuiesceExit, StateTypeOK, ThreadsInv
  <2>2. CASE QuiesceAdvance
    BY <2>2 DEF QuiesceAdvance, StateTypeOK
  <2>3. CASE QuiesceHandOff
    BY Zenon, <2>3 DEF QuiesceHandOff, StateTypeOK, ThreadTypeOK
  <2>4. CASE ~QuiesceExit /\ ~QuiesceAdvance /\ ~QuiesceHandOff
    <3>1. UNCHANGED <<pipeline, waiting, life>>
      BY ZenonT(20), <2>4
         DEF QuiesceWaitMore, QuiesceStart, QuiesceLockCpu, QuiesceUnlockCpu,
             QuiesceDrainCpu, QuiesceDrainWait
    <3> QED
      BY ZenonT(20), <3>1 DEF StateTypeOK
  <2> QED
    BY Zenon, <2>1, <2>2, <2>3, <2>4
<1>5. ThreadTypeOK'
  <2>0. /\ UNCHANGED <<sync_pc, waiters, stop>>
        /\ ThreadTypeOK' <=> /\ quiesce_pc' \in {"none", "more", "lock",
                                                "unlock", "drain"}
                             /\ q_txg' \in Nat /\ q_cpu' \in 0 .. NCPU
    <3>1. UNCHANGED <<sync_pc, waiters, stop>>
      BY ZenonT(20)
         DEF QuiesceWaitMore, QuiesceExit, QuiesceStart, QuiesceLockCpu,
             QuiesceAdvance, QuiesceUnlockCpu, QuiesceDrainCpu,
             QuiesceDrainWait, QuiesceHandOff
    <3> QED
      BY Zenon, <3>1 DEF ThreadTypeOK
  <2>1. CASE QuiesceWaitMore \/ QuiesceDrainWait
    BY Zenon, <2>0, <2>1 DEF QuiesceWaitMore, QuiesceDrainWait, ThreadTypeOK
  <2>2. CASE QuiesceExit
    BY Zenon, <2>0, <2>2 DEF QuiesceExit, ThreadTypeOK
  <2>3. CASE QuiesceStart
    BY <2>0, <2>3, NCPUAssumption DEF QuiesceStart, StateTypeOK
  <2>4. CASE QuiesceLockCpu
    BY <2>0, <2>4, NCPUAssumption DEF QuiesceLockCpu, ThreadTypeOK, CPUs
  <2>5. CASE QuiesceAdvance
    BY <2>0, <2>5, NCPUAssumption DEF QuiesceAdvance, ThreadTypeOK
  <2>6. CASE QuiesceUnlockCpu
    BY <2>0, <2>6, NCPUAssumption DEF QuiesceUnlockCpu, ThreadTypeOK, CPUs
  <2>7. CASE QuiesceDrainCpu
    BY <2>0, <2>7, NCPUAssumption DEF QuiesceDrainCpu, ThreadTypeOK, CPUs
  <2>8. CASE QuiesceHandOff
    BY <2>0, <2>8, NCPUAssumption DEF QuiesceHandOff
  <2> QED
    BY Zenon, <2>1, <2>2, <2>3, <2>4, <2>5, <2>6, <2>7, <2>8
<1> USE DEF QuiesceWaitMore, QuiesceExit, QuiesceStart, QuiesceLockCpu,
            QuiesceAdvance, QuiesceUnlockCpu, QuiesceDrainCpu,
            QuiesceDrainWait, QuiesceHandOff
<1>2. LockTypeOK'
  <2>1. QuiesceThread \in Threads
    BY ZenonT(20) DEF Threads
  <2> QED
    BY ZenonT(20), <2>1, CvTypes DEF LockTypeOK
<1>3. CpuTypeOK'
  BY ZenonT(20) DEF CpuTypeOK
<1>4. CallbackTypeOK'
  BY ZenonT(20) DEF CallbackTypeOK
<1> QED
  BY ZenonT(20), <1>1, <1>2, <1>3, <1>4, <1>5
     DEF IndInv, TypeOK

LEMMA QuiesceHolds ==
    ASSUME IndInv, QuiesceNext
    PROVE  /\ \A t \in Txs : InTxg(t)' = InTxg(t)
           /\ UNCHANGED <<tc_count, tx_pc, th>>
BY ZenonT(20) DEF QuiesceWaitMore, QuiesceExit, QuiesceStart, QuiesceLockCpu,
       QuiesceAdvance, QuiesceUnlockCpu, QuiesceDrainCpu,
       QuiesceDrainWait, QuiesceHandOff, QuiesceNext, InTxg

(* When txg_quiesce passes a cpu, nobody holds the closing txg there.      *)
LEMMA DrainedCpu ==
    ASSUME IndInv, QuiesceDrainCpu, NEW t \in Txs, InTxg(t),
           th[t].txg = q_txg
    PROVE  th[t].cpu # q_cpu
<1>i. /\ StateTypeOK /\ LockTypeOK /\ CpuTypeOK /\ CallbackTypeOK
      /\ ThreadTypeOK /\ ThreadsInv /\ PipelineInv /\ OpenLockInv
      /\ HoldersInv /\ HoldCountsExact /\ CallbacksInv /\ RequestInv
      /\ StopInv
  BY ZenonT(20) DEF IndInv, TypeOK
<1> USE <1>i
<1> SUFFICES ASSUME th[t].cpu = q_cpu PROVE FALSE
  BY Zenon
<1>1. q_cpu \in CPUs /\ Slot(q_txg) \in Slots
  BY ZenonT(20), SlotFacts DEF QuiesceDrainCpu, ThreadTypeOK
<1>2. t \in HoldsOn(q_cpu, Slot(q_txg))
  BY Zenon DEF HoldsOn
<1>3. Cardinality(HoldsOn(q_cpu, Slot(q_txg))) = 0
  BY ZenonT(20), <1>1 DEF HoldCountsExact, QuiesceDrainCpu
<1> QED
  BY Zenon, <1>2, <1>3, HoldsFinite, FS_EmptySet

LEMMA QuiesceStep == ASSUME IndInv, QuiesceNext PROVE IndInv'
<1>i. /\ StateTypeOK /\ LockTypeOK /\ CpuTypeOK /\ CallbackTypeOK
      /\ ThreadTypeOK /\ ThreadsInv /\ PipelineInv /\ OpenLockInv
      /\ HoldersInv /\ HoldCountsExact /\ CallbacksInv /\ RequestInv
      /\ StopInv
  BY ZenonT(20) DEF IndInv, TypeOK
<1> USE <1>i
<1>a. TypeOK'
  BY Zenon, QuiesceTypeOK
<1>b. HoldCountsExact'
  BY ZenonT(20), QuiesceHolds, HoldCountsFrame
<1>c. CallbacksInv'
  <2>1. UNCHANGED <<cbs, tx_synced_txg>>
    BY ZenonT(20)
       DEF QuiesceWaitMore, QuiesceExit, QuiesceStart, QuiesceLockCpu,
           QuiesceAdvance, QuiesceUnlockCpu, QuiesceDrainCpu,
           QuiesceDrainWait, QuiesceHandOff, QuiesceNext
  <2>3. tx_open_txg <= tx_open_txg'
    <3>1. tx_open_txg' = tx_open_txg + 1 \/ UNCHANGED tx_open_txg
      BY ZenonT(20)
         DEF QuiesceWaitMore, QuiesceExit, QuiesceStart, QuiesceLockCpu,
             QuiesceAdvance, QuiesceUnlockCpu, QuiesceDrainCpu,
             QuiesceDrainWait, QuiesceHandOff, QuiesceNext
    <3> QED
      BY <3>1 DEF StateTypeOK
  <2>2. \A c \in CPUs, g \in Slots : \A cb \in tc_callbacks[c][g] :
           cb.txg \in Nat
    BY DEF CallbackTypeOK, Callback
  <2> QED
    BY SMTT(20), <1>a, <2>1, <2>2, <2>3 DEF TypeOK, CallbacksInv, LastSynced, StateTypeOK
<1>d. StopInv'
  BY ZenonT(20), QuiesceHolds
     DEF QuiesceWaitMore, QuiesceExit, QuiesceStart, QuiesceLockCpu,
         QuiesceAdvance, QuiesceUnlockCpu, QuiesceDrainCpu,
         QuiesceDrainWait, QuiesceHandOff, QuiesceNext, StopInv
<1> DEFINE Rest == ThreadsInv /\ PipelineInv /\ OpenLockInv /\ HoldersInv
                     /\ RequestInv
<1>1. ASSUME QuiesceWaitMore \/ QuiesceDrainWait PROVE Rest'
  <2> USE <1>1 DEF QuiesceWaitMore, QuiesceDrainWait
  <2>1. ThreadsInv'
    BY ZenonT(20), ThreadsDistinct DEF ThreadsInv, CanRun
  <2>2. PipelineInv' /\ OpenLockInv' /\ HoldersInv' /\ RequestInv'
    <3>1. UNCHANGED <<pipeline, waiting, holds, sync_pc, quiesce, waiters>>
      BY Zenon
    <3> QED
      BY ZenonT(20), <3>1 DEF InTxg, PipelineInv, OpenLockInv, HoldersInv, RequestInv, Closing,
         LastTaken, LastSynced
  <2> QED
    BY ZenonT(20), <2>1, <2>2
<1>2. ASSUME QuiesceExit PROVE Rest'
  <2>1. ThreadsInv'
    <3>1. /\ quiesce_pc = "more" /\ quiesce_pc' = "none" /\ tx_threads' = tx_threads - 1
          /\ sync_pc # "raise" /\ \A w \in Waiters : wait_pc[w] # "kick"
          /\ UNCHANGED <<sync_pc, tx_syncing_txg, wait_pc>>
      BY ZenonT(20), <1>2, ThreadsDistinct DEF QuiesceExit, ThreadsInv, CanRun
    <3>2. tx_threads' = (IF sync_pc = "none" THEN 0 ELSE 1) + 0
      <4>1. tx_threads = (IF sync_pc = "none" THEN 0 ELSE 1) + 1
        BY Zenon, <3>1 DEF ThreadsInv
      <4> QED
        BY ONLY SMT, <3>1, <4>1
    <3> QED
      BY Zenon, <3>1, <3>2 DEF ThreadsInv
  <2>2. PipelineInv' /\ OpenLockInv' /\ HoldersInv' /\ RequestInv'
    BY ZenonT(20), <1>2 DEF QuiesceExit, InTxg, PipelineInv, OpenLockInv, HoldersInv,
       RequestInv, Closing, LastTaken, LastSynced
  <2> QED
    BY ZenonT(20), <2>1, <2>2
<1>3. ASSUME QuiesceStart PROVE Rest'
  <2> USE <1>3 DEF QuiesceStart
  <2>1. /\ quiesce_pc = "more" /\ quiesce_pc' = "lock"
        /\ q_txg' = tx_open_txg /\ q_cpu' = 0 /\ ~Closing /\ ~Closing'
        /\ LastTaken' = LastTaken /\ LastSynced' = LastSynced
    BY Zenon DEF Closing, LastTaken, LastSynced
  <2>2. ThreadsInv'
    BY ZenonT(20), <2>1, ThreadsDistinct DEF ThreadsInv, CanRun
  <2>3. PipelineInv'
    BY ZenonT(20), <2>1 DEF PipelineInv
  <2>4. OpenLockInv'
    <3>1. \A c \in CPUs : ~(c < 0)
      BY ONLY SMT, NCPUAssumption DEF CPUs
    <3> QED
      BY Zenon, <2>1, <3>1 DEF OpenLockInv
  <2>5. HoldersInv'
    BY Zenon, <2>1 DEF HoldersInv, InTxg
  <2>6. RequestInv'
    <3>1. tx_quiesce_txg_waiting > tx_open_txg
      <4>1. /\ tx_open_txg < tx_quiesce_txg_waiting
            /\ tx_open_txg \in Nat /\ tx_quiesce_txg_waiting \in Nat
        BY Zenon DEF StateTypeOK
      <4> QED
        BY ONLY SMT, <4>1
    <3> QED
      BY Zenon, <2>1, <3>1 DEF RequestInv
  <2> QED
    BY Zenon, <2>2, <2>3, <2>4, <2>5, <2>6
<1>4. ASSUME QuiesceLockCpu PROVE Rest'
  <2> USE <1>4 DEF QuiesceLockCpu
  <2>1. ThreadsInv' /\ PipelineInv' /\ HoldersInv' /\ RequestInv'
    BY Zenon DEF InTxg, ThreadsInv, PipelineInv, HoldersInv, RequestInv, Closing,
       LastTaken, LastSynced
  <2>2. OpenLockInv'
    <3>1. \A t \in Txs : tx_pc[t] \in {"held", "delay"} => th[t].cpu # q_cpu
      BY ZenonT(20), ThreadsDistinct DEF OpenLockInv
    <3>2. \A c \in CPUs : c < q_cpu' => c < q_cpu \/ c = q_cpu
      BY DEF CPUs
    <3> QED
      BY Zenon, <3>1, <3>2 DEF OpenLockInv, CpuTypeOK
  <2> QED
    BY ZenonT(20), <2>1, <2>2
<1>5. ASSUME QuiesceAdvance PROVE Rest'
  <2> USE <1>5 DEF QuiesceAdvance
  <2>1. 0 \in CPUs /\ \A c \in CPUs : c >= 0 /\ c < NCPU
    BY NCPUAssumption DEF CPUs
  <2>2. \A c \in CPUs : tc_open_lock[c] = QuiesceThread
    BY Zenon, <2>1 DEF OpenLockInv
  <2>a. \A t \in Txs : tx_pc[t] \notin {"held", "delay"}
    BY Zenon, <2>2, ThreadsDistinct DEF OpenLockInv, CpuTypeOK
  <2>3. OpenLockInv'
    BY Zenon, <2>1, <2>2, <2>a DEF OpenLockInv
  <2>4. PipelineInv'
    BY InitTxgAssumption DEF PipelineInv, Closing, LastTaken, LastSynced, StateTypeOK
  <2>b. RequestInv'
    BY DEF RequestInv, StateTypeOK
  <2>5. HoldersInv'
    BY Zenon DEF HoldersInv, InTxg, PipelineInv, Closing
  <2>6. ThreadsInv'
    BY Zenon DEF ThreadsInv
  <2> QED
    BY Zenon, <2>3, <2>4, <2>5, <2>6, <2>b
<1>6. ASSUME QuiesceUnlockCpu PROVE Rest'
  <2> USE <1>6 DEF QuiesceUnlockCpu
  <2>1. ThreadsInv' /\ PipelineInv' /\ RequestInv'
    BY Zenon DEF ThreadsInv, PipelineInv, RequestInv, Closing, LastTaken, LastSynced
  <2>2. HoldersInv'
    BY DEF HoldersInv, InTxg, Closing, CpuTypeOK, CPUs
  <2>3. OpenLockInv'
    <3>1. \A t \in Txs : tx_pc[t] \in {"held", "delay"} => th[t].cpu # q_cpu
      BY ThreadsDistinct DEF OpenLockInv, CPUs
    <3>2. quiesce_pc' = "unlock" =>
            /\ q_cpu' \in CPUs
            /\ \A c \in CPUs : c >= q_cpu' => c >= q_cpu /\ c # q_cpu
      BY SMTT(20), NCPUAssumption DEF CPUs
    <3> QED
      BY Zenon, <3>1, <3>2 DEF OpenLockInv, CpuTypeOK
  <2> QED
    BY ZenonT(20), <2>1, <2>2, <2>3
<1>7. ASSUME QuiesceDrainCpu PROVE Rest'
  <2> USE <1>7 DEF QuiesceDrainCpu
  <2>1. ThreadsInv' /\ PipelineInv' /\ RequestInv' /\ OpenLockInv'
    BY ZenonT(20) DEF ThreadsInv, PipelineInv, RequestInv, OpenLockInv, Closing,
       LastTaken, LastSynced
  <2>2. HoldersInv'
    <3>1. \A t \in Txs : InTxg(t) /\ th[t].txg = q_txg => th[t].cpu # q_cpu
      BY ZenonT(20), DrainedCpu
    <3>2. \A t \in Txs : th[t].cpu >= q_cpu /\ th[t].cpu # q_cpu
                           => th[t].cpu >= q_cpu'
      BY DEF CpuTypeOK, CPUs
    <3> QED
      BY ZenonT(20), <3>1, <3>2 DEF HoldersInv, InTxg, Closing
  <2> QED
    BY ZenonT(20), <2>1, <2>2
<1>9. ASSUME QuiesceHandOff PROVE Rest'
  <2> USE <1>9 DEF QuiesceHandOff
  <2>1. ThreadsInv'
    BY Zenon, ThreadsDistinct DEF ThreadsInv
  <2>2. PipelineInv'
    BY InitTxgAssumption DEF PipelineInv, Closing, LastTaken, LastSynced,
       StateTypeOK
  <2>a. RequestInv'
    BY Zenon DEF RequestInv
  <2>3. OpenLockInv'
    BY Zenon DEF OpenLockInv
  <2>4. HoldersInv'
    BY SMTT(20), NCPUAssumption DEF HoldersInv, InTxg, Closing, CpuTypeOK, CPUs
  <2> QED
    BY Zenon, <2>1, <2>2, <2>3, <2>4, <2>a
<1> QED
  BY Zenon, <1>a, <1>b, <1>c, <1>d, <1>1, <1>2, <1>3, <1>4, <1>5, <1>6, <1>7, <1>9
     DEF IndInv, TypeOK, QuiesceNext

-----------------------------------------------------------------------------

(* The sync thread's steps.                                                *)
LEMMA SyncTypeOK ==
    ASSUME IndInv, SyncNext
    PROVE  TypeOK'
<1>i. /\ StateTypeOK /\ LockTypeOK /\ CpuTypeOK /\ CallbackTypeOK
      /\ ThreadTypeOK /\ ThreadsInv /\ PipelineInv /\ OpenLockInv
      /\ HoldersInv /\ HoldCountsExact /\ CallbacksInv /\ RequestInv
      /\ StopInv
  BY ZenonT(20) DEF IndInv, TypeOK
<1> USE <1>i
<1> USE DEF SyncNext
<1>1. StateTypeOK'
  <2>1. CASE SyncRaise
    BY ONLY <2>1, <1>i DEF SyncRaise, StateTypeOK, pipeline, life
  <2>2. CASE SyncExit
    BY ONLY <2>2, <1>i
       DEF SyncExit, StateTypeOK, ThreadsInv, pipeline, waiting
  <2>3. CASE SyncTake \/ SyncDone
    BY ONLY <2>3, <1>i DEF SyncTake, SyncDone, StateTypeOK, waiting, life
  <2>4. CASE SyncWaitMore \/ SyncPrompt
    BY ONLY ZenonT(20), <2>4, <1>i
       DEF SyncWaitMore, SyncPrompt, StateTypeOK, pipeline, waiting, life
  <2> QED
    BY ZenonT(20), <2>1, <2>2, <2>3, <2>4
<1>2. LockTypeOK'
  <2>1. SyncThread \in Threads
    BY ONLY Zenon DEF Threads
  <2> QED
    BY ZenonT(20), <2>1, CvTypes
       DEF LockTypeOK, SyncWaitMore, SyncPrompt, SyncRaise, SyncExit, SyncTake,
           SyncDone
<1>3. CpuTypeOK'
  BY ZenonT(20)
     DEF CpuTypeOK, SyncWaitMore, SyncPrompt, SyncRaise, SyncExit, SyncTake,
         SyncDone
<1>4. ThreadTypeOK'
  BY ZenonT(20)
     DEF ThreadTypeOK, SyncWaitMore, SyncPrompt, SyncRaise, SyncExit, SyncTake,
         SyncDone
<1>5. CallbackTypeOK'
  <2>1. CASE SyncDone
    <3>1. Slot(tx_syncing_txg) \in Slots
      BY ONLY Zenon, SlotFacts, <1>i DEF StateTypeOK
    <3>2. TxgDispatchCallbacks(tx_syncing_txg)
      BY ONLY ZenonT(20), <2>1 DEF SyncDone
    <3> QED
      BY ONLY <3>1, <3>2, <1>i
         DEF CallbackTypeOK, TxgDispatchCallbacks
  <2>2. CASE ~SyncDone
    BY ZenonT(20), <2>2
       DEF CallbackTypeOK, SyncWaitMore, SyncPrompt, SyncRaise, SyncExit,
           SyncTake
  <2> QED
    BY ZenonT(20), <2>1, <2>2
<1> QED
  BY ZenonT(20), <1>1, <1>2, <1>3, <1>4, <1>5 DEF TypeOK

(* The slot of the txg that has just synced holds callbacks of that txg    *)
(* only, and all of them: the dispatch is exact.                           *)
LEMMA DispatchExact ==
    ASSUME IndInv, SyncDone
    PROVE  CallbacksInv'
<1>i. /\ StateTypeOK /\ LockTypeOK /\ CpuTypeOK /\ CallbackTypeOK
      /\ ThreadTypeOK /\ ThreadsInv /\ PipelineInv /\ OpenLockInv
      /\ HoldersInv /\ HoldCountsExact /\ CallbacksInv /\ RequestInv
      /\ StopInv
  BY ZenonT(20) DEF IndInv, TypeOK
<1> USE <1>i
<1> DEFINE T == tx_syncing_txg
<1> USE DEF SyncDone, TxgDispatchCallbacks
<1>1. T \in Nat /\ T # 0 /\ T = LastSynced + 1 /\ tx_open_txg < T + TXG_SIZE
  <2>1. T # 0
    BY ONLY ZenonT(20), SyncDone, <1>i DEF SyncDone, ThreadsInv
  <2> QED
    BY ONLY <2>1, InitTxgAssumption, <1>i
       DEF PipelineInv, LastTaken, LastSynced, Closing, StateTypeOK, TXG_SIZE
<1>2. LastSynced' = T /\ tx_synced_txg' = T
  BY ZenonT(20), <1>1 DEF LastSynced
<1>3. \A c \in CPUs : \A cb \in tc_callbacks[c][Slot(T)] : cb.txg = T
  <2> SUFFICES ASSUME NEW c \in CPUs, NEW cb \in tc_callbacks[c][Slot(T)]
               PROVE  cb.txg = T
    BY Zenon
  <2>1. Slot(T) \in Slots
    BY Zenon, <1>1, SlotFacts
  <2>2. cb.txg \in Nat
    BY SMTT(20), <2>1 DEF CallbackTypeOK, Callback
  <2>3. Slot(cb.txg) = Slot(T) /\ LastSynced < cb.txg /\ cb.txg <= tx_open_txg
    BY Zenon, <2>1 DEF CallbacksInv
  <2>4. T <= cb.txg /\ cb.txg < T + TXG_SIZE
    BY <1>1, <2>2, <2>3, InitTxgAssumption
       DEF LastSynced, StateTypeOK, TXG_SIZE
  <2> QED
    BY ZenonT(20), <1>1, <2>2, <2>3, <2>4, SlotFacts
<1>4. \A cb \in cb_taskq' \cup cb_done' : cb.txg <= tx_synced_txg'
  <2>1. \A cb \in cb_taskq \cup cb_done : cb.txg <= tx_synced_txg
                                            /\ cb.txg \in Nat
    BY Zenon DEF CallbacksInv, CallbackTypeOK, Callback
  <2>2. tx_synced_txg <= T
    BY <1>1, InitTxgAssumption DEF LastSynced, StateTypeOK
  <2> QED
    BY <1>1, <1>2, <1>3, <2>1, <2>2 DEF StateTypeOK
<1>5. ASSUME NEW c \in CPUs, NEW g \in Slots, NEW cb \in tc_callbacks'[c][g]
      PROVE  /\ Slot(cb.txg) = g
             /\ T < cb.txg /\ cb.txg <= tx_open_txg
  <2>1. g # Slot(T) /\ cb \in tc_callbacks[c][g]
    BY Zenon, SlotFacts, <1>1 DEF CallbackTypeOK
  <2>2. Slot(cb.txg) = g /\ LastSynced < cb.txg /\ cb.txg <= tx_open_txg
    BY Zenon, <2>1 DEF CallbacksInv
  <2>3. cb.txg \in Nat /\ cb.txg # T
    BY <2>1, <2>2 DEF CallbackTypeOK, Callback
  <2> QED
    BY SMTT(20), <1>1, <2>2, <2>3, InitTxgAssumption DEF LastSynced, StateTypeOK
<1> QED
  BY ZenonT(20), <1>2, <1>4, <1>5 DEF IndInv, TypeOK, CallbacksInv

LEMMA SyncStep == ASSUME IndInv, SyncNext PROVE IndInv'
<1>i. /\ StateTypeOK /\ LockTypeOK /\ CpuTypeOK /\ CallbackTypeOK
      /\ ThreadTypeOK /\ ThreadsInv /\ PipelineInv /\ OpenLockInv
      /\ HoldersInv /\ HoldCountsExact /\ CallbacksInv /\ RequestInv
      /\ StopInv
  BY ZenonT(20) DEF IndInv, TypeOK
<1> USE <1>i
<1> USE DEF SyncNext
<1>1. TypeOK'
  BY ZenonT(20), SyncTypeOK
<1>2. /\ UNCHANGED <<tx_open_txg, holds, quiesce, waiters, stop>>
      /\ \A t \in Txs : InTxg(t)' = InTxg(t)
  BY ZenonT(20) DEF SyncWaitMore, SyncPrompt, SyncRaise, SyncExit, SyncTake,
     SyncDone, InTxg
<1>3. HoldCountsExact' /\ OpenLockInv' /\ HoldersInv'
  BY ZenonT(20), <1>2, HoldCountsFrame DEF OpenLockInv, HoldersInv, Closing
<1>4. CallbacksInv'
  <2>1. CASE SyncDone
    BY ZenonT(20), <2>1, DispatchExact
  <2>2. CASE ~SyncDone
    BY ZenonT(20), <1>2, <2>2
       DEF SyncWaitMore, SyncPrompt, SyncRaise, SyncExit, SyncTake,
           CallbacksInv, LastSynced
  <2> QED
    BY ZenonT(20), <2>1, <2>2
<1>5. StopInv'
  <2>1. CASE SyncDone
    <3>1. tx_synced_txg <= tx_synced_txg'
      BY <2>1, InitTxgAssumption
         DEF SyncDone, PipelineInv, ThreadsInv, LastSynced, StateTypeOK
    <3>2. \A c \in CPUs, g \in Slots : tc_callbacks'[c][g]
                                         \subseteq tc_callbacks[c][g]
      BY ZenonT(20), <2>1
         DEF SyncDone, TxgDispatchCallbacks, CallbackTypeOK
    <3>3. tx_synced_txg >= stop_txg => tx_synced_txg' >= stop_txg
      BY <1>1, <3>1 DEF TypeOK, StateTypeOK, ThreadTypeOK
    <3> QED
      BY ZenonT(20), <1>2, <3>2, <3>3 DEF StopInv
  <2>2. CASE ~SyncDone
    BY ZenonT(20), <1>2, <2>2
       DEF SyncWaitMore, SyncPrompt, SyncRaise, SyncExit, SyncTake, StopInv
  <2> QED
    BY ZenonT(20), <2>1, <2>2
<1>6. ThreadsInv'
  <2>1. CASE SyncWaitMore
    BY ZenonT(20), <1>2, <2>1, ThreadsDistinct DEF SyncWaitMore, ThreadsInv, CanRun
  <2>2. CASE SyncPrompt
    BY Zenon, <1>2, <2>2, ThreadsDistinct DEF SyncPrompt, ThreadsInv, CanRun
  <2>3. CASE SyncRaise
    BY ZenonT(20), <1>2, <2>3, ThreadsDistinct DEF SyncRaise, ThreadsInv
  <2>4. CASE SyncExit
    <3>1. /\ sync_pc \in {"more", "prompt"}
          /\ tx_sync_lock \in {SyncThread, NoThread}
          /\ tx_threads' = tx_threads - 1 /\ sync_pc' = "none"
          /\ UNCHANGED <<tx_syncing_txg, quiesce_pc, wait_pc>>
      BY ONLY ZenonT(20), <2>4 DEF SyncExit, CanRun, pipeline, quiesce, waiters
    <3>2. \A w \in Waiters : wait_pc[w] # "kick"
      BY ZenonT(20), <3>1, ThreadsDistinct DEF ThreadsInv
    <3> QED
      BY ONLY <3>1, <3>2, <1>i DEF ThreadsInv
  <2>5. CASE SyncTake
    BY ZenonT(20), <1>2, <2>5, ThreadsDistinct DEF SyncTake, ThreadsInv, CanRun
  <2>6. CASE SyncDone
    BY ZenonT(20), <1>2, <2>6, ThreadsDistinct DEF SyncDone, ThreadsInv
  <2> QED
    BY ZenonT(20), <2>1, <2>2, <2>3, <2>4, <2>5, <2>6
<1>7. PipelineInv'
  <2>1. CASE SyncTake
    <3>1. tx_syncing_txg = 0 /\ LastTaken = LastSynced
      BY ZenonT(20), <2>1 DEF SyncTake, ThreadsInv, LastTaken
    <3>2. LastSynced' = LastSynced /\ LastTaken' = LastTaken + 1
      BY ZenonT(20), <2>1, <3>1
         DEF SyncTake, PipelineInv, LastTaken, LastSynced
    <3> QED
      BY <1>2, <2>1, <3>1, <3>2, InitTxgAssumption
         DEF SyncTake, PipelineInv, LastSynced, Closing, StateTypeOK
  <2>2. CASE SyncDone
    <3>1. tx_syncing_txg # 0 /\ tx_syncing_txg = LastSynced + 1
      BY ZenonT(20), <2>2 DEF SyncDone, ThreadsInv, PipelineInv
    <3>2. LastSynced' = tx_syncing_txg /\ LastTaken' = LastTaken
      BY ZenonT(20), <2>2, <3>1 DEF SyncDone, LastTaken, LastSynced
    <3>3. tx_syncing_txg >= InitTxg
      BY <3>1, InitTxgAssumption DEF PipelineInv, LastSynced, StateTypeOK
    <3> QED
      BY ZenonT(20), <1>2, <2>2, <3>1, <3>2, <3>3
         DEF SyncDone, PipelineInv, Closing
  <2>3. CASE ~SyncDone /\ ~SyncTake
    BY ZenonT(20), <1>2, <2>3
       DEF SyncWaitMore, SyncPrompt, SyncRaise, SyncExit, PipelineInv,
           LastTaken, LastSynced, Closing
  <2> QED
    BY ZenonT(20), <2>1, <2>2, <2>3
<1>8. RequestInv'
  <2>1. CASE SyncRaise
    <3>1. \A w \in Waiters : wait_pc[w] # "kick"
      BY ZenonT(20), <2>1, ThreadsDistinct DEF SyncRaise, ThreadsInv
    <3>2. quiesce_pc # "lock"
      <4>1. sync_pc = "raise"
        BY ONLY ZenonT(20), <2>1 DEF SyncRaise
      <4> QED
        BY ONLY <4>1, <1>i DEF RequestInv, StateTypeOK
    <3> QED
      BY Zenon, <1>2, <2>1, <3>1, <3>2 DEF SyncRaise, RequestInv
  <2>2. CASE SyncPrompt
    BY <1>2, <2>2 DEF SyncPrompt, RequestInv, StateTypeOK
  <2>3. CASE ~SyncRaise /\ ~SyncPrompt
    BY ZenonT(20), <1>2, <2>3
       DEF SyncWaitMore, SyncExit, SyncTake, SyncDone, RequestInv
  <2> QED
    BY ZenonT(20), <2>1, <2>2, <2>3
<1> QED
  BY ZenonT(20), <1>1, <1>3, <1>4, <1>5, <1>6, <1>7, <1>8
     DEF IndInv, TypeOK

-----------------------------------------------------------------------------

(* The steps of the other threads leave the pipeline, the holds and the    *)
(* quiesce thread alone.                                                   *)
LEMMA WaiterStep ==
    ASSUME IndInv, NEW w \in Waiters, WaiterNext(w)
    PROVE  IndInv'
<1>i. /\ StateTypeOK /\ LockTypeOK /\ CpuTypeOK /\ CallbackTypeOK
      /\ ThreadTypeOK /\ ThreadsInv /\ PipelineInv /\ OpenLockInv
      /\ HoldersInv /\ HoldCountsExact /\ CallbacksInv /\ RequestInv
      /\ StopInv
  BY ZenonT(20) DEF IndInv, TypeOK
<1> USE <1>i
<1> DEFINE Call == \/ \E arg \in {0} \cup InitTxg .. tx_open_txg :
                         TxgWaitSynced(w, arg)
                   \/ \E arg \in {0} \cup InitTxg .. (tx_open_txg + 1) :
                         TxgWaitOpen(w, arg)
           Loop == WaitSyncedLoop(w) \/ WaitOpenLoop(w)
<1>0. Call \/ Loop \/ TxgKick(w) \/ TxgKickRaise(w)
  BY Zenon DEF WaiterNext
<1>1. /\ UNCHANGED <<pipeline, life, holds, cbs, sync_pc, quiesce, stop>>
      /\ \A t \in Txs : InTxg(t)' = InTxg(t)
  BY ZenonT(20), <1>0 DEF TxgWaitSynced, WaitSyncedLoop, TxgWaitOpen, WaitOpenLoop,
     TxgKick, TxgKickRaise, InTxg
<1>2. LockTypeOK'
  <2>1. w \in Threads
    BY Zenon DEF Threads
  <2> QED
    BY ZenonT(20), <1>0, <2>1, CvTypes
       DEF LockTypeOK, TxgWaitSynced, WaitSyncedLoop, TxgWaitOpen,
           WaitOpenLoop, TxgKick, TxgKickRaise
<1>3. CpuTypeOK' /\ CallbackTypeOK'
  BY Zenon, <1>1 DEF CpuTypeOK, CallbackTypeOK
<1>4. HoldCountsExact'
  BY Zenon, <1>1, HoldCountsFrame
<1>5. OpenLockInv' /\ HoldersInv' /\ CallbacksInv' /\ PipelineInv'
  BY ZenonT(20), <1>1 DEF OpenLockInv, HoldersInv, Closing, CallbacksInv, LastSynced,
     PipelineInv, LastTaken
<1> DEFINE Rest == StateTypeOK /\ ThreadTypeOK /\ ThreadsInv /\ RequestInv
                     /\ StopInv
<1>6. ASSUME Call PROVE Rest'
  <2> DEFINE Awaits(txg) ==
          /\ PoolInUse /\ wait_pc[w] = "idle" /\ tx_sync_lock = NoThread
          /\ \/ /\ tx_sync_txg_waiting' = Max2(tx_sync_txg_waiting, txg)
                /\ UNCHANGED tx_quiesce_txg_waiting
                /\ wait_pc' = [wait_pc EXCEPT ![w] = "synced"]
             \/ /\ tx_quiesce_txg_waiting' = Max2(tx_quiesce_txg_waiting, txg)
                /\ UNCHANGED tx_sync_txg_waiting
                /\ wait_pc' = [wait_pc EXCEPT ![w] = "open"]
          /\ wait_txg' = [wait_txg EXCEPT ![w] = txg]
          /\ tx_sync_lock' = w
  <2>1. PICK txg \in Nat : Awaits(txg)
    <3>1. /\ \A arg \in {0} \cup InitTxg .. tx_open_txg : arg \in Nat
          /\ \A arg \in {0} \cup InitTxg .. (tx_open_txg + 1) : arg \in Nat
          /\ tx_open_txg + TXG_DEFER_SIZE \in Nat /\ tx_open_txg + 1 \in Nat
      BY ONLY InitTxgAssumption, <1>i DEF StateTypeOK, TXG_DEFER_SIZE
    <3>2. ASSUME NEW arg \in {0} \cup InitTxg .. tx_open_txg,
                 TxgWaitSynced(w, arg)
          PROVE  \E txg \in Nat : Awaits(txg)
      <4> DEFINE txg == IF arg = 0 THEN tx_open_txg + TXG_DEFER_SIZE ELSE arg
      <4>1. txg \in Nat
        BY ONLY ZenonT(20), <3>1
      <4>2. Awaits(txg)
        BY ONLY ZenonT(20), <3>2 DEF TxgWaitSynced
      <4> QED
        BY ONLY ZenonT(20), <4>1, <4>2
    <3>3. ASSUME NEW arg \in {0} \cup InitTxg .. (tx_open_txg + 1),
                 TxgWaitOpen(w, arg)
          PROVE  \E txg \in Nat : Awaits(txg)
      <4> DEFINE txg == IF arg = 0 THEN tx_open_txg + 1 ELSE arg
      <4>1. txg \in Nat
        BY ONLY ZenonT(20), <3>1
      <4>2. Awaits(txg)
        BY ONLY ZenonT(20), <3>3 DEF TxgWaitOpen
      <4> QED
        BY ONLY ZenonT(20), <4>1, <4>2
    <3> QED
      BY ONLY ZenonT(20), <1>6, <3>2, <3>3
  <2>2. StateTypeOK' /\ ThreadTypeOK'
    BY Zenon, <1>1, <2>1 DEF StateTypeOK, ThreadTypeOK, Max2
  <2>3. sync_pc # "raise" /\ \A x \in Waiters : wait_pc[x] # "kick"
    BY Zenon, <2>1, ThreadsDistinct DEF ThreadsInv
  <2>4. ThreadsInv' /\ StopInv'
    BY ZenonT(20), <1>1, <2>1, <2>3 DEF ThreadsInv, StopInv, PoolInUse, ThreadTypeOK
  <2>5. RequestInv'
    <3>1. tx_quiesce_txg_waiting' >= tx_quiesce_txg_waiting
      BY SMTT(20), <2>1 DEF Max2, StateTypeOK
    <3> QED
      BY ONLY <1>1, <2>1, <2>2, <2>3, <3>1, <1>i
         DEF RequestInv, ThreadTypeOK, StateTypeOK, pipeline, quiesce
  <2> QED
    BY Zenon, <2>2, <2>4, <2>5
<1>7. ASSUME Loop PROVE Rest'
  <2>1. /\ UNCHANGED waiting
        /\ UNCHANGED waiters \/ WaitReturn(w)
        /\ tx_sync_lock \in {w, NoThread} /\ tx_sync_lock' = NoThread
        /\ wait_pc[w] \in {"synced", "open"}
    BY ZenonT(20), <1>7 DEF WaitSyncedLoop, WaitOpenLoop, CanRun
  <2>2. sync_pc # "raise" /\ \A x \in Waiters : wait_pc[x] # "kick"
    BY ZenonT(20), <2>1, ThreadsDistinct DEF ThreadsInv
  <2>3. \A x \in Waiters : wait_pc'[x] \in {wait_pc[x], "idle"}
    BY Zenon, <2>1 DEF WaitReturn, ThreadTypeOK
  <2>4. StateTypeOK'
    BY ZenonT(20), <1>1, <2>1 DEF StateTypeOK
  <2>5. ThreadTypeOK'
    BY <1>1, <2>1 DEF WaitReturn, ThreadTypeOK
  <2>6. ThreadsInv' /\ RequestInv' /\ StopInv'
    BY ZenonT(20), <1>1, <2>1, <2>2, <2>3 DEF ThreadsInv, RequestInv, StopInv
  <2> QED
    BY ZenonT(20), <2>4, <2>5, <2>6
<1>8. ASSUME TxgKick(w) PROVE Rest'
  <2>1. sync_pc # "raise" /\ \A x \in Waiters : wait_pc[x] # "kick"
    BY ZenonT(20), <1>8, ThreadsDistinct DEF ThreadsInv, TxgKick
  <2> QED
    BY ZenonT(20), <1>1, <1>8, <2>1
       DEF TxgKick, StateTypeOK, ThreadTypeOK, ThreadsInv, RequestInv,
           StopInv, PoolInUse
<1>9. ASSUME TxgKickRaise(w) PROVE Rest'
  <2>1. tx_sync_lock = w /\ quiesce_pc # "lock"
    BY <1>9 DEF ThreadsInv, RequestInv, TxgKickRaise, StateTypeOK
  <2>2. sync_pc # "raise" /\ \A x \in Waiters \ {w} : wait_pc[x] # "kick"
    BY ZenonT(20), <2>1, ThreadsDistinct DEF ThreadsInv
  <2> QED
    <3>1. /\ tx_quiesce_txg_waiting' = tx_open_txg + 1
          /\ UNCHANGED <<tx_sync_txg_waiting, wait_txg>>
          /\ wait_pc' = [wait_pc EXCEPT ![w] = "idle"]
          /\ wait_pc[w] = "kick" /\ tx_sync_lock' = NoThread
      BY ONLY ZenonT(20), <1>9 DEF TxgKickRaise
    <3>2. StateTypeOK'
      BY ONLY <1>1, <3>1, <1>i DEF StateTypeOK, pipeline, life
    <3>3. ThreadTypeOK'
      BY ZenonT(20), <1>1, <3>1 DEF ThreadTypeOK
    <3>4. ThreadsInv' /\ RequestInv' /\ StopInv'
      BY ZenonT(20), <1>1, <2>1, <2>2, <3>1
         DEF ThreadsInv, RequestInv, StopInv, ThreadTypeOK
    <3> QED
      BY ZenonT(20), <3>2, <3>3, <3>4
<1> QED
  BY Zenon, <1>0, <1>2, <1>3, <1>4, <1>5, <1>6, <1>7, <1>8, <1>9
     DEF IndInv, TypeOK

LEMMA StopStep == ASSUME IndInv, StopNext PROVE IndInv'
<1>i. /\ StateTypeOK /\ LockTypeOK /\ CpuTypeOK /\ CallbackTypeOK
      /\ ThreadTypeOK /\ ThreadsInv /\ PipelineInv /\ OpenLockInv
      /\ HoldersInv /\ HoldCountsExact /\ CallbacksInv /\ RequestInv
      /\ StopInv
  BY ZenonT(20) DEF IndInv, TypeOK
<1> USE <1>i
<1> USE DEF StopNext
<1>1. /\ UNCHANGED <<pipeline, tx_quiesce_txg_waiting, tx_threads, holds, cbs,
                     sync_pc, quiesce, waiters>>
      /\ \A t \in Txs : InTxg(t)' = InTxg(t)
  BY ZenonT(20) DEF TxgSyncStop, StopWaitLoop, StopExiting, StopJoin, InTxg
<1>2. StateTypeOK'
  <2>1. /\ tx_exiting' \in {tx_exiting, 0, 1}
        /\ \/ UNCHANGED tx_sync_txg_waiting
           \/ tx_sync_txg_waiting' = Max2(tx_sync_txg_waiting,
                                          tx_open_txg + TXG_DEFER_SIZE)
    BY ZenonT(20) DEF TxgSyncStop, StopWaitLoop, StopExiting, StopJoin
  <2> QED
    BY ONLY <1>1, <2>1, <1>i
       DEF StateTypeOK, Max2, TXG_DEFER_SIZE, pipeline
<1>3. LockTypeOK'
  <2>1. StopThread \in Threads
    BY ONLY Zenon DEF Threads
  <2> QED
    BY ZenonT(20), <2>1, CvTypes
       DEF LockTypeOK, TxgSyncStop, StopWaitLoop, StopExiting, StopJoin
<1>4. CpuTypeOK' /\ CallbackTypeOK'
  BY ZenonT(20), <1>1 DEF CpuTypeOK, CallbackTypeOK
<1>5. ThreadTypeOK'
  <2>1. /\ stop_txg' = stop_txg \/ stop_txg' = tx_open_txg + TXG_DEFER_SIZE
        /\ stop_pc' \in {stop_pc, "wait", "synced", "join", "done"}
    BY ZenonT(20) DEF TxgSyncStop, StopWaitLoop, StopExiting, StopJoin
  <2> QED
    BY ONLY <1>1, <2>1, <1>i
       DEF ThreadTypeOK, StateTypeOK, TXG_DEFER_SIZE, quiesce, waiters
<1>6. HoldCountsExact' /\ OpenLockInv' /\ HoldersInv'
  BY ZenonT(20), <1>1, HoldCountsFrame DEF OpenLockInv, HoldersInv, Closing
<1>7. CallbacksInv' /\ PipelineInv' /\ RequestInv'
  BY ZenonT(20), <1>1
     DEF CallbacksInv, LastSynced, PipelineInv, LastTaken, Closing, RequestInv
<1>8. ThreadsInv'
  BY ZenonT(20), <1>1, ThreadsDistinct
     DEF ThreadsInv, CanRun, ThreadTypeOK, TxgSyncStop, StopWaitLoop,
         StopExiting, StopJoin
<1>9. StopInv'
  <2>1. CASE TxgSyncStop
    <3>1. \A c \in CPUs, g \in Slots : \A cb \in tc_callbacks[c][g] :
             cb.txg \in Nat /\ cb.txg <= tx_open_txg
      BY ONLY <1>i
         DEF CallbacksInv, CallbackTypeOK, Callback
    <3>2. \A n \in Nat : n <= tx_open_txg => n <= stop_txg'
      <4>1. stop_txg' = tx_open_txg + TXG_DEFER_SIZE
        BY ONLY ZenonT(20), <2>1 DEF TxgSyncStop
      <4> QED
        BY ONLY <4>1, <1>i DEF StateTypeOK, TXG_DEFER_SIZE
    <3>3. /\ \A t \in Txs : ~InTxg(t)
          /\ \A w \in Waiters : wait_pc[w] = "idle"
          /\ stop_pc' = "wait"
      BY ONLY ZenonT(20), <2>1 DEF TxgSyncStop, InTxg
    <3> QED
      BY ZenonT(20), <1>1, <3>1, <3>2, <3>3 DEF StopInv
  <2>2. CASE StopWaitLoop
    <3>1. /\ stop_pc = "wait" /\ UNCHANGED stop_txg
          /\ stop_pc' # "wait" => ~(tx_synced_txg < stop_txg)
      BY ONLY ZenonT(20), <2>2 DEF StopWaitLoop
    <3>2. ~(tx_synced_txg < stop_txg) => tx_synced_txg >= stop_txg
      BY ONLY <1>i DEF StateTypeOK, ThreadTypeOK
    <3> QED
      BY ZenonT(20), <1>1, <3>1, <3>2 DEF StopInv
  <2>3. CASE StopExiting \/ StopJoin
    BY ZenonT(20), <1>1, <2>3 DEF StopInv, StopExiting, StopJoin
  <2> QED
    BY ZenonT(20), <2>1, <2>2, <2>3
<1> QED
  BY ZenonT(20), <1>2, <1>3, <1>4, <1>5, <1>6, <1>7, <1>8, <1>9
     DEF IndInv, TypeOK

LEMMA OtherStep ==
    ASSUME IndInv, TxgSyncStart \/ TxgDoCallbacks \/ SpuriousWakeup
    PROVE  IndInv'
<1>i. /\ StateTypeOK /\ LockTypeOK /\ CpuTypeOK /\ CallbackTypeOK
      /\ ThreadTypeOK /\ ThreadsInv /\ PipelineInv /\ OpenLockInv
      /\ HoldersInv /\ HoldCountsExact /\ CallbacksInv /\ RequestInv
      /\ StopInv
  BY ZenonT(20) DEF IndInv, TypeOK
<1> USE <1>i
<1>1. /\ UNCHANGED <<pipeline, waiting, tx_exiting, tx_sync_lock, holds,
                     tc_callbacks, q_txg, q_cpu, waiters, stop>>
      /\ \A t \in Txs : InTxg(t)' = InTxg(t)
  BY ZenonT(20) DEF TxgSyncStart, TxgDoCallbacks, SpuriousWakeup, InTxg
<1>2. StateTypeOK'
  <2>1. tx_threads' \in {tx_threads, 2}
    BY ZenonT(20) DEF TxgSyncStart, TxgDoCallbacks, SpuriousWakeup
  <2> QED
    BY ONLY <1>1, <2>1, <1>i DEF StateTypeOK, pipeline, waiting
<1>3. CpuTypeOK' /\ ThreadTypeOK'
  <2>1. sync_pc' \in {sync_pc, "more"} /\ quiesce_pc' \in {quiesce_pc, "more"}
    BY ZenonT(20) DEF TxgSyncStart, TxgDoCallbacks, SpuriousWakeup
  <2> QED
    BY ZenonT(20), <1>1, <2>1 DEF CpuTypeOK, ThreadTypeOK
<1>4. CallbackTypeOK'
  BY ZenonT(20)
     DEF CallbackTypeOK, TxgSyncStart, TxgDoCallbacks, SpuriousWakeup
<1>5. LockTypeOK'
  <2>1. CASE SpuriousWakeup
    BY ONLY Zenon, <2>1, <1>i DEF LockTypeOK, SpuriousWakeup
  <2>2. CASE TxgSyncStart \/ TxgDoCallbacks
    BY ZenonT(20), <2>2 DEF LockTypeOK, TxgSyncStart, TxgDoCallbacks
  <2> QED
    BY ZenonT(20), <2>1, <2>2
<1>6. HoldCountsExact'
  BY ZenonT(20), <1>1, HoldCountsFrame
<1>7. OpenLockInv' /\ HoldersInv' /\ PipelineInv'
  BY ZenonT(20), <1>1
     DEF OpenLockInv, HoldersInv, Closing, PipelineInv, LastTaken, LastSynced,
         TxgSyncStart, TxgDoCallbacks, SpuriousWakeup
<1>8. CallbacksInv'
  BY ZenonT(20), <1>1
     DEF CallbacksInv, LastSynced, TxgSyncStart, TxgDoCallbacks, SpuriousWakeup
<1>9. ThreadsInv'
  <2>1. CASE TxgSyncStart
    BY ONLY <2>1, <1>i
       DEF TxgSyncStart, ThreadsInv, pipeline, waiters
  <2>2. CASE ~TxgSyncStart
    BY ZenonT(20), <2>2 DEF ThreadsInv, TxgDoCallbacks, SpuriousWakeup
  <2> QED
    BY ZenonT(20), <2>1, <2>2
<1>10. RequestInv' /\ StopInv'
  BY ZenonT(20), <1>1
     DEF RequestInv, StopInv, TxgSyncStart, TxgDoCallbacks, SpuriousWakeup
<1> QED
  BY ZenonT(20), <1>2, <1>3, <1>4, <1>5, <1>6, <1>7, <1>8, <1>9, <1>10
     DEF IndInv, TypeOK

LEMMA StutterStep == ASSUME IndInv, UNCHANGED vars PROVE IndInv'
<1>i. /\ StateTypeOK /\ LockTypeOK /\ CpuTypeOK /\ CallbackTypeOK
      /\ ThreadTypeOK /\ ThreadsInv /\ PipelineInv /\ OpenLockInv
      /\ HoldersInv /\ HoldCountsExact /\ CallbacksInv /\ RequestInv
      /\ StopInv
  BY ZenonT(20) DEF IndInv, TypeOK
<1> USE <1>i
<1> USE DEF vars
<1>1. TypeOK'
  BY DEF TypeOK, StateTypeOK, LockTypeOK, CpuTypeOK, CallbackTypeOK, ThreadTypeOK
<1>2. HoldCountsExact'
  BY Zenon, HoldCountsFrame DEF InTxg
<1> QED
  BY ZenonT(20), <1>1, <1>2 DEF IndInv, TypeOK, ThreadsInv, PipelineInv, OpenLockInv, HoldersInv, Closing,
     CallbacksInv, RequestInv, StopInv, InTxg, LastTaken, LastSynced

LEMMA IndInvStep == IndInv /\ [Next]_vars => IndInv'
<1> SUFFICES ASSUME IndInv, [Next]_vars PROVE IndInv'
  BY Zenon 
<1>1. ASSUME NEW t \in Txs, TxNext(t) PROVE IndInv'
  BY Zenon, <1>1, HoldOpenStep, DelayStep, ReleToQuiesceStep, RegisterCallbacksStep,
     ReleToSyncStep DEF TxNext
<1> QED
  BY Zenon, <1>1, QuiesceStep, SyncStep, WaiterStep, StopStep, OtherStep, StutterStep
     DEF Next

LEMMA Invariance == Spec => []IndInv
<1> QED
  BY InitIndInv, IndInvStep, PTL DEF Spec

-----------------------------------------------------------------------------
(* The theorems.                                                           *)

(* Every variable of the txg pipeline keeps its type; in particular         *)
(* txg_rele_to_sync never takes a tc_count below zero.                      *)
THEOREM TypeCorrect == Spec => []TypeOK
<1>1. IndInv => TypeOK
  BY Zenon DEF IndInv
<1> QED
  BY <1>1, Invariance, PTL

(* The txgs are quiesced and synced one by one, in order, and at most three *)
(* are active at a time.                                                    *)
THEOREM PipelineOrdered == Spec => []PipelineInOrder
<1>1. IndInv => PipelineInOrder
  BY InitTxgAssumption
     DEF IndInv, TypeOK, PipelineInv, PipelineInOrder, LastTaken, LastSynced, Closing,
         StateTypeOK, TXG_SIZE
<1> QED
  BY <1>1, Invariance, PTL

(* Once txg_quiesce has handed a txg to the sync thread, no transaction is  *)
(* left in it and none can join it.                                         *)
THEOREM QuiescedStable == Spec => []QuiescedTxgIsStable
<1>1. ASSUME IndInv PROVE QuiescedTxgIsStable
  <2>1. StateTypeOK /\ CpuTypeOK /\ PipelineInv /\ HoldersInv
    BY Zenon, <1>1 DEF IndInv, TypeOK
  <2> SUFFICES ASSUME NEW t \in Txs, InTxg(t)
               PROVE  /\ th[t].txg > LastTaken /\ th[t].txg > tx_quiesced_txg
                      /\ th[t].txg <= tx_open_txg
    BY Zenon DEF QuiescedTxgIsStable
  <2>2. LastTaken \in Nat /\ th[t].txg \in Nat /\ th[t].txg > LastTaken
    BY Zenon, <2>1, PipelineFacts, HoldersFacts
  <2>3. \/ th[t].txg = LastTaken + 2 /\ tx_open_txg = LastTaken + 2
        \/ th[t].txg = LastTaken + 1 /\ tx_open_txg \in {LastTaken + 1, LastTaken + 2}
             /\ tx_quiesced_txg = 0
    BY Zenon, <2>1 DEF PipelineInv, HoldersInv, Closing
  <2>4. tx_quiesced_txg = 0 \/ tx_quiesced_txg = LastTaken + 1
    BY Zenon, <2>1 DEF PipelineInv
  <2> QED
    BY ONLY SMT, <2>2, <2>3, <2>4
<1> QED
  BY <1>1, Invariance, PTL

(* tc_count is, in every slot of every cpu, the number of transactions that *)
(* entered there: reusing a slot for every fourth txg mixes nothing up.     *)
THEOREM HoldCountsCorrect == Spec => []HoldCountsExact
<1>1. IndInv => HoldCountsExact
  BY Zenon DEF IndInv
<1> QED
  BY <1>1, Invariance, PTL

(* Commit callbacks are dispatched when, and only when, their txg is synced.*)
THEOREM CallbacksCorrect == Spec => []CallbacksFollowSync
<1>1. IndInv => CallbacksFollowSync
  <2> SUFFICES ASSUME IndInv,
                      NEW c \in CPUs, NEW g \in Slots,
                      NEW cb \in tc_callbacks[c][g]
               PROVE  cb.txg > tx_synced_txg
    BY Zenon DEF IndInv, TypeOK, CallbacksInv, CallbacksFollowSync
  <2>1. cb.txg \in Nat /\ LastSynced < cb.txg
    BY DEF IndInv, TypeOK, CallbacksInv, CallbackTypeOK, Callback
  <2>2. tx_synced_txg \in Nat /\ tx_synced_txg <= LastSynced /\ LastSynced \in Nat
    BY ZenonT(20), PipelineFacts DEF IndInv, TypeOK, StateTypeOK
  <2> QED
    BY ONLY <2>1, <2>2
<1> QED
  BY <1>1, Invariance, PTL

(* The unprotected double reads of tx_open_txg in txg_kick and in the sync  *)
(* thread always see the same value twice.                                  *)
THEOREM OpenReadsAgree == Spec => []OpenTxgReadsAgree
<1>1. IndInv => OpenTxgReadsAgree
  BY DEF IndInv, TypeOK, RequestInv, OpenTxgReadsAgree, StateTypeOK
<1> QED
  BY <1>1, Invariance, PTL

(* When txg_sync_stop has waited, nothing is left unsynced: no transaction, *)
(* no callback.                                                             *)
THEOREM StopSafe == Spec => []StopLosesNothing
<1>1. IndInv => StopLosesNothing
  <2> SUFFICES ASSUME IndInv, stop_pc \in {"synced", "join", "done"},
                      NEW c \in CPUs, NEW g \in Slots,
                      NEW cb \in tc_callbacks[c][g]
               PROVE  FALSE
    BY ZenonT(20) DEF IndInv, TypeOK, StopInv, StopLosesNothing
  <2>1. cb.txg \in Nat /\ LastSynced < cb.txg /\ cb.txg <= stop_txg
    BY DEF IndInv, TypeOK, CallbacksInv, CallbackTypeOK, Callback, StopInv
  <2>2. tx_synced_txg >= stop_txg
    BY Zenon DEF IndInv, TypeOK, StopInv
  <2> QED
    BY <2>1, <2>2, InitTxgAssumption DEF IndInv, TypeOK, LastSynced, StateTypeOK, ThreadTypeOK
<1> QED
  BY <1>1, Invariance, PTL

(* Only the quiesce thread moves the open txg.                             *)
LEMMA OnlyAdvanceMovesOpen ==
    ASSUME Next, tx_open_txg' # tx_open_txg
    PROVE  QuiesceAdvance
<1>1. ASSUME NEW t \in Txs, TxNext(t) PROVE tx_open_txg' = tx_open_txg
  BY ZenonT(20), <1>1 DEF TxNext, TxgHoldOpen, TxgDelayWait, TxgDelayDone,
     TxgReleToQuiesce, TxgRegisterCallbacks, TxgReleToSync
<1>2. ASSUME NEW w \in Waiters, WaiterNext(w)
      PROVE  tx_open_txg' = tx_open_txg
  BY ZenonT(20), <1>2 DEF WaiterNext, TxgWaitSynced, WaitSyncedLoop, TxgWaitOpen,
     WaitOpenLoop, TxgKick, TxgKickRaise
<1>3. ASSUME SyncNext \/ StopNext \/ TxgSyncStart \/ TxgDoCallbacks
               \/ SpuriousWakeup
      PROVE  tx_open_txg' = tx_open_txg
  BY ZenonT(20), <1>3 DEF SyncNext, SyncWaitMore, SyncPrompt, SyncRaise, SyncExit,
     SyncTake, SyncDone, StopNext, TxgSyncStop, StopWaitLoop, StopExiting,
     StopJoin, TxgSyncStart, TxgDoCallbacks, SpuriousWakeup
<1>4. ASSUME QuiesceNext PROVE QuiesceAdvance
  BY ZenonT(20), <1>4 DEF QuiesceNext, QuiesceWaitMore, QuiesceExit, QuiesceStart,
     QuiesceLockCpu, QuiesceUnlockCpu, QuiesceDrainCpu, QuiesceDrainWait,
     QuiesceHandOff
<1> QED
  BY Zenon, <1>1, <1>2, <1>3, <1>4 DEF Next

(* ... and by then every tc_open_lock is its own.                          *)
LEMMA NobodyEntering ==
    ASSUME IndInv, QuiesceAdvance
    PROVE  \A t \in Txs : tx_pc[t] \notin {"held", "delay"}
<1>i. /\ StateTypeOK /\ LockTypeOK /\ CpuTypeOK /\ CallbackTypeOK
      /\ ThreadTypeOK /\ ThreadsInv /\ PipelineInv /\ OpenLockInv
      /\ HoldersInv /\ HoldCountsExact /\ CallbacksInv /\ RequestInv
      /\ StopInv
  BY ZenonT(20) DEF IndInv, TypeOK
<1> USE <1>i
<1>1. \A c \in CPUs : c < NCPU
  BY NCPUAssumption DEF CPUs
<1>2. \A c \in CPUs : tc_open_lock[c] = QuiesceThread
  BY ZenonT(20), <1>1 DEF OpenLockInv, QuiesceAdvance
<1> QED
  BY Zenon, <1>2, ThreadsDistinct DEF OpenLockInv, CpuTypeOK

(* tx_open_txg grows by one at a time, and never while a transaction is     *)
(* between txg_hold_open and txg_rele_to_quiesce.                           *)
THEOREM OpenTxgMoves == Spec => OpenTxgSteps
<1>1. IndInv /\ [Next]_vars => [OpenTxgStep]_vars
  <2> SUFFICES ASSUME IndInv, Next, tx_open_txg' # tx_open_txg
               PROVE  OpenTxgStep
    BY Zenon DEF OpenTxgStep, vars
  <2>1. QuiesceAdvance
    BY ZenonT(20), OnlyAdvanceMovesOpen
  <2> QED
    BY Zenon, <2>1, NobodyEntering DEF OpenTxgStep, QuiesceAdvance
<1> QED
  BY <1>1, Invariance, PTL DEF Spec, OpenTxgSteps

(* A waiter leaves txg_wait_synced only through its own loop test.         *)
LEMMA WaitSyncedReturnTest ==
    ASSUME IndInv, Next, NEW w \in Waiters,
           wait_pc[w] = "synced", wait_pc'[w] = "idle"
    PROVE  tx_synced_txg >= wait_txg[w]
<1>i. /\ StateTypeOK /\ LockTypeOK /\ CpuTypeOK /\ CallbackTypeOK
      /\ ThreadTypeOK /\ ThreadsInv /\ PipelineInv /\ OpenLockInv
      /\ HoldersInv /\ HoldCountsExact /\ CallbacksInv /\ RequestInv
      /\ StopInv
  BY ZenonT(20) DEF IndInv, TypeOK
<1> USE <1>i
<1>1. ASSUME NEW t \in Txs, TxNext(t) PROVE wait_pc' = wait_pc
  BY ZenonT(20), <1>1 DEF TxNext, TxgHoldOpen, TxgDelayWait, TxgDelayDone,
     TxgReleToQuiesce, TxgRegisterCallbacks, TxgReleToSync
<1>2. ASSUME QuiesceNext \/ SyncNext \/ StopNext \/ TxgSyncStart
               \/ TxgDoCallbacks \/ SpuriousWakeup
      PROVE  wait_pc' = wait_pc
  BY ZenonT(20), <1>2 DEF QuiesceNext, QuiesceWaitMore, QuiesceExit, QuiesceStart,
     QuiesceLockCpu, QuiesceAdvance, QuiesceUnlockCpu, QuiesceDrainCpu,
     QuiesceDrainWait, QuiesceHandOff,
     SyncNext, SyncWaitMore, SyncPrompt, SyncRaise, SyncExit,
     SyncTake, SyncDone, StopNext, TxgSyncStop, StopWaitLoop, StopExiting,
     StopJoin, TxgSyncStart, TxgDoCallbacks, SpuriousWakeup
<1>3. PICK x \in Waiters : WaiterNext(x)
  BY Zenon, <1>1, <1>2 DEF Next
<1>4. x = w /\ WaitSyncedLoop(w)
  BY ZenonT(20), <1>3 DEF WaiterNext, TxgWaitSynced, WaitSyncedLoop, TxgWaitOpen,
     WaitOpenLoop, TxgKick, TxgKickRaise, WaitReturn, ThreadTypeOK
<1> QED
  BY <1>4 DEF WaitSyncedLoop, StateTypeOK, ThreadTypeOK

(* When txg_wait_synced returns, its txg is on disk and closed for good.   *)
THEOREM WaitSyncedCorrect == Spec => WaitSyncedReturns
<1>1. IndInv /\ [Next]_vars => [WaitSyncedReturn]_vars
  <2> SUFFICES ASSUME IndInv, Next, NEW w \in Waiters,
                      wait_pc[w] = "synced", wait_pc'[w] = "idle"
               PROVE  /\ wait_txg[w] <= tx_synced_txg
                      /\ wait_txg[w] < tx_open_txg
                      /\ \A t \in Txs : InTxg(t) => th[t].txg > wait_txg[w]
    BY Zenon DEF WaitSyncedReturn
  <2>1. wait_txg[w] \in Nat /\ wait_txg[w] <= tx_synced_txg
    BY ZenonT(20), WaitSyncedReturnTest DEF IndInv, TypeOK, StateTypeOK, ThreadTypeOK
  <2>2. StateTypeOK /\ CpuTypeOK /\ PipelineInv /\ HoldersInv
    BY ZenonT(20) DEF IndInv, TypeOK
  <2>3. /\ tx_synced_txg \in Nat /\ tx_open_txg \in Nat
        /\ LastSynced \in Nat /\ LastTaken \in Nat
        /\ tx_synced_txg <= LastSynced /\ LastSynced <= LastTaken
        /\ LastTaken < tx_open_txg
    BY ONLY ZenonT(20), <2>2, PipelineFacts DEF StateTypeOK
  <2>4. \A t \in Txs : InTxg(t) => th[t].txg \in Nat /\ th[t].txg > LastTaken
    BY ONLY ZenonT(20), <2>2, HoldersFacts
  <2> QED
    BY ONLY <2>1, <2>3, <2>4
<1> QED
  BY <1>1, Invariance, PTL DEF Spec, WaitSyncedReturns

-----------------------------------------------------------------------------
(* Refinement.                                                             *)

(* The values the refinement mapping gives to the abstract variables.      *)
Member == [t \in Txs |-> IF InTxg(t) THEN th[t].txg ELSE 0]
Abstract == <<tx_open_txg, LastSynced, Member>>

LEMMA TxRefines ==
    ASSUME IndInv, NEW t \in Txs, TxNext(t)
    PROVE  Groups!Join(t) \/ Groups!Leave(t) \/ UNCHANGED Abstract
<1>i. /\ StateTypeOK /\ LockTypeOK /\ CpuTypeOK /\ CallbackTypeOK
      /\ ThreadTypeOK /\ ThreadsInv /\ PipelineInv /\ OpenLockInv
      /\ HoldersInv /\ HoldCountsExact /\ CallbacksInv /\ RequestInv
      /\ StopInv
  BY ZenonT(20) DEF IndInv, TypeOK
<1> USE <1>i
<1>1. ASSUME NEW c \in CPUs, TxgHoldOpen(t, c)
      PROVE  Groups!Join(t)
  <2>1. Member[t] = 0 /\ Member' = [Member EXCEPT ![t] = tx_open_txg]
    BY ZenonT(20), <1>1 DEF TxgHoldOpen, InTxg, CpuTypeOK, Member
  <2> QED
    BY Zenon, <1>1, <2>1 DEF TxgHoldOpen, LastSynced, Groups!Join, Member
<1>2. ASSUME TxgReleToSync(t)
      PROVE  Groups!Leave(t)
  <2>1. Member[t] # 0
    <3>1. InTxg(t)
      BY ZenonT(20), <1>2 DEF TxgReleToSync, InTxg
    <3>2. th[t].txg \in Nat /\ th[t].txg > LastTaken /\ LastTaken \in Nat
      BY ZenonT(20), <3>1, PipelineFacts, HoldersFacts
    <3>3. th[t].txg # 0
      BY ONLY <3>2
    <3> QED
      BY ZenonT(20), <3>1, <3>3 DEF Member
  <2>2. Member' = [Member EXCEPT ![t] = 0]
    BY ZenonT(20), <1>2 DEF TxgReleToSync, InTxg, CpuTypeOK, Member
  <2> QED
    BY ZenonT(20), <1>2, <2>1, <2>2 DEF TxgReleToSync, LastSynced, Groups!Leave, Member
<1>3. ASSUME TxgDelayWait(t) \/ TxgDelayDone(t) \/ TxgReleToQuiesce(t)
               \/ TxgRegisterCallbacks(t)
      PROVE  UNCHANGED Abstract
  <2>1. UNCHANGED <<tx_open_txg, tx_synced_txg, th>>
    BY ZenonT(20), <1>3 DEF TxgDelayWait, TxgDelayDone, TxgReleToQuiesce,
       TxgRegisterCallbacks
  <2>2. \A u \in Txs : InTxg(u)' = InTxg(u)
    BY ZenonT(20), <1>3 DEF TxgDelayWait, TxgDelayDone, TxgReleToQuiesce,
       TxgRegisterCallbacks, InTxg, CpuTypeOK
  <2> QED
    BY ZenonT(20), <2>1, <2>2 DEF Abstract, Member, LastSynced
<1> QED
  BY Zenon, <1>1, <1>2, <1>3 DEF TxNext

LEMMA QuiesceRefines ==
    ASSUME IndInv, QuiesceNext
    PROVE  Groups!Close \/ UNCHANGED Abstract
<1>i. /\ StateTypeOK /\ LockTypeOK /\ CpuTypeOK /\ CallbackTypeOK
      /\ ThreadTypeOK /\ ThreadsInv /\ PipelineInv /\ OpenLockInv
      /\ HoldersInv /\ HoldCountsExact /\ CallbacksInv /\ RequestInv
      /\ StopInv
  BY ZenonT(20) DEF IndInv, TypeOK
<1> USE <1>i
<1>1. ASSUME QuiesceAdvance PROVE Groups!Close
  <2>1. tx_open_txg - LastSynced < TXG_SIZE - 1
    BY <1>1, InitTxgAssumption
       DEF QuiesceAdvance, PipelineInv, Closing, LastTaken, LastSynced,
           StateTypeOK, TXG_SIZE
  <2>2. \A t \in Txs : Member[t] \in {0, tx_open_txg}
    BY ZenonT(20), <1>1 DEF QuiesceAdvance, HoldersInv, Closing, Member
  <2> QED
    BY ZenonT(20), <1>1, <2>1, <2>2
       DEF QuiesceAdvance, Groups!Close, LastSynced, InTxg, Member
<1>2. ASSUME ~QuiesceAdvance PROVE UNCHANGED Abstract
  BY ZenonT(20), <1>2 DEF QuiesceNext, QuiesceWaitMore, QuiesceExit, QuiesceStart,
     QuiesceLockCpu, QuiesceUnlockCpu, QuiesceDrainCpu, QuiesceDrainWait,
     QuiesceHandOff, Abstract, Member, LastSynced, InTxg
<1> QED
  BY Zenon, <1>1, <1>2

LEMMA SyncRefines ==
    ASSUME IndInv, SyncNext
    PROVE  Groups!MakeDurable \/ UNCHANGED Abstract
<1>i. /\ StateTypeOK /\ LockTypeOK /\ CpuTypeOK /\ CallbackTypeOK
      /\ ThreadTypeOK /\ ThreadsInv /\ PipelineInv /\ OpenLockInv
      /\ HoldersInv /\ HoldCountsExact /\ CallbacksInv /\ RequestInv
      /\ StopInv
  BY ZenonT(20) DEF IndInv, TypeOK
<1> USE <1>i
<1>1. ASSUME SyncDone PROVE Groups!MakeDurable
  <2>1. /\ tx_syncing_txg # 0 /\ tx_syncing_txg = LastSynced + 1
        /\ LastTaken = tx_syncing_txg
        /\ LastSynced \in Nat
    BY ZenonT(20), <1>1, PipelineFacts DEF SyncDone, ThreadsInv
  <2>2. LastSynced + 1 < tx_open_txg
    BY ONLY ZenonT(20), <2>1, PipelineFacts, <1>i
  <2>3. \A t \in Txs : Member[t] # LastSynced + 1
    <3>1. \A t \in Txs : InTxg(t) => th[t].txg \in Nat
                                       /\ th[t].txg > LastSynced + 1
      BY ONLY ZenonT(20), <2>1, HoldersFacts, <1>i
    <3> QED
      BY ONLY <2>1, <3>1 DEF Member
  <2>4. LastSynced' = LastSynced + 1
    BY ZenonT(20), <1>1, <2>1 DEF SyncDone, LastSynced
  <2> QED
    BY ZenonT(20), <1>1, <2>2, <2>3, <2>4 DEF SyncDone, Groups!MakeDurable, Member, InTxg
<1>2. ASSUME ~SyncDone PROVE UNCHANGED Abstract
  BY ZenonT(20), <1>2 DEF SyncNext, SyncWaitMore, SyncPrompt, SyncRaise, SyncExit,
     SyncTake, Abstract, Member, LastSynced, InTxg
<1> QED
  BY Zenon, <1>1, <1>2

LEMMA RefinementStep ==
    IndInv /\ [Next]_vars => [Groups!Next]_(Groups!vars)
<1> SUFFICES ASSUME IndInv, [Next]_vars PROVE Groups!Next \/ UNCHANGED Abstract
  BY ZenonT(20) DEF Abstract, Member, Groups!vars
<1>1. ASSUME NEW w \in Waiters, WaiterNext(w) PROVE UNCHANGED Abstract
  BY ZenonT(20), <1>1 DEF WaiterNext, TxgWaitSynced, WaitSyncedLoop, TxgWaitOpen,
     WaitOpenLoop, TxgKick, TxgKickRaise, Abstract, Member, LastSynced, InTxg
<1>2. ASSUME StopNext \/ TxgSyncStart \/ TxgDoCallbacks \/ SpuriousWakeup
               \/ UNCHANGED vars
      PROVE  UNCHANGED Abstract
  BY ZenonT(20), <1>2 DEF StopNext, TxgSyncStop, StopWaitLoop, StopExiting, StopJoin,
     TxgSyncStart, TxgDoCallbacks, SpuriousWakeup, vars, Abstract, Member,
     LastSynced, InTxg
<1>3. CASE Next
  BY Zenon, <1>1, <1>2, <1>3, TxRefines, QuiesceRefines, SyncRefines
     DEF Next, Groups!Next
<1> QED
  BY Zenon, <1>2, <1>3

(* txg.c implements the abstract pipeline: transactions join the open group *)
(* only, groups close and become durable one by one, a group becomes        *)
(* durable only when it is empty, and at most three are pending.            *)
THEOREM Refinement == Spec => ImplementsGroups
<1>1. Init => Groups!Init
  BY Zenon DEF Init, Groups!Init, LastSynced, InTxg
<1> QED
  BY <1>1, RefinementStep, Invariance, PTL
     DEF Spec, ImplementsGroups, Groups!Spec

-----------------------------------------------------------------------------
(* Nobody sleeps for good: the invariant behind NoStall, action by action.  *)

Sleepers == Waiters \cup {SyncThread, QuiesceThread, StopThread}

(* A step that puts none of the pipeline's threads to sleep and changes     *)
(* nothing they wait for.                                                   *)
LEMMA SleepFrame ==
    ASSUME LockTypeOK, SleepInv,
           \A u \in Sleepers, v \in CVs : u \in cv'[v] => u \in cv[v],
           UNCHANGED <<pipeline, waiting, life, tx_sync_lock, sync_pc, waiters,
                       stop>>,
           Closing' = Closing
    PROVE  SyncSleepInv' /\ WaiterSleepInv' /\ StopSleepInv'
<1>1. SyncSleepInv'
  BY Zenon DEF SleepInv, SyncSleepInv, Sleepers, CVs, AboutToPrompt
<1>2. WaiterSleepInv'
  BY Zenon DEF SleepInv, WaiterSleepInv, Sleepers, CVs
<1>3. StopSleepInv'
  BY Zenon DEF SleepInv, StopSleepInv, Sleepers, CVs
<1> QED
  BY Zenon, <1>1, <1>2, <1>3

LEMMA QuiesceSleepFrame ==
    ASSUME SleepInv, quiesce_pc' = quiesce_pc, q_txg' = q_txg, q_cpu' = q_cpu,
           \A v \in CVs : QuiesceThread \in cv'[v] => QuiesceThread \in cv[v],
           UNCHANGED <<tx_open_txg, tx_quiesced_txg, waiting, tx_exiting,
                       tx_sync_lock, waiters>>,
           QuiesceThread \in cv'["tc"] => tc_count'[q_cpu][Slot(q_txg)] # 0
    PROVE  QuiesceSleepInv'
BY Zenon DEF SleepInv, QuiesceSleepInv, CVs, AboutToAsk

LEMMA TxSleepStep ==
    ASSUME IndInv, SleepInv, NEW t \in Txs, TxNext(t)
    PROVE  SleepInv'
<1>i. LockTypeOK /\ CpuTypeOK /\ StateTypeOK
  BY Zenon DEF IndInv, TypeOK
<1>1. t \notin Sleepers /\ QuiesceThread \in Sleepers
  BY Zenon, ThreadsDistinct DEF Sleepers
<1>2. UNCHANGED <<pipeline, waiting, life, tx_sync_lock, sync_pc, waiters, stop,
                  quiesce>>
  BY Zenon DEF TxNext, TxgHoldOpen, TxgDelayWait, TxgDelayDone, TxgReleToQuiesce,
               TxgRegisterCallbacks, TxgReleToSync
<1>3. ASSUME NEW u \in Sleepers, NEW v \in CVs, u \in cv'[v]
      PROVE  u \in cv[v]
  BY Zenon, <1>1, <1>3
     DEF TxNext, TxgHoldOpen, TxgDelayWait, TxgDelayDone, TxgReleToQuiesce,
         TxgRegisterCallbacks, TxgReleToSync, Broadcast, BroadcastAndWait
<1>4. Closing' = Closing
  BY Zenon, <1>2 DEF Closing
<1>5. SyncSleepInv' /\ WaiterSleepInv' /\ StopSleepInv'
  BY Zenon, <1>i, <1>2, <1>3, <1>4, SleepFrame
<1>6. ASSUME QuiesceThread \in cv'["tc"]
      PROVE  tc_count'[q_cpu][Slot(q_txg)] # 0
  <2>1. /\ q_cpu \in CPUs /\ tc_count[q_cpu][Slot(q_txg)] # 0
    BY Zenon, <1>1, <1>3, <1>6 DEF SleepInv, QuiesceSleepInv, CVs
  <2>2. Slot(q_txg) \in Slots
    BY SlotFacts DEF IndInv, TypeOK, ThreadTypeOK
  <2>3. CASE \E c \in CPUs : TxgHoldOpen(t, c)
    BY SMTT(40), <1>i, <2>1, <2>2, <2>3, SlotFacts DEF TxgHoldOpen, CpuTypeOK, StateTypeOK
  <2>4. CASE TxgReleToSync(t)
    <3> DEFINE c == th[t].cpu
               g == Slot(th[t].txg)
    <3>1. c \in CPUs /\ g \in Slots
      BY Zenon, <1>i, SlotFacts DEF CpuTypeOK
    <3>2. CASE q_cpu = c /\ Slot(q_txg) = g
      <4>1. tc_count'[c][g] # 0
        <5>1. SUFFICES ASSUME tc_count'[c][g] = 0 PROVE FALSE
          BY Zenon
        <5>2. Broadcast({"tc"})
          BY ZenonT(40), <2>4, <3>2, <5>1 DEF TxgReleToSync
        <5> QED
          BY Zenon, <5>2, <1>6 DEF Broadcast, CVs
      <4> QED
        BY Zenon, <3>2, <4>1
    <3>3. CASE ~(q_cpu = c /\ Slot(q_txg) = g)
      BY SMTT(40), <1>i, <2>1, <2>2, <2>4, <3>1, <3>3 DEF TxgReleToSync, CpuTypeOK
    <3> QED
      BY Zenon, <3>2, <3>3
  <2>5. CASE tc_count' = tc_count
    BY Zenon, <2>1, <2>5
  <2> QED
    BY Zenon, <2>3, <2>4, <2>5
       DEF TxNext, TxgDelayWait, TxgDelayDone, TxgReleToQuiesce,
           TxgRegisterCallbacks
<1>7. QuiesceSleepInv'
  <2>1. \A v \in CVs : QuiesceThread \in cv'[v] => QuiesceThread \in cv[v]
    BY Zenon, <1>1, <1>3
  <2> QED
    BY Zenon, <1>2, <1>6, <2>1, QuiesceSleepFrame
<1> QED
  BY Zenon, <1>5, <1>7 DEF SleepInv

(* The steps of the quiesce thread.  It goes to sleep only when nothing is  *)
(* asked of it or a hold is left, and wakes those who wait for its txg.      *)
LEMMA QuiesceSleepStep ==
    ASSUME IndInv, SleepInv, QuiesceNext
    PROVE  SleepInv'
<1>i. /\ StateTypeOK /\ LockTypeOK /\ CpuTypeOK /\ ThreadTypeOK /\ PipelineInv
      /\ ThreadsInv /\ RequestInv /\ StopInv
      /\ SyncSleepInv /\ QuiesceSleepInv /\ WaiterSleepInv /\ StopSleepInv
  BY Zenon DEF IndInv, TypeOK, SleepInv
<1>d. /\ QuiesceThread \notin Waiters /\ QuiesceThread # SyncThread
      /\ NoThread # SyncThread
      /\ QuiesceThread # StopThread /\ NoThread \notin Waiters
      /\ NoThread # StopThread
  BY Zenon, ThreadsDistinct
<1>1. CASE QuiesceWaitMore
  <2> USE DEF QuiesceWaitMore, BroadcastAndWait
  <2>1. SyncSleepInv'
    BY ZenonT(40), <1>i, <1>d, <1>1
       DEF SyncSleepInv, AboutToPrompt, CanRun, CVs, Closing, StateTypeOK, LockTypeOK
  <2>2. QuiesceSleepInv'
    BY ZenonT(40), <1>i, <1>d, <1>1
       DEF QuiesceSleepInv, AboutToAsk, CanRun, Asleep, CVs, StateTypeOK, LockTypeOK
  <2>3. WaiterSleepInv'
    BY ZenonT(40), <1>i, <1>d, <1>1 DEF WaiterSleepInv, CVs, Closing, LockTypeOK
  <2>4. StopSleepInv'
    BY ZenonT(40), <1>i, <1>d, <1>1 DEF StopSleepInv, CVs, LockTypeOK
  <2> QED
    BY Zenon, <2>1, <2>2, <2>3, <2>4 DEF SleepInv
<1>2. CASE QuiesceExit
  <2> USE DEF QuiesceExit, Broadcast
  <2>0. /\ stop_pc = "join" /\ \A w \in Waiters : wait_pc[w] = "idle"
    BY Zenon, <1>i, <1>2 DEF StopSleepInv, StopInv
  <2>x. tx_exiting # 0
    <3>1. tx_exiting = 1
      BY Zenon, <1>2
    <3> QED
      BY ONLY SMT, <3>1
  <2>1. SyncSleepInv'
    BY ZenonT(40), <1>i, <1>d, <1>2, <2>0, <2>x DEF SyncSleepInv, CVs, LockTypeOK
  <2>2. QuiesceSleepInv'
    BY ZenonT(40), <1>i, <1>d, <1>2
       DEF QuiesceSleepInv, CanRun, Asleep, CVs, LockTypeOK
  <2>3. WaiterSleepInv'
    BY ZenonT(40), <1>i, <1>d, <1>2, <2>0 DEF WaiterSleepInv, CVs, LockTypeOK
  <2>4. StopSleepInv'
    BY ZenonT(40), <1>i, <1>d, <1>2, <2>0 DEF StopSleepInv, CVs, LockTypeOK
  <2> QED
    BY Zenon, <2>1, <2>2, <2>3, <2>4 DEF SleepInv
<1>3. CASE QuiesceStart
  <2> USE DEF QuiesceStart
  <2>1. SyncSleepInv'
    BY ZenonT(40), <1>i, <1>d, <1>3
       DEF SyncSleepInv, AboutToPrompt, CanRun, CVs, Closing, StateTypeOK
  <2>2. QuiesceSleepInv'
    BY ZenonT(40), <1>i, <1>3 DEF QuiesceSleepInv, CanRun, Asleep, CVs
  <2>3. WaiterSleepInv'
    BY ZenonT(40), <1>i, <1>3 DEF WaiterSleepInv, Closing
  <2>4. StopSleepInv'
    BY Zenon, <1>i, <1>3 DEF StopSleepInv
  <2> QED
    BY Zenon, <2>1, <2>2, <2>3, <2>4 DEF SleepInv
<1>4. CASE QuiesceLockCpu \/ QuiesceUnlockCpu
  <2>1. /\ UNCHANGED <<pipeline, waiting, life, tx_sync_lock, sync_pc, waiters,
                       stop, cv>>
        /\ quiesce_pc \in {"lock", "unlock"}
    BY Zenon, <1>4 DEF QuiesceLockCpu, QuiesceUnlockCpu
  <2>c. Closing' = Closing
    BY SMT, <1>4 DEF QuiesceLockCpu, QuiesceUnlockCpu, Closing
  <2>2. SyncSleepInv' /\ WaiterSleepInv' /\ StopSleepInv'
    BY Zenon, <1>i, <2>1, <2>c, SleepFrame
  <2>3. QuiesceSleepInv'
    BY Zenon, <1>i, <2>1 DEF QuiesceSleepInv, CVs
  <2> QED
    BY Zenon, <2>2, <2>3 DEF SleepInv
<1>5. CASE QuiesceAdvance
  <2> USE DEF QuiesceAdvance
  <2>0. Closing'
    BY Zenon, <1>5 DEF Closing
  <2>1. SyncSleepInv'
    BY Zenon, <1>i, <1>5, <2>0 DEF SyncSleepInv, AboutToPrompt
  <2>2. QuiesceSleepInv'
    BY Zenon, <1>i, <1>5 DEF QuiesceSleepInv, CVs
  <2>3. WaiterSleepInv'
    BY Zenon, <1>i, <1>5, <2>0 DEF WaiterSleepInv
  <2>4. StopSleepInv'
    BY Zenon, <1>i, <1>5 DEF StopSleepInv
  <2> QED
    BY Zenon, <2>1, <2>2, <2>3, <2>4 DEF SleepInv
<1>6. CASE QuiesceDrainCpu
  <2>1. /\ UNCHANGED <<pipeline, waiting, life, tx_sync_lock, sync_pc, waiters,
                       stop, cv>>
        /\ Closing' = Closing /\ ~Asleep(QuiesceThread)
    BY Zenon, <1>6 DEF QuiesceDrainCpu, Closing
  <2>2. SyncSleepInv' /\ WaiterSleepInv' /\ StopSleepInv'
    BY Zenon, <1>i, <2>1, SleepFrame
  <2>3. QuiesceSleepInv'
    BY Zenon, <2>1 DEF QuiesceSleepInv, CVs, Asleep
  <2> QED
    BY Zenon, <2>2, <2>3 DEF SleepInv
<1>7. CASE QuiesceDrainWait
  <2> USE DEF QuiesceDrainWait, BroadcastAndWait
  <2>1. SyncSleepInv'
    BY ZenonT(40), <1>i, <1>d, <1>7 DEF SyncSleepInv, AboutToPrompt, CVs, Closing, LockTypeOK
  <2>2. QuiesceSleepInv'
    BY ZenonT(40), <1>i, <1>7 DEF QuiesceSleepInv, Asleep, CVs, LockTypeOK
  <2>3. WaiterSleepInv'
    BY ZenonT(40), <1>i, <1>d, <1>7 DEF WaiterSleepInv, CVs, Closing, LockTypeOK
  <2>4. StopSleepInv'
    BY ZenonT(40), <1>i, <1>d, <1>7 DEF StopSleepInv, CVs, LockTypeOK
  <2> QED
    BY Zenon, <2>1, <2>2, <2>3, <2>4 DEF SleepInv
<1>8. CASE QuiesceHandOff
  <2> USE DEF QuiesceHandOff, Broadcast
  <2>0. QuiesceThread \notin cv["quiesce_more"]
    BY Zenon, <1>i, <1>8 DEF QuiesceSleepInv, CVs
  <2>x. q_cpu \notin CPUs
    <3>1. q_cpu = NCPU /\ q_cpu \in 0 .. NCPU
      BY Zenon, <1>i, <1>8 DEF ThreadTypeOK
    <3> QED
      BY ONLY SMT, <3>1 DEF CPUs
  <2>1. SyncSleepInv'
    BY ZenonT(40), <1>i, <1>d, <1>8 DEF SyncSleepInv, ThreadsInv, CVs, LockTypeOK
  <2>2. QuiesceSleepInv'
    BY ZenonT(40), <1>i, <1>8, <2>0, <2>x DEF QuiesceSleepInv, CVs, LockTypeOK
  <2>3. WaiterSleepInv'
    BY ZenonT(40), <1>i, <1>8 DEF WaiterSleepInv, CVs, LockTypeOK
  <2>4. StopSleepInv'
    BY ZenonT(40), <1>i, <1>8 DEF StopSleepInv, CVs, LockTypeOK
  <2> QED
    BY Zenon, <2>1, <2>2, <2>3, <2>4 DEF SleepInv
<1> QED
  BY Zenon, <1>1, <1>2, <1>3, <1>4, <1>5, <1>6, <1>7, <1>8 DEF QuiesceNext

(* The steps of the sync thread.  It sleeps for a txg only after it has     *)
(* asked for one.                                                           *)
LEMMA SyncSleepStep ==
    ASSUME IndInv, SleepInv, SyncNext
    PROVE  SleepInv'
<1>i. /\ StateTypeOK /\ LockTypeOK /\ ThreadTypeOK /\ ThreadsInv /\ PipelineInv
      /\ RequestInv /\ StopInv
      /\ SyncSleepInv /\ QuiesceSleepInv /\ WaiterSleepInv /\ StopSleepInv
  BY Zenon DEF IndInv, TypeOK, SleepInv
<1>d. /\ SyncThread \notin Waiters /\ QuiesceThread # SyncThread
      /\ SyncThread # StopThread /\ NoThread \notin Waiters
      /\ NoThread # StopThread
  BY Zenon, ThreadsDistinct
<1>1. CASE SyncWaitMore
  <2> USE DEF SyncWaitMore, BroadcastAndWait
  <2>1. SyncSleepInv'
    BY ZenonT(40), <1>i, <1>d, <1>1
       DEF SyncSleepInv, CanRun, Asleep, CVs, StateTypeOK, LockTypeOK
  <2>2. QuiesceSleepInv'
    BY ZenonT(40), <1>i, <1>d, <1>1
       DEF QuiesceSleepInv, AboutToAsk, CanRun, CVs, StateTypeOK, LockTypeOK
  <2>3. WaiterSleepInv'
    BY ZenonT(40), <1>i, <1>d, <1>1 DEF WaiterSleepInv, CVs, Closing, LockTypeOK
  <2>4. StopSleepInv'
    BY ZenonT(40), <1>i, <1>d, <1>1 DEF StopSleepInv, CVs, LockTypeOK
  <2> QED
    BY Zenon, <2>1, <2>2, <2>3, <2>4 DEF SleepInv
<1>2. CASE SyncPrompt /\ tx_quiesce_txg_waiting < tx_open_txg + 1
  <2> USE DEF SyncPrompt
  <2>1. SyncSleepInv'
    BY ZenonT(40), <1>i, <1>2 DEF SyncSleepInv, CanRun, Asleep, CVs
  <2>2. QuiesceSleepInv'
    <3>1. /\ tx_sync_lock \in {SyncThread, NoThread} /\ cv' = cv
          /\ UNCHANGED <<pipeline, waiting, life, holds, quiesce, waiters>>
      BY Zenon, <1>2 DEF CanRun
    <3> QED
      BY ZenonT(40), <1>i, <1>d, <3>1 DEF QuiesceSleepInv, AboutToAsk
  <2>3. WaiterSleepInv'
    BY Zenon, <1>i, <1>2 DEF WaiterSleepInv, Closing
  <2>4. StopSleepInv'
    BY Zenon, <1>i, <1>2 DEF StopSleepInv
  <2> QED
    BY Zenon, <2>1, <2>2, <2>3, <2>4 DEF SleepInv
<1>3. CASE SyncPrompt /\ ~(tx_quiesce_txg_waiting < tx_open_txg + 1)
  <2>e. /\ sync_pc' = "prompt" /\ tx_sync_lock' = NoThread
        /\ CanRun(SyncThread) /\ tx_exiting = 0 /\ tx_quiesced_txg = 0
        /\ BroadcastAndWait({"quiesce_more"}, SyncThread, "quiesce_done")
        /\ UNCHANGED <<pipeline, waiting, life, holds, quiesce, waiters, stop>>
    BY Zenon, <1>3 DEF SyncPrompt
  <2>a. tx_open_txg < tx_quiesce_txg_waiting
    BY SMT, <1>i, <1>3 DEF StateTypeOK
  <2> USE DEF BroadcastAndWait
  <2>1. SyncSleepInv'
    BY ZenonT(40), <1>i, <2>e, <2>a
       DEF SyncSleepInv, CanRun, Asleep, CVs, LockTypeOK
  <2>2. QuiesceSleepInv'
    BY ZenonT(40), <1>i, <1>d, <2>e DEF QuiesceSleepInv, CVs, LockTypeOK
  <2>3. WaiterSleepInv'
    BY ZenonT(40), <1>i, <1>d, <2>e DEF WaiterSleepInv, CVs, Closing, LockTypeOK
  <2>4. StopSleepInv'
    BY ZenonT(40), <1>i, <1>d, <2>e DEF StopSleepInv, CVs, LockTypeOK
  <2> QED
    BY Zenon, <2>1, <2>2, <2>3, <2>4 DEF SleepInv
<1>4. CASE SyncRaise
  <2> USE DEF SyncRaise, BroadcastAndWait
  <2>f. /\ tx_quiesce_txg_waiting' = tx_open_txg + 1
        /\ tx_quiesce_txg_waiting <= tx_open_txg
        /\ tx_open_txg \in Nat /\ tx_quiesce_txg_waiting \in Nat
    BY Zenon, <1>i, <1>4 DEF RequestInv, StateTypeOK
  <2>0. /\ tx_quiesce_txg_waiting <= tx_quiesce_txg_waiting'
        /\ tx_quiesce_txg_waiting' \in Nat
    BY ONLY SMT, <2>f
  <2>a. tx_open_txg < tx_quiesce_txg_waiting'
    BY ONLY SMT, <2>f
  <2>1. SyncSleepInv'
    BY ZenonT(40), <1>i, <1>4, <2>a DEF SyncSleepInv, CVs, LockTypeOK, ThreadsInv
  <2>2. QuiesceSleepInv'
    BY ZenonT(40), <1>i, <1>d, <1>4 DEF QuiesceSleepInv, CVs, LockTypeOK
  <2>3. WaiterSleepInv'
    <3> SUFFICES ASSUME NEW w \in Waiters
                 PROVE  wait_pc[w] = "open" =>
                           wait_txg[w] <= tx_quiesce_txg_waiting'
      BY ZenonT(40), <1>i, <1>d, <1>4 DEF WaiterSleepInv, CVs, Closing, LockTypeOK
    <3>1. /\ wait_pc[w] = "open" => wait_txg[w] <= tx_quiesce_txg_waiting
          /\ wait_txg[w] \in Nat
      BY Zenon, <1>i DEF WaiterSleepInv, ThreadTypeOK
    <3> QED
      BY ONLY SMT, <2>f, <2>0, <3>1
  <2>4. StopSleepInv'
    BY ZenonT(40), <1>i, <1>d, <1>4 DEF StopSleepInv, CVs, LockTypeOK
  <2> QED
    BY Zenon, <2>1, <2>2, <2>3, <2>4 DEF SleepInv
<1>5. CASE SyncExit
  <2> USE DEF SyncExit, Broadcast
  <2>0. /\ stop_pc = "join" /\ \A w \in Waiters : wait_pc[w] = "idle"
    BY Zenon, <1>i, <1>5 DEF StopSleepInv, StopInv
  <2>x. tx_exiting # 0
    <3>1. tx_exiting = 1
      BY Zenon, <1>5
    <3> QED
      BY ONLY SMT, <3>1
  <2>1. SyncSleepInv'
    BY ZenonT(40), <1>i, <1>5 DEF SyncSleepInv, CanRun, Asleep, CVs, LockTypeOK
  <2>2. QuiesceSleepInv'
    BY ZenonT(40), <1>i, <1>d, <1>5, <2>0, <2>x DEF QuiesceSleepInv, CVs, LockTypeOK
  <2>3. WaiterSleepInv'
    BY ZenonT(40), <1>i, <1>5, <2>0 DEF WaiterSleepInv, CVs, LockTypeOK
  <2>4. StopSleepInv'
    BY ZenonT(40), <1>i, <1>5, <2>0 DEF StopSleepInv, CVs, LockTypeOK
  <2> QED
    BY Zenon, <2>1, <2>2, <2>3, <2>4 DEF SleepInv
<1>6. CASE SyncTake
  <2> USE DEF SyncTake, Broadcast
  <2>1. SyncSleepInv'
    BY ZenonT(40), <1>i, <1>6 DEF SyncSleepInv, CanRun, Asleep, CVs, LockTypeOK
  <2>2. QuiesceSleepInv'
    BY ZenonT(40), <1>i, <1>6 DEF QuiesceSleepInv, CVs, LockTypeOK
  <2>3. WaiterSleepInv'
    BY ZenonT(40), <1>i, <1>6 DEF WaiterSleepInv, CVs, Closing, LockTypeOK
  <2>4. StopSleepInv'
    BY ZenonT(40), <1>i, <1>6 DEF StopSleepInv, CVs, LockTypeOK
  <2> QED
    BY Zenon, <2>1, <2>2, <2>3, <2>4 DEF SleepInv
<1>7. CASE SyncDone
  <2> USE DEF SyncDone, Broadcast
  <2>1. SyncSleepInv'
    BY ZenonT(40), <1>i, <1>7 DEF SyncSleepInv, CVs, LockTypeOK
  <2>2. QuiesceSleepInv'
    BY ZenonT(40), <1>i, <1>d, <1>7 DEF QuiesceSleepInv, AboutToAsk, CVs, LockTypeOK
  <2>3. WaiterSleepInv'
    BY ZenonT(40), <1>i, <1>7 DEF WaiterSleepInv, CVs, Closing, LockTypeOK
  <2>4. StopSleepInv'
    BY ZenonT(40), <1>i, <1>7 DEF StopSleepInv, CVs, LockTypeOK
  <2> QED
    BY Zenon, <2>1, <2>2, <2>3, <2>4 DEF SleepInv
<1> QED
  BY Zenon, <1>1, <1>2, <1>3, <1>4, <1>5, <1>6, <1>7 DEF SyncNext

(* The steps of the callers: each raises its request while it owns          *)
(* tx_sync_lock and broadcasts before it sleeps.                            *)
LEMMA WaiterSleepStep ==
    ASSUME IndInv, SleepInv, NEW w \in Waiters, WaiterNext(w)
    PROVE  SleepInv'
<1>i. /\ StateTypeOK /\ LockTypeOK /\ ThreadTypeOK /\ ThreadsInv /\ RequestInv
      /\ SyncSleepInv /\ QuiesceSleepInv /\ WaiterSleepInv /\ StopSleepInv
  BY Zenon DEF IndInv, TypeOK, SleepInv
<1>d. /\ SyncThread \notin Waiters /\ QuiesceThread \notin Waiters
      /\ StopThread \notin Waiters /\ NoThread \notin Waiters
      /\ NoThread # StopThread
  BY Zenon, ThreadsDistinct
<1>1. ASSUME NEW arg \in Nat, TxgWaitSynced(w, arg) PROVE SleepInv'
  <2>p. PICK txg \in Nat :
          txg = IF arg = 0 THEN tx_open_txg + TXG_DEFER_SIZE ELSE arg
    BY SMT, <1>i, <1>1 DEF StateTypeOK, TXG_DEFER_SIZE
  <2> USE DEF TxgWaitSynced
  <2>0. /\ tx_sync_txg_waiting' = Max2(tx_sync_txg_waiting, txg)
        /\ wait_txg' = [wait_txg EXCEPT ![w] = txg]
    BY Zenon, <1>1, <2>p
  <2>m. /\ tx_sync_txg_waiting <= tx_sync_txg_waiting'
        /\ txg <= tx_sync_txg_waiting' /\ tx_sync_txg_waiting' \in Nat
        /\ tx_sync_txg_waiting' \in {tx_sync_txg_waiting, txg}
    BY SMT, <1>i, <2>0 DEF Max2, StateTypeOK
  <2>n. /\ tx_sync_lock = NoThread /\ tx_sync_lock' = w
        /\ wait_pc[w] = "idle" /\ wait_pc' = [wait_pc EXCEPT ![w] = "synced"]
        /\ tx_threads = 2 /\ stop_pc = "idle" /\ cv' = cv
        /\ UNCHANGED <<pipeline, tx_quiesce_txg_waiting, life, holds, sync_pc,
                       quiesce, stop>>
    BY ZenonT(40), <1>1 DEF PoolInUse
  <2>v. wait_txg'[w] = txg /\ wait_pc'[w] = "synced"
    BY Zenon, <1>i, <2>0, <2>n DEF ThreadTypeOK
  <2>a. tx_synced_txg >= txg \/ tx_synced_txg < txg
    BY SMT, <1>i DEF StateTypeOK
  <2>b. ASSUME NEW x \in Waiters, wait_txg[x] <= tx_sync_txg_waiting
        PROVE  wait_txg[x] <= tx_sync_txg_waiting'
    BY SMT, <1>i, <2>b, <2>m DEF StateTypeOK, ThreadTypeOK
  <2>1. SyncSleepInv'
    BY ONLY ZenonT(40), <1>i, <1>d, <2>v, <2>a, <2>m, <2>n
       DEF SyncSleepInv, AboutToPrompt, CVs, Closing
  <2>2. QuiesceSleepInv'
    BY ONLY ZenonT(40), <1>i, <1>d, <2>n DEF QuiesceSleepInv, AboutToAsk
  <2>3. WaiterSleepInv'
    BY ONLY ZenonT(40), <1>i, <2>0, <2>v, <2>b, <2>m, <2>n
       DEF WaiterSleepInv, CVs, Closing, ThreadTypeOK
  <2>4. StopSleepInv'
    BY ONLY ZenonT(40), <1>i, <2>m, <2>n DEF StopSleepInv, StateTypeOK
  <2> QED
    BY Zenon, <2>1, <2>2, <2>3, <2>4 DEF SleepInv
<1>2. ASSUME NEW arg \in Nat, TxgWaitOpen(w, arg) PROVE SleepInv'
  <2>p. PICK txg \in Nat : txg = IF arg = 0 THEN tx_open_txg + 1 ELSE arg
    BY SMT, <1>i, <1>2 DEF StateTypeOK
  <2> USE DEF TxgWaitOpen
  <2>0. /\ tx_quiesce_txg_waiting' = Max2(tx_quiesce_txg_waiting, txg)
        /\ wait_txg' = [wait_txg EXCEPT ![w] = txg]
    BY Zenon, <1>2, <2>p
  <2>m. /\ tx_quiesce_txg_waiting <= tx_quiesce_txg_waiting'
        /\ txg <= tx_quiesce_txg_waiting' /\ tx_quiesce_txg_waiting' \in Nat
        /\ tx_quiesce_txg_waiting' \in {tx_quiesce_txg_waiting, txg}
    BY SMT, <1>i, <2>0 DEF Max2, StateTypeOK
  <2>n. /\ tx_sync_lock = NoThread /\ tx_sync_lock' = w
        /\ wait_pc[w] = "idle" /\ wait_pc' = [wait_pc EXCEPT ![w] = "open"]
        /\ tx_threads = 2 /\ stop_pc = "idle" /\ cv' = cv
        /\ UNCHANGED <<pipeline, tx_sync_txg_waiting, life, holds, sync_pc,
                       quiesce, stop>>
    BY Zenon, <1>2 DEF PoolInUse
  <2>v. wait_txg'[w] = txg /\ wait_pc'[w] = "open"
    BY Zenon, <1>i, <2>0, <2>n DEF ThreadTypeOK
  <2>a. tx_open_txg >= txg \/ tx_open_txg < txg
    BY SMT, <1>i DEF StateTypeOK
  <2>b. ASSUME NEW x \in Waiters, wait_txg[x] <= tx_quiesce_txg_waiting
        PROVE  wait_txg[x] <= tx_quiesce_txg_waiting'
    BY SMT, <1>i, <2>b, <2>m DEF StateTypeOK, ThreadTypeOK
  <2>c. tx_open_txg < tx_quiesce_txg_waiting => tx_open_txg < tx_quiesce_txg_waiting'
    BY SMT, <1>i, <2>m DEF StateTypeOK
  <2>1. SyncSleepInv'
    BY ONLY ZenonT(40), <1>i, <1>d, <2>c, <2>n
       DEF SyncSleepInv, AboutToPrompt, CVs, Closing
  <2>2. QuiesceSleepInv'
    BY ONLY ZenonT(40), <1>i, <1>d, <2>v, <2>a, <2>m, <2>n
       DEF QuiesceSleepInv, AboutToAsk
  <2>3. WaiterSleepInv'
    BY ONLY ZenonT(40), <1>i, <2>0, <2>v, <2>b, <2>m, <2>n
       DEF WaiterSleepInv, CVs, Closing, ThreadTypeOK
  <2>4. StopSleepInv'
    BY ONLY Zenon, <1>i, <2>n DEF StopSleepInv
  <2> QED
    BY Zenon, <2>1, <2>2, <2>3, <2>4 DEF SleepInv
<1>3. CASE TxgKick(w)
  <2> USE DEF TxgKick
  <2>1. SyncSleepInv'
    BY ZenonT(40), <1>i, <1>d, <1>3 DEF SyncSleepInv, AboutToPrompt, Closing, ThreadTypeOK
  <2>2. QuiesceSleepInv'
    BY ZenonT(40), <1>i, <1>d, <1>3 DEF QuiesceSleepInv, StateTypeOK
  <2>3. WaiterSleepInv'
    BY ZenonT(40), <1>i, <1>3 DEF WaiterSleepInv, CVs, Closing, ThreadTypeOK, PoolInUse
  <2>4. StopSleepInv'
    BY Zenon, <1>i, <1>3 DEF StopSleepInv
  <2> QED
    BY Zenon, <2>1, <2>2, <2>3, <2>4 DEF SleepInv
<1>4. CASE WaitSyncedLoop(w) /\ tx_synced_txg < wait_txg[w]
  <2>e. /\ wait_pc[w] = "synced" /\ CanRun(w) /\ tx_synced_txg < wait_txg[w]
        /\ BroadcastAndWait({"sync_more"}, w, "sync_done")
        /\ tx_sync_lock' = NoThread
        /\ UNCHANGED <<pipeline, waiting, life, holds, sync_pc, quiesce, waiters, stop>>
    BY Zenon, <1>4 DEF WaitSyncedLoop
  <2> USE DEF BroadcastAndWait
  <2>1. SyncSleepInv'
    BY ZenonT(40), <1>i, <1>d, <2>e DEF SyncSleepInv, CVs, Closing, LockTypeOK
  <2>2. QuiesceSleepInv'
    BY ZenonT(40), <1>i, <1>d, <2>e
       DEF QuiesceSleepInv, AboutToAsk, CanRun, CVs, LockTypeOK
  <2>3. WaiterSleepInv'
    BY ZenonT(40), <1>i, <2>e DEF WaiterSleepInv, CVs, Closing, LockTypeOK
  <2>4. StopSleepInv'
    BY ZenonT(40), <1>i, <1>d, <2>e DEF StopSleepInv, CVs, LockTypeOK
  <2> QED
    BY Zenon, <2>1, <2>2, <2>3, <2>4 DEF SleepInv
<1>5. CASE WaitSyncedLoop(w) /\ ~(tx_synced_txg < wait_txg[w])
  <2> USE DEF WaitSyncedLoop, WaitReturn
  <2>1. SyncSleepInv'
    BY ZenonT(40), <1>i, <1>d, <1>5 DEF SyncSleepInv, AboutToPrompt, CanRun, CVs, Closing
  <2>2. QuiesceSleepInv'
    BY ZenonT(40), <1>i, <1>d, <1>5 DEF QuiesceSleepInv, AboutToAsk, CanRun, CVs
  <2>3. WaiterSleepInv'
    BY ZenonT(40), <1>i, <1>5 DEF WaiterSleepInv, CanRun, Asleep, CVs, Closing, ThreadTypeOK
  <2>4. StopSleepInv'
    BY ZenonT(40), <1>i, <1>5 DEF StopSleepInv
  <2> QED
    BY Zenon, <2>1, <2>2, <2>3, <2>4 DEF SleepInv
<1>6. CASE WaitOpenLoop(w) /\ tx_open_txg < wait_txg[w]
  <2>e. /\ wait_pc[w] = "open" /\ CanRun(w) /\ tx_open_txg < wait_txg[w]
        /\ BroadcastAndWait({"quiesce_more"}, w, "quiesce_done")
        /\ tx_sync_lock' = NoThread
        /\ UNCHANGED <<pipeline, waiting, life, holds, sync_pc, quiesce, waiters, stop>>
    BY Zenon, <1>6 DEF WaitOpenLoop
  <2> USE DEF BroadcastAndWait
  <2>1. SyncSleepInv'
    BY ZenonT(40), <1>i, <1>d, <2>e
       DEF SyncSleepInv, AboutToPrompt, CanRun, CVs, Closing, LockTypeOK
  <2>2. QuiesceSleepInv'
    BY ZenonT(40), <1>i, <1>d, <2>e DEF QuiesceSleepInv, CVs, LockTypeOK
  <2>3. WaiterSleepInv'
    BY ZenonT(40), <1>i, <2>e DEF WaiterSleepInv, CVs, Closing, LockTypeOK
  <2>4. StopSleepInv'
    BY ZenonT(40), <1>i, <1>d, <2>e DEF StopSleepInv, CVs, LockTypeOK
  <2> QED
    BY Zenon, <2>1, <2>2, <2>3, <2>4 DEF SleepInv
<1>7. CASE WaitOpenLoop(w) /\ ~(tx_open_txg < wait_txg[w])
  <2> USE DEF WaitOpenLoop, WaitReturn
  <2>1. SyncSleepInv'
    BY ZenonT(40), <1>i, <1>d, <1>7 DEF SyncSleepInv, AboutToPrompt, CanRun, CVs, Closing
  <2>2. QuiesceSleepInv'
    BY ZenonT(40), <1>i, <1>d, <1>7 DEF QuiesceSleepInv, AboutToAsk, CanRun, CVs
  <2>3. WaiterSleepInv'
    BY ZenonT(40), <1>i, <1>7 DEF WaiterSleepInv, CanRun, Asleep, CVs, Closing, ThreadTypeOK
  <2>4. StopSleepInv'
    BY ZenonT(40), <1>i, <1>7 DEF StopSleepInv
  <2> QED
    BY Zenon, <2>1, <2>2, <2>3, <2>4 DEF SleepInv
<1>8. CASE TxgKickRaise(w)
  <2> USE DEF TxgKickRaise, Broadcast
  <2>f. /\ tx_quiesce_txg_waiting' = tx_open_txg + 1
        /\ tx_quiesce_txg_waiting <= tx_open_txg
        /\ tx_open_txg \in Nat /\ tx_quiesce_txg_waiting \in Nat
    BY Zenon, <1>i, <1>8 DEF RequestInv, StateTypeOK
  <2>0. /\ tx_quiesce_txg_waiting <= tx_quiesce_txg_waiting'
        /\ tx_quiesce_txg_waiting' \in Nat
    BY ONLY SMT, <2>f
  <2>a. tx_open_txg < tx_quiesce_txg_waiting'
    BY ONLY SMT, <2>f
  <2>1. SyncSleepInv'
    BY ZenonT(40), <1>i, <1>d, <1>8, <2>a
       DEF SyncSleepInv, AboutToPrompt, CVs, Closing, LockTypeOK, ThreadsInv
  <2>2. QuiesceSleepInv'
    BY ZenonT(40), <1>i, <1>d, <1>8 DEF QuiesceSleepInv, CVs, LockTypeOK
  <2>3. WaiterSleepInv'
    <3>1. ASSUME NEW x \in Waiters, wait_pc'[x] = "open"
          PROVE  wait_txg'[x] <= tx_quiesce_txg_waiting'
      <4>1. wait_pc[x] = "open" /\ wait_txg'[x] = wait_txg[x]
        BY ZenonT(40), <1>i, <1>8, <3>1 DEF ThreadTypeOK
      <4>2. wait_txg[x] <= tx_quiesce_txg_waiting /\ wait_txg[x] \in Nat
        BY Zenon, <1>i, <4>1 DEF WaiterSleepInv, ThreadTypeOK
      <4> QED
        BY ONLY SMT, <2>f, <2>0, <4>1, <4>2
    <3> QED
      BY ZenonT(40), <1>i, <1>8, <3>1 DEF WaiterSleepInv, CVs, Closing, LockTypeOK, ThreadTypeOK
  <2>4. StopSleepInv'
    BY ZenonT(40), <1>i, <1>8 DEF StopSleepInv, CVs, LockTypeOK
  <2> QED
    BY Zenon, <2>1, <2>2, <2>3, <2>4 DEF SleepInv
<1>9. {0} \cup InitTxg .. tx_open_txg \subseteq Nat
      /\ {0} \cup InitTxg .. (tx_open_txg + 1) \subseteq Nat
  BY SMT, <1>i, InitTxgAssumption DEF StateTypeOK
<1> QED
  BY Zenon, <1>1, <1>2, <1>3, <1>4, <1>5, <1>6, <1>7, <1>8, <1>9 DEF WaiterNext

LEMMA StopSleepStep ==
    ASSUME IndInv, SleepInv, StopNext
    PROVE  SleepInv'
<1>i. /\ StateTypeOK /\ LockTypeOK /\ ThreadTypeOK /\ ThreadsInv /\ StopInv
      /\ SyncSleepInv /\ QuiesceSleepInv /\ WaiterSleepInv /\ StopSleepInv
  BY Zenon DEF IndInv, TypeOK, SleepInv
<1>d. /\ SyncThread # StopThread /\ QuiesceThread # StopThread
      /\ StopThread \notin Waiters /\ NoThread \notin Waiters
      /\ NoThread # StopThread /\ NoThread # SyncThread
  BY Zenon, ThreadsDistinct
<1>1. CASE TxgSyncStop
  <2> USE DEF TxgSyncStop
  <2>m. /\ tx_sync_txg_waiting <= tx_sync_txg_waiting'
        /\ stop_txg' <= tx_sync_txg_waiting' /\ stop_txg' \in Nat
        /\ tx_sync_txg_waiting' \in {tx_sync_txg_waiting, stop_txg'}
    BY SMT, <1>i, <1>1 DEF Max2, StateTypeOK, TXG_DEFER_SIZE
  <2>a. tx_synced_txg >= stop_txg' \/ tx_synced_txg < stop_txg'
    BY SMT, <1>i, <2>m DEF StateTypeOK
  <2>1. SyncSleepInv'
    BY ZenonT(40), <1>i, <1>d, <1>1, <2>m, <2>a
       DEF SyncSleepInv, AboutToPrompt, CVs, Closing
  <2>2. QuiesceSleepInv'
    BY ZenonT(40), <1>i, <1>d, <1>1 DEF QuiesceSleepInv, AboutToAsk
  <2>3. WaiterSleepInv'
    BY ZenonT(40), <1>i, <1>1 DEF WaiterSleepInv, CVs, Closing
  <2>4. StopSleepInv'
    BY ZenonT(40), <1>i, <1>1, <2>m DEF StopSleepInv, CVs, PoolInUse
  <2> QED
    BY Zenon, <2>1, <2>2, <2>3, <2>4 DEF SleepInv
<1>2. CASE StopWaitLoop /\ tx_synced_txg < stop_txg
  <2>e. /\ stop_pc = "wait" /\ CanRun(StopThread) /\ tx_synced_txg < stop_txg
        /\ BroadcastAndWait({"sync_more"}, StopThread, "sync_done")
        /\ tx_sync_lock' = NoThread
        /\ UNCHANGED <<pipeline, waiting, life, holds, sync_pc, quiesce, waiters, stop>>
    BY Zenon, <1>2 DEF StopWaitLoop
  <2> USE DEF BroadcastAndWait
  <2>1. SyncSleepInv'
    BY ZenonT(40), <1>i, <1>d, <2>e DEF SyncSleepInv, CVs, Closing, LockTypeOK
  <2>2. QuiesceSleepInv'
    BY ZenonT(40), <1>i, <1>d, <2>e
       DEF QuiesceSleepInv, AboutToAsk, CanRun, CVs, LockTypeOK
  <2>3. WaiterSleepInv'
    BY ZenonT(40), <1>i, <1>d, <2>e DEF WaiterSleepInv, CVs, Closing, LockTypeOK
  <2>4. StopSleepInv'
    BY ZenonT(40), <1>i, <2>e DEF StopSleepInv, CVs, LockTypeOK
  <2> QED
    BY Zenon, <2>1, <2>2, <2>3, <2>4 DEF SleepInv
<1>3. CASE StopWaitLoop /\ ~(tx_synced_txg < stop_txg)
  <2> USE DEF StopWaitLoop
  <2>1. SyncSleepInv'
    BY ZenonT(40), <1>i, <1>d, <1>3 DEF SyncSleepInv, AboutToPrompt, CanRun, CVs, Closing
  <2>2. QuiesceSleepInv'
    BY ZenonT(40), <1>i, <1>d, <1>3 DEF QuiesceSleepInv, AboutToAsk, CanRun, CVs
  <2>3. WaiterSleepInv'
    BY Zenon, <1>i, <1>3 DEF WaiterSleepInv, Closing
  <2>4. StopSleepInv'
    BY ZenonT(40), <1>i, <1>3 DEF StopSleepInv, CanRun, Asleep, CVs
  <2> QED
    BY Zenon, <2>1, <2>2, <2>3, <2>4 DEF SleepInv
<1>4. CASE StopExiting
  <2> USE DEF StopExiting, Broadcast
  <2>0. \A w \in Waiters : wait_pc[w] = "idle"
    BY Zenon, <1>i, <1>4 DEF StopInv
  <2>1. SyncSleepInv'
    BY ZenonT(40), <1>i, <1>d, <1>4 DEF SyncSleepInv, ThreadsInv, CVs, LockTypeOK
  <2>2. QuiesceSleepInv'
    BY ZenonT(40), <1>i, <1>4 DEF QuiesceSleepInv, CVs, LockTypeOK
  <2>3. WaiterSleepInv'
    BY ZenonT(40), <1>i, <1>4, <2>0 DEF WaiterSleepInv, CVs, LockTypeOK
  <2>4. StopSleepInv'
    BY ZenonT(40), <1>i, <1>4 DEF StopSleepInv, CVs, LockTypeOK
  <2> QED
    BY Zenon, <2>1, <2>2, <2>3, <2>4 DEF SleepInv
<1>5. CASE StopJoin /\ tx_threads # 0
  <2>e. /\ stop_pc = "join" /\ CanRun(StopThread) /\ tx_threads # 0
        /\ BroadcastAndWait({}, StopThread, "exit")
        /\ tx_sync_lock' = NoThread
        /\ UNCHANGED <<pipeline, waiting, life, holds, sync_pc, quiesce, waiters, stop>>
    BY Zenon, <1>5 DEF StopJoin
  <2>x. tx_exiting # 0
    <3>1. tx_exiting = 1
      BY Zenon, <1>i, <2>e DEF StopSleepInv
    <3> QED
      BY ONLY SMT, <3>1
  <2> USE DEF BroadcastAndWait
  <2>1. SyncSleepInv'
    BY ZenonT(40), <1>i, <1>d, <2>e, <2>x DEF SyncSleepInv, CVs, LockTypeOK
  <2>2. QuiesceSleepInv'
    BY ZenonT(40), <1>i, <1>d, <2>e, <2>x DEF QuiesceSleepInv, CVs, LockTypeOK
  <2>3. WaiterSleepInv'
    BY ZenonT(40), <1>i, <1>d, <2>e DEF WaiterSleepInv, CVs, Closing, LockTypeOK
  <2>4. StopSleepInv'
    BY ZenonT(40), <1>i, <2>e DEF StopSleepInv, CVs, LockTypeOK
  <2> QED
    BY Zenon, <2>1, <2>2, <2>3, <2>4 DEF SleepInv
<1>6. CASE StopJoin /\ ~(tx_threads # 0)
  <2> USE DEF StopJoin
  <2>0. sync_pc = "none" /\ quiesce_pc = "none"
    BY SMT, <1>i, <1>6 DEF ThreadsInv
  <2>1. SyncSleepInv'
    BY Zenon, <1>i, <1>6, <2>0 DEF SyncSleepInv, CVs
  <2>2. QuiesceSleepInv'
    BY Zenon, <1>i, <1>6, <2>0 DEF QuiesceSleepInv, CVs
  <2>3. WaiterSleepInv'
    BY Zenon, <1>i, <1>6 DEF WaiterSleepInv, Closing
  <2>4. StopSleepInv'
    BY SMT, <1>i, <1>6 DEF StopSleepInv, CanRun, Asleep, CVs
  <2> QED
    BY Zenon, <2>1, <2>2, <2>3, <2>4 DEF SleepInv
<1> QED
  BY Zenon, <1>1, <1>2, <1>3, <1>4, <1>5, <1>6 DEF StopNext

LEMMA OtherSleepStep ==
    ASSUME IndInv, SleepInv,
           TxgSyncStart \/ TxgDoCallbacks \/ SpuriousWakeup \/ UNCHANGED vars
    PROVE  SleepInv'
<1>i. /\ StateTypeOK /\ LockTypeOK /\ ThreadsInv
      /\ SyncSleepInv /\ QuiesceSleepInv /\ WaiterSleepInv /\ StopSleepInv
  BY Zenon DEF IndInv, TypeOK, SleepInv
<1>1. CASE TxgSyncStart
  <2> USE DEF TxgSyncStart
  <2>1. SyncSleepInv'
    BY Zenon, <1>i, <1>1 DEF SyncSleepInv, CVs
  <2>2. QuiesceSleepInv'
    BY ZenonT(40), <1>i, <1>1 DEF QuiesceSleepInv, CVs
  <2>3. WaiterSleepInv'
    BY ZenonT(40), <1>i, <1>1 DEF WaiterSleepInv, Closing
  <2>4. StopSleepInv'
    BY Zenon, <1>i, <1>1 DEF StopSleepInv
  <2> QED
    BY Zenon, <2>1, <2>2, <2>3, <2>4 DEF SleepInv
<1>2. CASE TxgDoCallbacks \/ SpuriousWakeup \/ UNCHANGED vars
  <2>1. UNCHANGED <<pipeline, waiting, life, tx_sync_lock, sync_pc, waiters, stop,
                    quiesce, holds>>
    BY ZenonT(40), <1>2 DEF TxgDoCallbacks, SpuriousWakeup, vars
  <2>2. \A u \in Sleepers, v \in CVs : u \in cv'[v] => u \in cv[v]
    BY ZenonT(40), <1>i, <1>2 DEF TxgDoCallbacks, SpuriousWakeup, vars, LockTypeOK
  <2>3. Closing' = Closing
    BY Zenon, <2>1 DEF Closing
  <2>4. SyncSleepInv' /\ WaiterSleepInv' /\ StopSleepInv'
    BY Zenon, <1>i, <2>1, <2>2, <2>3, SleepFrame
  <2>5. \A v \in CVs : QuiesceThread \in cv'[v] => QuiesceThread \in cv[v]
    BY Zenon, <2>2 DEF Sleepers
  <2>6. QuiesceThread \in cv'["tc"] => tc_count'[q_cpu][Slot(q_txg)] # 0
    BY Zenon, <1>i, <2>1, <2>5 DEF QuiesceSleepInv, CVs
  <2>7. QuiesceSleepInv'
    BY Zenon, <2>1, <2>5, <2>6, QuiesceSleepFrame
  <2> QED
    BY Zenon, <2>4, <2>7 DEF SleepInv
<1> QED
  BY Zenon, <1>1, <1>2

LEMMA SleepInvariance == Spec => []SleepInv
<1>1. Init => SleepInv
  BY SMT, InitTxgAssumption
     DEF Init, SleepInv, SyncSleepInv, QuiesceSleepInv, WaiterSleepInv,
         StopSleepInv, CVs
<1>2. IndInv /\ SleepInv /\ [Next]_vars => SleepInv'
  BY Zenon, TxSleepStep, QuiesceSleepStep, SyncSleepStep, WaiterSleepStep,
     StopSleepStep, OtherSleepStep DEF Next
<1> QED
  BY <1>1, <1>2, Invariance, PTL DEF Spec

(* The owner of tx_sync_lock stays awake.                                   *)
LEMMA LockStep ==
    ASSUME IndInv, SleepInv, LockInv, [Next]_vars
    PROVE  LockInv'
<1>i. /\ StateTypeOK /\ LockTypeOK /\ ThreadTypeOK /\ ThreadsInv
      /\ SyncSleepInv /\ QuiesceSleepInv /\ WaiterSleepInv /\ StopSleepInv
  BY Zenon DEF IndInv, TypeOK, SleepInv
<1>d. /\ NoThread \notin Txs /\ NoThread # QuiesceThread
      /\ SyncThread \notin Txs /\ QuiesceThread \notin Txs /\ StopThread \notin Txs
      /\ Waiters \cap Txs = {} /\ SyncThread # QuiesceThread
      /\ StopThread # QuiesceThread /\ QuiesceThread \notin Waiters
  BY Zenon, ThreadsDistinct
<1>1. CASE tx_sync_lock' = NoThread
  BY Zenon, <1>d, <1>1 DEF LockInv
<1>2. CASE /\ tx_sync_lock' = tx_sync_lock
           /\ tx_sync_lock = QuiesceThread => quiesce_pc' = quiesce_pc
           /\ \A v \in CVs : tx_sync_lock \in cv'[v] => tx_sync_lock \in cv[v]
  BY Zenon, <1>2 DEF LockInv, Asleep
<1>3. ASSUME NEW t \in Txs, TxNext(t) PROVE LockInv'
  <2>1. /\ tx_sync_lock' = tx_sync_lock /\ quiesce_pc' = quiesce_pc
        /\ t # tx_sync_lock
    BY Zenon, <1>3
       DEF TxNext, TxgHoldOpen, TxgDelayWait, TxgDelayDone, TxgReleToQuiesce,
           TxgRegisterCallbacks, TxgReleToSync, LockInv
  <2>2. ASSUME NEW v \in CVs, tx_sync_lock \in cv'[v] PROVE tx_sync_lock \in cv[v]
    BY ZenonT(40), <1>3, <2>1, <2>2
       DEF TxNext, TxgHoldOpen, TxgDelayWait, TxgDelayDone, TxgReleToQuiesce,
           TxgRegisterCallbacks, TxgReleToSync, Broadcast, BroadcastAndWait
  <2> QED
    BY Zenon, <1>2, <2>1, <2>2
<1>4. CASE QuiesceNext
  <2>1. CASE QuiesceWaitMore \/ QuiesceExit \/ QuiesceStart
    BY Zenon, <1>1, <2>1 DEF QuiesceWaitMore, QuiesceExit, QuiesceStart
  <2>2. CASE \/ QuiesceLockCpu \/ QuiesceAdvance \/ QuiesceUnlockCpu
             \/ QuiesceDrainCpu
    <3>1. tx_sync_lock' = tx_sync_lock /\ quiesce_pc # "more" /\ cv' = cv
      BY Zenon, <2>2 DEF QuiesceLockCpu, QuiesceAdvance, QuiesceUnlockCpu, QuiesceDrainCpu
    <3> QED
      BY Zenon, <1>2, <3>1 DEF LockInv
  <2>3. CASE QuiesceDrainWait
    <3>1. tx_sync_lock' = tx_sync_lock /\ tx_sync_lock # QuiesceThread
      BY Zenon, <2>3 DEF QuiesceDrainWait, LockInv
    <3>2. \A v \in CVs : tx_sync_lock \in cv'[v] => tx_sync_lock \in cv[v]
      BY Zenon, <2>3, <3>1 DEF QuiesceDrainWait, BroadcastAndWait
    <3> QED
      BY Zenon, <1>2, <3>1, <3>2
  <2>4. CASE QuiesceHandOff
    <3>1. \A v \in CVs : QuiesceThread \notin cv[v]
      BY SMT, <1>i, <2>4 DEF QuiesceHandOff, QuiesceSleepInv, CVs, CPUs, ThreadTypeOK
    <3>2. \A v \in CVs : QuiesceThread \notin cv'[v]
      BY Zenon, <2>4, <3>1 DEF QuiesceHandOff, Broadcast
    <3> QED
      BY Zenon, <1>d, <2>4, <3>2 DEF QuiesceHandOff, LockInv, Asleep
  <2> QED
    BY Zenon, <1>4, <2>1, <2>2, <2>3, <2>4 DEF QuiesceNext
<1>5. CASE SyncNext
  <2>1. CASE tx_sync_lock' # NoThread
    <3>1. /\ tx_sync_lock' = SyncThread /\ \A v \in CVs : SyncThread \notin cv[v]
          /\ \A v \in CVs : cv'[v] \subseteq cv[v]
      <4>1. CASE SyncPrompt
        BY Zenon, <2>1, <4>1 DEF SyncPrompt, CanRun, Asleep
      <4>2. CASE SyncDone
        BY Zenon, <1>i, <4>2 DEF SyncDone, SyncSleepInv, CVs, Broadcast
      <4> QED
        BY Zenon, <1>5, <2>1, <4>1, <4>2
           DEF SyncNext, SyncWaitMore, SyncRaise, SyncExit, SyncTake
    <3> QED
      BY Zenon, <1>d, <3>1 DEF LockInv, Asleep
  <2> QED
    BY Zenon, <1>1, <2>1
<1>6. ASSUME NEW w \in Waiters, WaiterNext(w) PROVE LockInv'
  <2>1. CASE tx_sync_lock' # NoThread
    <3>1. tx_sync_lock' = w /\ wait_pc[w] = "idle" /\ cv' = cv
      BY Zenon, <1>6, <2>1
         DEF WaiterNext, TxgWaitSynced, TxgWaitOpen, TxgKick, WaitSyncedLoop,
             WaitOpenLoop, TxgKickRaise
    <3>2. \A v \in CVs : w \notin cv[v]
      BY Zenon, <1>i, <3>1 DEF WaiterSleepInv
    <3> QED
      BY Zenon, <1>d, <3>1, <3>2 DEF LockInv, Asleep
  <2> QED
    BY Zenon, <1>1, <2>1
<1>7. CASE StopNext
  <2>1. CASE tx_sync_lock' # NoThread
    <3>1. /\ tx_sync_lock' = StopThread /\ stop_pc \in {"idle", "synced"}
          /\ \A v \in CVs : cv'[v] \subseteq cv[v]
      BY Zenon, <1>7, <2>1
         DEF StopNext, TxgSyncStop, StopWaitLoop, StopExiting, StopJoin, PoolInUse,
             Broadcast
    <3>2. \A v \in CVs : StopThread \notin cv[v]
      BY Zenon, <1>i, <3>1 DEF StopSleepInv
    <3> QED
      BY Zenon, <1>d, <3>1, <3>2 DEF LockInv, Asleep
  <2> QED
    BY Zenon, <1>1, <2>1
<1>8. CASE TxgSyncStart \/ TxgDoCallbacks \/ SpuriousWakeup \/ UNCHANGED vars
  <2>1. /\ tx_sync_lock' = tx_sync_lock
        /\ tx_sync_lock = QuiesceThread => quiesce_pc' = quiesce_pc
    BY ZenonT(40), <1>8, <1>d DEF TxgSyncStart, TxgDoCallbacks, SpuriousWakeup, vars
  <2>2. \A v \in CVs : cv'[v] \subseteq cv[v]
    BY ZenonT(40), <1>i, <1>8 DEF TxgSyncStart, TxgDoCallbacks, SpuriousWakeup, vars, LockTypeOK
  <2> QED
    BY Zenon, <1>2, <2>1, <2>2
<1> QED
  BY Zenon, <1>3, <1>4, <1>5, <1>6, <1>7, <1>8 DEF Next

LEMMA LockInvariance == Spec => []LockInv
<1>1. Init => LockInv
  BY Zenon, ThreadsDistinct DEF Init, LockInv
<1>2. IndInv /\ SleepInv /\ LockInv /\ [Next]_vars => LockInv'
  BY Zenon, LockStep
<1> QED
  BY <1>1, <1>2, Invariance, SleepInvariance, PTL DEF Spec

(* The quiesce thread sleeps in txg_quiesce only for a transaction of the    *)
(* txg it closes.                                                            *)
LEMMA DrainWaitsForTx ==
    ASSUME IndInv, QuiesceSleepInv, QuiesceThread \in cv["tc"]
    PROVE  /\ quiesce_pc = "drain"
           /\ \E t \in Txs : InTxg(t) /\ th[t].txg = q_txg
<1>1. /\ quiesce_pc = "drain" /\ q_cpu \in CPUs
      /\ tc_count[q_cpu][Slot(q_txg)] # 0
  BY Zenon DEF QuiesceSleepInv
<1>2. Slot(q_txg) \in Slots /\ q_txg \in Nat
  BY Zenon, SlotFacts DEF IndInv, TypeOK, ThreadTypeOK
<1>3. HoldsOn(q_cpu, Slot(q_txg)) # {}
  BY Zenon, <1>1, <1>2, FS_EmptySet DEF IndInv, HoldCountsExact
<1>4. PICK t \in Txs : InTxg(t) /\ Slot(th[t].txg) = Slot(q_txg)
  BY Zenon, <1>3 DEF HoldsOn
<1>5. \/ th[t].txg = q_txg
      \/ th[t].txg = tx_open_txg
  BY ZenonT(40), <1>4 DEF IndInv, HoldersInv
<1>6. tx_open_txg = q_txg + 1
  BY <1>1, PipelineFacts DEF IndInv, TypeOK, PipelineInv, Closing
<1>7. th[t].txg = q_txg
  BY ONLY SMT, <1>2, <1>4, <1>5, <1>6 DEF Slot, TXG_SIZE
<1> QED
  BY Zenon, <1>1, <1>4, <1>7

(* As long as a caller of txg_wait_synced, txg_wait_open or txg_sync_stop    *)
(* sleeps, the owner of tx_sync_lock or one of the two threads is awake, or  *)
(* the quiesce thread waits for a transaction of the txg it closes: the      *)
(* broadcasts of txg.c lose no wakeup, whatever the number of callers.       *)
THEOREM PipelineNeverStalls == Spec => []NoStall
<1>1. ASSUME IndInv, SleepInv, LockInv PROVE NoStall
  <2>i. /\ StateTypeOK /\ ThreadTypeOK /\ ThreadsInv
        /\ SyncSleepInv /\ QuiesceSleepInv /\ WaiterSleepInv /\ StopSleepInv
    BY Zenon, <1>1 DEF IndInv, TypeOK, SleepInv
  <2> DEFINE Draining == /\ quiesce_pc = "drain"
                         /\ \E t \in Txs : InTxg(t) /\ th[t].txg = q_txg
  <2> SUFFICES ASSUME NEW u \in Waiters \cup {StopThread}, Asleep(u),
                      ~(tx_sync_lock # NoThread /\ ~Asleep(tx_sync_lock)),
                      sync_pc = "none" \/ Asleep(SyncThread),
                      quiesce_pc = "none" \/ Asleep(QuiesceThread)
               PROVE  Draining
    BY Zenon DEF NoStall
  <2>1. tx_sync_lock = NoThread /\ ~AboutToPrompt /\ ~AboutToAsk
    BY Zenon, <1>1, ThreadsDistinct DEF LockInv, AboutToPrompt, AboutToAsk
  <2>2. ASSUME QuiesceThread \in cv["tc"] PROVE Draining
    BY Zenon, <1>1, <2>i, <2>2, DrainWaitsForTx
  <2> SUFFICES ASSUME QuiesceThread \notin cv["tc"] PROVE FALSE
    BY Zenon, <2>2
  <2> HIDE DEF Draining
  <2>3. \/ sync_pc = "none"
        \/ /\ tx_exiting = 0 /\ tx_quiesced_txg = 0
           /\ \/ tx_synced_txg >= tx_sync_txg_waiting /\ sync_pc = "more"
              \/ Closing \/ tx_open_txg < tx_quiesce_txg_waiting
    BY Zenon, <2>i, <2>1 DEF SyncSleepInv, Asleep
  <2>4. \/ quiesce_pc = "none"
        \/ /\ tx_exiting = 0 /\ quiesce_pc = "more"
           /\ tx_quiesced_txg # 0 \/ tx_open_txg >= tx_quiesce_txg_waiting
    BY ZenonT(40), <2>i, <2>1 DEF QuiesceSleepInv, Asleep
  <2>5. CASE u \in Waiters /\ u \in cv["sync_done"]
    <3>1. /\ tx_threads = 2 /\ tx_synced_txg < wait_txg[u]
          /\ wait_txg[u] <= tx_sync_txg_waiting
      BY Zenon, <2>i, <2>5 DEF WaiterSleepInv
    <3> QED
      BY ONLY SMT, <2>i, <2>3, <2>4, <2>5, <3>1
         DEF ThreadsInv, StateTypeOK, ThreadTypeOK, Closing
  <2>6. CASE u \in Waiters /\ u \in cv["quiesce_done"]
    <3>1. /\ tx_threads = 2
          /\ Closing \/ tx_open_txg < wait_txg[u]
          /\ wait_txg[u] <= tx_quiesce_txg_waiting
      BY Zenon, <2>i, <2>6 DEF WaiterSleepInv
    <3> QED
      BY ONLY SMT, <2>i, <2>3, <2>4, <2>6, <3>1
         DEF ThreadsInv, StateTypeOK, ThreadTypeOK, Closing
  <2>7. CASE u = StopThread /\ u \in cv["sync_done"]
    <3>1. /\ tx_threads = 2 /\ tx_synced_txg < stop_txg
          /\ stop_txg <= tx_sync_txg_waiting
      BY Zenon, <2>i, <2>7 DEF StopSleepInv
    <3> QED
      BY ONLY SMT, <2>i, <2>3, <2>4, <3>1
         DEF ThreadsInv, StateTypeOK, ThreadTypeOK, Closing
  <2>8. CASE u = StopThread /\ u \in cv["exit"]
    <3>1. tx_threads # 0 /\ tx_exiting = 1
      BY Zenon, <2>i, <2>8 DEF StopSleepInv
    <3> QED
      BY ONLY SMT, <2>i, <2>3, <2>4, <3>1 DEF ThreadsInv
  <2> QED
    BY Zenon, <2>i, <2>5, <2>6, <2>7, <2>8 DEF Asleep, WaiterSleepInv, StopSleepInv
<1> QED
  BY <1>1, Invariance, SleepInvariance, LockInvariance, PTL
=============================================================================
