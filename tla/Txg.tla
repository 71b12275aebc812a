-------------------------------- MODULE Txg --------------------------------
(***************************************************************************)
(* The transaction-group (txg) pipeline of module/zfs/txg.c.               *)
(*                                                                         *)
(* Every change to a pool is made by a transaction that joins the open     *)
(* txg.  The quiesce thread closes that txg, waits for the transactions    *)
(* in it to finish and hands it to the sync thread, which writes it out.   *)
(* At most three txgs are active at a time, so per-txg state lives in      *)
(* arrays of TXG_SIZE slots indexed by  txg & TXG_MASK.                    *)
(*                                                                         *)
(* Granularity.  tx_sync_lock and the tc_open_locks are explicit.  A step  *)
(* is a stretch of code that runs under tx_sync_lock up to the next        *)
(* cv_wait, unlock, or second read of tx_open_txg: that field is advanced  *)
(* WITHOUT tx_sync_lock (under all the tc_open_locks), so code that reads  *)
(* it twice under tx_sync_lock is two steps.  tc_lock only guards single   *)
(* updates and has no variable.  A condition variable is its set of        *)
(* sleepers: a broadcast empties it, so a wakeup sent before the sleep is  *)
(* lost, as it is in the code.                                             *)
(***************************************************************************)
EXTENDS Naturals, FiniteSets

CONSTANTS Txs,            \* threads that run transactions
          Waiters,        \* threads that call txg_wait_synced/_open, txg_kick
          SyncThread,     \* tx_sync_thread
          QuiesceThread,  \* tx_quiesce_thread
          StopThread,     \* the caller of txg_sync_stop
          NoThread,       \* the owner of a free mutex
          NCPU,           \* boot_ncpus: number of tx_cpu_t
          InitTxg,        \* the txg given to txg_init
          MaxTxg,         \* bound: the last txg that is ever opened
          MaxCallbacks    \* bound: commit callbacks ever registered

ASSUME NCPUAssumption == NCPU \in Nat \ {0}
ASSUME InitTxgAssumption == InitTxg \in Nat \ {0}
ASSUME BoundsAssumption == MaxTxg \in Nat /\ MaxCallbacks \in Nat
ASSUME TxsFinite == IsFiniteSet(Txs)
ASSUME ThreadsDistinct ==
    /\ Txs \cap Waiters = {}
    /\ {SyncThread, QuiesceThread, StopThread, NoThread}
           \cap (Txs \cup Waiters) = {}
    /\ SyncThread # QuiesceThread /\ SyncThread # StopThread
    /\ SyncThread # NoThread /\ QuiesceThread # StopThread
    /\ QuiesceThread # NoThread /\ StopThread # NoThread

TXG_SIZE == 4
TXG_DEFER_SIZE == 2

CPUs == 0 .. (NCPU - 1)
Slots == 0 .. (TXG_SIZE - 1)

\* txg & TXG_MASK
Slot(txg) == txg % TXG_SIZE

Threads == Txs \cup Waiters \cup {SyncThread, QuiesceThread, StopThread}
CVs == {"sync_more", "sync_done", "quiesce_more", "quiesce_done", "exit",
        "tc"}

VARIABLES
    \* tx_state_t
    tx_open_txg, tx_quiesced_txg, tx_syncing_txg, tx_synced_txg,
    tx_sync_txg_waiting, tx_quiesce_txg_waiting,
    tx_threads, tx_exiting,
    tx_sync_lock,      \* owner of the mutex
    cv,                \* cv[v]: threads asleep on condition variable v
    \* tx_cpu_t, one per cpu
    tc_open_lock,      \* owner of the mutex
    tc_count,          \* [cpu][slot] open holds
    tc_callbacks,      \* [cpu][slot] callbacks registered, not dispatched
    cb_taskq,          \* callbacks handed to tx_commit_cb_taskq
    cb_done,           \* callbacks that have run
    \* threads
    tx_pc, th,         \* transactions: where each is, and its txg_handle_t
    sync_pc, quiesce_pc,
    q_txg, q_cpu,      \* txg_quiesce: the txg being quiesced, the loop index
    wait_pc, wait_txg, \* waiters: where each is, and the txg awaited
    stop_pc, stop_txg  \* txg_sync_stop

pipeline == <<tx_open_txg, tx_quiesced_txg, tx_syncing_txg, tx_synced_txg>>
waiting  == <<tx_sync_txg_waiting, tx_quiesce_txg_waiting>>
life     == <<tx_threads, tx_exiting>>
holds    == <<tc_open_lock, tc_count, tx_pc, th>>
cbs      == <<tc_callbacks, cb_taskq, cb_done>>
quiesce  == <<quiesce_pc, q_txg, q_cpu>>
waiters  == <<wait_pc, wait_txg>>
stop     == <<stop_pc, stop_txg>>

vars == <<pipeline, waiting, life, tx_sync_lock, cv, holds, cbs, sync_pc,
          quiesce, waiters, stop>>

-----------------------------------------------------------------------------
(* Mutexes and condition variables.                                        *)

Asleep(t) == \E v \in CVs : t \in cv[v]

\* t holds tx_sync_lock, or is awake and can take it
CanRun(t) == tx_sync_lock \in {t, NoThread} /\ ~Asleep(t)

\* cv_broadcast on every condition variable of V
Broadcast(V) == cv' = [v \in CVs |-> IF v \in V THEN {} ELSE cv[v]]

\* cv_broadcast on V, then t waits on w
BroadcastAndWait(V, t, w) ==
    cv' = [v \in CVs |-> (IF v \in V THEN {} ELSE cv[v])
                          \cup (IF v = w THEN {t} ELSE {})]

Max2(a, b) == IF a < b THEN b ELSE a

-----------------------------------------------------------------------------

NoHandle == [cpu |-> 0, txg |-> 0]

\* txg_init: bzero, then tx_open_txg = txg
Init ==
    /\ tx_open_txg = InitTxg
    /\ tx_quiesced_txg = 0 /\ tx_syncing_txg = 0 /\ tx_synced_txg = 0
    /\ tx_sync_txg_waiting = 0 /\ tx_quiesce_txg_waiting = 0
    /\ tx_threads = 0 /\ tx_exiting = 0
    /\ tx_sync_lock = NoThread
    /\ cv = [v \in CVs |-> {}]
    /\ tc_open_lock = [c \in CPUs |-> NoThread]
    /\ tc_count = [c \in CPUs |-> [g \in Slots |-> 0]]
    /\ tc_callbacks = [c \in CPUs |-> [g \in Slots |-> {}]]
    /\ cb_taskq = {} /\ cb_done = {}
    /\ tx_pc = [t \in Txs |-> "idle"]
    /\ th = [t \in Txs |-> NoHandle]
    /\ sync_pc = "none"
    /\ quiesce_pc = "none" /\ q_txg = 0 /\ q_cpu = 0
    /\ wait_pc = [w \in Waiters |-> "idle"]
    /\ wait_txg = [w \in Waiters |-> 0]
    /\ stop_pc = "idle" /\ stop_txg = 0

TxgSyncStart ==
    /\ sync_pc = "none" /\ quiesce_pc = "none" /\ stop_pc = "idle"
    /\ tx_sync_lock = NoThread
    /\ tx_threads' = 2
    /\ sync_pc' = "more" /\ quiesce_pc' = "more"
    /\ UNCHANGED <<pipeline, waiting, tx_exiting, tx_sync_lock, cv, holds,
                   cbs, q_txg, q_cpu, waiters, stop>>

\* The pool is in use: callers hold a reference on it, so it is not being
\* unloaded (spa_unload calls txg_sync_stop once the last one is gone).
PoolInUse == tx_threads = 2 /\ stop_pc = "idle"

-----------------------------------------------------------------------------
(* Transactions: dmu_tx_assign and dmu_tx_commit drive the four calls.     *)

\* Mutant: the hold is not counted.
TxgHoldOpenNoCount(t, c) ==
    /\ PoolInUse
    /\ tx_pc[t] = "idle"
    /\ tc_open_lock[c] = NoThread
    /\ tc_open_lock' = [tc_open_lock EXCEPT ![c] = t]
    /\ UNCHANGED tc_count
    /\ th' = [th EXCEPT ![t] = [cpu |-> c, txg |-> tx_open_txg]]
    /\ tx_pc' = [tx_pc EXCEPT ![t] = "held"]
    /\ UNCHANGED <<pipeline, waiting, life, tx_sync_lock, cv, cbs, sync_pc,
                   quiesce, waiters, stop>>

\* Mutant: the txg is read before the lock is taken.
TxgHoldOpenStale(t, c) ==
    LET txg == IF quiesce_pc \in {"unlock", "drain"} THEN q_txg ELSE tx_open_txg IN
    /\ PoolInUse
    /\ tx_pc[t] = "idle"
    /\ tc_open_lock[c] = NoThread
    /\ tc_open_lock' = [tc_open_lock EXCEPT ![c] = t]
    /\ tc_count' = [tc_count EXCEPT ![c][Slot(txg)] = @ + 1]
    /\ th' = [th EXCEPT ![t] = [cpu |-> c, txg |-> txg]]
    /\ tx_pc' = [tx_pc EXCEPT ![t] = "held"]
    /\ UNCHANGED <<pipeline, waiting, life, tx_sync_lock, cv, cbs, sync_pc,
                   quiesce, waiters, stop>>

\* Returns holding tc_open_lock, so the open txg cannot close under it.
TxgHoldOpen(t, c) ==
    /\ PoolInUse
    /\ tx_pc[t] = "idle"
    /\ tc_open_lock[c] = NoThread
    /\ tc_open_lock' = [tc_open_lock EXCEPT ![c] = t]
    /\ tc_count' = [tc_count EXCEPT ![c][Slot(tx_open_txg)] = @ + 1]
    /\ th' = [th EXCEPT ![t] = [cpu |-> c, txg |-> tx_open_txg]]
    /\ tx_pc' = [tx_pc EXCEPT ![t] = "held"]
    /\ UNCHANGED <<pipeline, waiting, life, tx_sync_lock, cv, cbs, sync_pc,
                   quiesce, waiters, stop>>

\* !txg_stalled and the txg two before this one still syncing
DelayCondition(t) ==
    /\ tx_syncing_txg < th[t].txg - 1
    /\ tx_quiesce_txg_waiting <= tx_open_txg

\* txg_delay goes to sleep (its other paths return with nothing changed).
\* The caller, dsl_dir_tempreserve_space, still holds tc_open_lock.
TxgDelayWait(t) ==
    /\ tx_pc[t] \in {"held", "delay"}
    /\ CanRun(t)
    /\ tx_pc[t] = "held" => /\ tx_open_txg <= th[t].txg
                            /\ tx_synced_txg # th[t].txg - 1
    /\ DelayCondition(t)
    /\ BroadcastAndWait({}, t, "quiesce_more")
    /\ tx_pc' = [tx_pc EXCEPT ![t] = "delay"]
    /\ UNCHANGED <<pipeline, waiting, life, tx_sync_lock, tc_open_lock,
                   tc_count, th, cbs, sync_pc, quiesce, waiters, stop>>

\* ... and leaves its loop: the delay has expired (awake or not), or it was
\* woken and the condition is gone.
TxgDelayDone(t) ==
    /\ tx_pc[t] = "delay"
    /\ tx_sync_lock = NoThread
    /\ cv' = [v \in CVs |-> cv[v] \ {t}]
    /\ tx_pc' = [tx_pc EXCEPT ![t] = "held"]
    /\ UNCHANGED <<pipeline, waiting, life, tx_sync_lock, tc_open_lock,
                   tc_count, th, cbs, sync_pc, quiesce, waiters, stop>>

TxgReleToQuiesce(t) ==
    /\ tx_pc[t] = "held"
    /\ tc_open_lock' = [tc_open_lock EXCEPT ![th[t].cpu] = NoThread]
    /\ tx_pc' = [tx_pc EXCEPT ![t] = "assigned"]
    /\ UNCHANGED <<pipeline, waiting, life, tx_sync_lock, cv, tc_count, th,
                   cbs, sync_pc, quiesce, waiters, stop>>

AllCallbacks ==
    cb_taskq \cup cb_done
      \cup UNION {tc_callbacks[c][g] : c \in CPUs, g \in Slots}

\* The callback gets a fresh id; txg records the txg it belongs to.
TxgRegisterCallbacks(t) ==
    /\ tx_pc[t] = "assigned"
    /\ \E id \in 1 .. MaxCallbacks :
          /\ \A cb \in AllCallbacks : cb.id < id
          /\ \A i \in 1 .. (id - 1) : \E cb \in AllCallbacks : cb.id = i
          /\ tc_callbacks' =
               [tc_callbacks EXCEPT ![th[t].cpu][Slot(th[t].txg)] =
                   @ \cup {[id |-> id, txg |-> th[t].txg]}]
    /\ tx_pc' = [tx_pc EXCEPT ![t] = "registered"]
    /\ UNCHANGED <<pipeline, waiting, life, tx_sync_lock, cv, tc_open_lock,
                   tc_count, th, cb_taskq, cb_done, sync_pc, quiesce,
                   waiters, stop>>

\* Wakes the quiesce thread when the count of the slot it waits on is zero.
TxgReleToSync(t) ==
    LET c == th[t].cpu
        g == Slot(th[t].txg)
    IN  /\ tx_pc[t] \in {"assigned", "registered"}
        /\ tc_count' = [tc_count EXCEPT ![c][g] = @ - 1]
        /\ IF tc_count'[c][g] = 0 /\ q_cpu = c /\ Slot(q_txg) = g
           THEN Broadcast({"tc"})
           ELSE cv' = cv
        /\ th' = [th EXCEPT ![t] = NoHandle]
        /\ tx_pc' = [tx_pc EXCEPT ![t] = "idle"]
        /\ UNCHANGED <<pipeline, waiting, life, tx_sync_lock, tc_open_lock,
                       cbs, sync_pc, quiesce, waiters, stop>>

-----------------------------------------------------------------------------
(* The quiesce thread: txg_quiesce_thread and txg_quiesce.                 *)

QuiesceWaitMore ==
    /\ quiesce_pc = "more" /\ CanRun(QuiesceThread)
    /\ tx_exiting = 0
    /\ tx_open_txg >= tx_quiesce_txg_waiting \/ tx_quiesced_txg # 0
    /\ BroadcastAndWait({}, QuiesceThread, "quiesce_more")
    /\ tx_sync_lock' = NoThread
    /\ UNCHANGED <<pipeline, waiting, life, holds, cbs, sync_pc, quiesce,
                   waiters, stop>>

\* Mutant: no cv_broadcast(&tx->tx_exit_cv).
QuiesceExitSilent ==
    /\ quiesce_pc = "more" /\ CanRun(QuiesceThread)
    /\ tx_exiting = 1
    /\ tx_threads' = tx_threads - 1
    /\ Broadcast({})
    /\ tx_sync_lock' = NoThread
    /\ quiesce_pc' = "none"
    /\ UNCHANGED <<pipeline, waiting, tx_exiting, holds, cbs, sync_pc, q_txg,
                   q_cpu, waiters, stop>>

\* txg_thread_exit
QuiesceExit ==
    /\ quiesce_pc = "more" /\ CanRun(QuiesceThread)
    /\ tx_exiting = 1
    /\ tx_threads' = tx_threads - 1
    /\ Broadcast({"exit"})
    /\ tx_sync_lock' = NoThread
    /\ quiesce_pc' = "none"
    /\ UNCHANGED <<pipeline, waiting, tx_exiting, holds, cbs, sync_pc, q_txg,
                   q_cpu, waiters, stop>>

QuiesceStart ==
    /\ quiesce_pc = "more" /\ CanRun(QuiesceThread)
    /\ tx_exiting = 0
    /\ tx_open_txg < tx_quiesce_txg_waiting /\ tx_quiesced_txg = 0
    /\ tx_open_txg < MaxTxg
    /\ q_txg' = tx_open_txg /\ q_cpu' = 0
    /\ quiesce_pc' = "lock"
    /\ tx_sync_lock' = NoThread
    /\ UNCHANGED <<pipeline, waiting, life, cv, holds, cbs, sync_pc, waiters,
                   stop>>

\* txg_quiesce: take the tc_open_locks, one after the other ...
QuiesceLockCpu ==
    /\ quiesce_pc = "lock" /\ q_cpu \in CPUs
    /\ tc_open_lock[q_cpu] = NoThread
    /\ tc_open_lock' = [tc_open_lock EXCEPT ![q_cpu] = QuiesceThread]
    /\ q_cpu' = q_cpu + 1
    /\ UNCHANGED <<pipeline, waiting, life, tx_sync_lock, cv, tc_count, tx_pc,
                   th, cbs, sync_pc, quiesce_pc, q_txg, waiters, stop>>

\* Mutant: advances before it has all the tc_open_locks.
QuiesceAdvanceEarly ==
    /\ quiesce_pc = "lock" /\ q_cpu > 0
    /\ tx_open_txg' = tx_open_txg + 1
    /\ quiesce_pc' = "unlock" /\ q_cpu' = 0
    /\ UNCHANGED <<tx_quiesced_txg, tx_syncing_txg, tx_synced_txg, waiting,
                   life, tx_sync_lock, cv, holds, cbs, sync_pc, q_txg,
                   waiters, stop>>

\* ... open the next txg ...
QuiesceAdvance ==
    /\ quiesce_pc = "lock" /\ q_cpu = NCPU
    /\ tx_open_txg' = tx_open_txg + 1
    /\ quiesce_pc' = "unlock" /\ q_cpu' = 0
    /\ UNCHANGED <<tx_quiesced_txg, tx_syncing_txg, tx_synced_txg, waiting,
                   life, tx_sync_lock, cv, holds, cbs, sync_pc, q_txg,
                   waiters, stop>>

\* ... release the locks ...
QuiesceUnlockCpu ==
    /\ quiesce_pc = "unlock" /\ q_cpu \in CPUs
    /\ tc_open_lock' = [tc_open_lock EXCEPT ![q_cpu] = NoThread]
    /\ IF q_cpu = NCPU - 1
       THEN quiesce_pc' = "drain" /\ q_cpu' = 0
       ELSE quiesce_pc' = quiesce_pc /\ q_cpu' = q_cpu + 1
    /\ UNCHANGED <<pipeline, waiting, life, tx_sync_lock, cv, tc_count, tx_pc,
                   th, cbs, sync_pc, q_txg, waiters, stop>>

\* ... and wait, cpu by cpu, for the holds on the old txg to go.
QuiesceDrainCpu ==
    /\ quiesce_pc = "drain" /\ q_cpu \in CPUs /\ ~Asleep(QuiesceThread)
    /\ tc_count[q_cpu][Slot(q_txg)] = 0
    /\ q_cpu' = q_cpu + 1
    /\ UNCHANGED <<pipeline, waiting, life, tx_sync_lock, cv, holds, cbs,
                   sync_pc, quiesce_pc, q_txg, waiters, stop>>

QuiesceDrainWait ==
    /\ quiesce_pc = "drain" /\ q_cpu \in CPUs /\ ~Asleep(QuiesceThread)
    /\ tc_count[q_cpu][Slot(q_txg)] # 0
    /\ BroadcastAndWait({}, QuiesceThread, "tc")
    /\ UNCHANGED <<pipeline, waiting, life, tx_sync_lock, holds, cbs, sync_pc,
                   quiesce, waiters, stop>>

\* Hand the txg to the sync thread; the loop starts again with the lock held.
QuiesceHandOff ==
    /\ quiesce_pc = "drain" /\ q_cpu = NCPU
    /\ tx_sync_lock = NoThread
    /\ tx_sync_lock' = QuiesceThread
    /\ tx_quiesced_txg' = q_txg
    /\ Broadcast({"sync_more", "quiesce_done"})
    /\ quiesce_pc' = "more" /\ q_txg' = 0 /\ q_cpu' = 0
    /\ UNCHANGED <<tx_open_txg, tx_syncing_txg, tx_synced_txg, waiting, life,
                   holds, cbs, sync_pc, waiters, stop>>

-----------------------------------------------------------------------------
(* The sync thread: txg_sync_thread.                                       *)

\* Nothing to do: wait on tx_sync_more_cv.  Whether the txg timeout has
\* expired, a scan is active or enough data is dirty is not modelled: when
\* nobody waits, the thread may sleep here or go on to SyncPrompt.
SyncWaitMore ==
    /\ sync_pc = "more" /\ CanRun(SyncThread)
    /\ tx_exiting = 0
    /\ tx_synced_txg >= tx_sync_txg_waiting
    /\ tx_quiesced_txg = 0
    /\ BroadcastAndWait({}, SyncThread, "sync_more")
    /\ tx_sync_lock' = NoThread
    /\ UNCHANGED <<pipeline, waiting, life, holds, cbs, sync_pc, quiesce,
                   waiters, stop>>

\* Ask the quiesce thread for a txg.  The test and the assignment of
\* tx_quiesce_txg_waiting read tx_open_txg separately.
SyncPrompt ==
    /\ sync_pc \in {"more", "prompt"} /\ CanRun(SyncThread)
    /\ tx_exiting = 0 /\ tx_quiesced_txg = 0
    /\ IF tx_quiesce_txg_waiting < tx_open_txg + 1
       THEN /\ sync_pc' = "raise"
            /\ tx_sync_lock' = SyncThread
            /\ cv' = cv
       ELSE /\ sync_pc' = "prompt"
            /\ tx_sync_lock' = NoThread
            /\ BroadcastAndWait({"quiesce_more"}, SyncThread, "quiesce_done")
    /\ UNCHANGED <<pipeline, waiting, life, holds, cbs, quiesce, waiters,
                   stop>>

SyncRaise ==
    /\ sync_pc = "raise"
    /\ tx_quiesce_txg_waiting' = tx_open_txg + 1
    /\ BroadcastAndWait({"quiesce_more"}, SyncThread, "quiesce_done")
    /\ sync_pc' = "prompt"
    /\ tx_sync_lock' = NoThread
    /\ UNCHANGED <<pipeline, tx_sync_txg_waiting, life, holds, cbs, quiesce,
                   waiters, stop>>

SyncExit ==
    /\ sync_pc \in {"more", "prompt"} /\ CanRun(SyncThread)
    /\ tx_exiting = 1
    /\ tx_threads' = tx_threads - 1
    /\ Broadcast({"exit"})
    /\ tx_sync_lock' = NoThread
    /\ sync_pc' = "none"
    /\ UNCHANGED <<pipeline, waiting, tx_exiting, holds, cbs, quiesce,
                   waiters, stop>>

\* Consume the quiesced txg and start spa_sync, without the lock.
SyncTake ==
    /\ sync_pc \in {"more", "prompt"} /\ CanRun(SyncThread)
    /\ tx_exiting = 0 /\ tx_quiesced_txg # 0
    /\ tx_quiesced_txg' = 0
    /\ tx_syncing_txg' = tx_quiesced_txg
    /\ Broadcast({"quiesce_more"})
    /\ sync_pc' = "syncing"
    /\ tx_sync_lock' = NoThread
    /\ UNCHANGED <<tx_open_txg, tx_synced_txg, waiting, life, holds, cbs,
                   quiesce, waiters, stop>>

\* Mutant: takes the slot of the next txg.
TxgDispatchCallbacksNext(txg) ==
    LET g == Slot(txg + 1)
    IN  /\ cb_taskq' = cb_taskq \cup UNION {tc_callbacks[c][g] : c \in CPUs}
        /\ tc_callbacks' =
             [c \in CPUs |-> [tc_callbacks[c] EXCEPT ![g] = {}]]
        /\ cb_done' = cb_done

\* txg_dispatch_callbacks: slot g of every cpu, whatever it holds
TxgDispatchCallbacks(txg) ==
    LET g == Slot(txg)
    IN  /\ cb_taskq' = cb_taskq \cup UNION {tc_callbacks[c][g] : c \in CPUs}
        /\ tc_callbacks' =
             [c \in CPUs |-> [tc_callbacks[c] EXCEPT ![g] = {}]]
        /\ cb_done' = cb_done

\* Mutant: no cv_broadcast(&tx->tx_sync_done_cv).
SyncDoneSilent ==
    /\ sync_pc = "syncing"
    /\ tx_sync_lock = NoThread
    /\ tx_sync_lock' = SyncThread
    /\ tx_synced_txg' = tx_syncing_txg
    /\ tx_syncing_txg' = 0
    /\ Broadcast({})
    /\ TxgDispatchCallbacks(tx_syncing_txg)
    /\ sync_pc' = "more"
    /\ UNCHANGED <<tx_open_txg, tx_quiesced_txg, waiting, life, holds,
                   quiesce, waiters, stop>>

\* spa_sync has returned; the loop starts again with the lock held.
SyncDone ==
    /\ sync_pc = "syncing"
    /\ tx_sync_lock = NoThread
    /\ tx_sync_lock' = SyncThread
    /\ tx_synced_txg' = tx_syncing_txg
    /\ tx_syncing_txg' = 0
    /\ Broadcast({"sync_done"})
    /\ TxgDispatchCallbacks(tx_syncing_txg)
    /\ sync_pc' = "more"
    /\ UNCHANGED <<tx_open_txg, tx_quiesced_txg, waiting, life, holds,
                   quiesce, waiters, stop>>

\* A taskq thread runs a dispatched callback.
TxgDoCallbacks ==
    /\ \E cb \in cb_taskq : /\ cb_taskq' = cb_taskq \ {cb}
                            /\ cb_done' = cb_done \cup {cb}
    /\ UNCHANGED <<pipeline, waiting, life, tx_sync_lock, cv, holds,
                   tc_callbacks, sync_pc, quiesce, waiters, stop>>

-----------------------------------------------------------------------------
(* Waiters.                                                                *)

WaitReturn(w) ==
    /\ wait_pc' = [wait_pc EXCEPT ![w] = "idle"]
    /\ wait_txg' = [wait_txg EXCEPT ![w] = 0]

\* A caller waits for 0 or for a txg it has seen (its own, or the last
\* synced one plus 1).  Bound: the awaited txg can be synced before MaxTxg.
TxgWaitSynced(w, arg) ==
    LET txg == IF arg = 0 THEN tx_open_txg + TXG_DEFER_SIZE ELSE arg
    IN  /\ PoolInUse
        /\ wait_pc[w] = "idle" /\ tx_sync_lock = NoThread
        /\ txg < MaxTxg
        /\ tx_sync_txg_waiting' = Max2(tx_sync_txg_waiting, txg)
        /\ wait_pc' = [wait_pc EXCEPT ![w] = "synced"]
        /\ wait_txg' = [wait_txg EXCEPT ![w] = txg]
        /\ tx_sync_lock' = w
        /\ UNCHANGED <<pipeline, tx_quiesce_txg_waiting, life, cv, holds, cbs,
                       sync_pc, quiesce, stop>>

WaitSyncedLoop(w) ==
    /\ wait_pc[w] = "synced" /\ CanRun(w)
    /\ IF tx_synced_txg < wait_txg[w]
       THEN /\ BroadcastAndWait({"sync_more"}, w, "sync_done")
            /\ UNCHANGED waiters
       ELSE /\ cv' = cv
            /\ WaitReturn(w)
    /\ tx_sync_lock' = NoThread
    /\ UNCHANGED <<pipeline, waiting, life, holds, cbs, sync_pc, quiesce,
                   stop>>

\* Bound: the awaited txg is at most MaxTxg.
TxgWaitOpen(w, arg) ==
    LET txg == IF arg = 0 THEN tx_open_txg + 1 ELSE arg
    IN  /\ PoolInUse
        /\ wait_pc[w] = "idle" /\ tx_sync_lock = NoThread
        /\ txg <= MaxTxg
        /\ tx_quiesce_txg_waiting' = Max2(tx_quiesce_txg_waiting, txg)
        /\ wait_pc' = [wait_pc EXCEPT ![w] = "open"]
        /\ wait_txg' = [wait_txg EXCEPT ![w] = txg]
        /\ tx_sync_lock' = w
        /\ UNCHANGED <<pipeline, tx_sync_txg_waiting, life, cv, holds, cbs,
                       sync_pc, quiesce, stop>>

WaitOpenLoop(w) ==
    /\ wait_pc[w] = "open" /\ CanRun(w)
    /\ IF tx_open_txg < wait_txg[w]
       THEN /\ BroadcastAndWait({"quiesce_more"}, w, "quiesce_done")
            /\ UNCHANGED waiters
       ELSE /\ cv' = cv
            /\ WaitReturn(w)
    /\ tx_sync_lock' = NoThread
    /\ UNCHANGED <<pipeline, waiting, life, holds, cbs, sync_pc, quiesce,
                   stop>>

\* Mutant: kicks although a txg was already asked for.
TxgKickNoTest(w) ==
    /\ PoolInUse
    /\ wait_pc[w] = "idle" /\ tx_sync_lock = NoThread
    /\ tx_syncing_txg = 0
    /\ tx_sync_txg_waiting <= tx_synced_txg
    /\ tx_quiesced_txg <= tx_synced_txg
    /\ wait_pc' = [wait_pc EXCEPT ![w] = "kick"]
    /\ tx_sync_lock' = w
    /\ UNCHANGED <<pipeline, waiting, life, cv, holds, cbs, sync_pc, quiesce,
                   wait_txg, stop>>

\* txg_kick: the test, and the assignment that reads tx_open_txg again.
TxgKick(w) ==
    /\ PoolInUse
    /\ wait_pc[w] = "idle" /\ tx_sync_lock = NoThread
    /\ tx_syncing_txg = 0
    /\ tx_quiesce_txg_waiting <= tx_open_txg
    /\ tx_sync_txg_waiting <= tx_synced_txg
    /\ tx_quiesced_txg <= tx_synced_txg
    /\ wait_pc' = [wait_pc EXCEPT ![w] = "kick"]
    /\ tx_sync_lock' = w
    /\ UNCHANGED <<pipeline, waiting, life, cv, holds, cbs, sync_pc, quiesce,
                   wait_txg, stop>>

\* Mutant: no cv_broadcast(&tx->tx_quiesce_more_cv).
TxgKickRaiseSilent(w) ==
    /\ wait_pc[w] = "kick"
    /\ tx_quiesce_txg_waiting' = tx_open_txg + 1
    /\ Broadcast({})
    /\ wait_pc' = [wait_pc EXCEPT ![w] = "idle"]
    /\ tx_sync_lock' = NoThread
    /\ UNCHANGED <<pipeline, tx_sync_txg_waiting, life, holds, cbs, sync_pc,
                   quiesce, wait_txg, stop>>

TxgKickRaise(w) ==
    /\ wait_pc[w] = "kick"
    /\ tx_quiesce_txg_waiting' = tx_open_txg + 1
    /\ Broadcast({"quiesce_more"})
    /\ wait_pc' = [wait_pc EXCEPT ![w] = "idle"]
    /\ tx_sync_lock' = NoThread
    /\ UNCHANGED <<pipeline, tx_sync_txg_waiting, life, holds, cbs, sync_pc,
                   quiesce, wait_txg, stop>>

-----------------------------------------------------------------------------
(* txg_sync_stop, called when nobody uses the pool any more.               *)

\* txg_wait_synced(tx_open_txg + TXG_DEFER_SIZE)
TxgSyncStop ==
    /\ PoolInUse
    /\ \A t \in Txs : tx_pc[t] = "idle"
    /\ \A w \in Waiters : wait_pc[w] = "idle"
    /\ tx_sync_lock = NoThread
    /\ tx_open_txg + TXG_DEFER_SIZE < MaxTxg
    /\ stop_txg' = tx_open_txg + TXG_DEFER_SIZE
    /\ tx_sync_txg_waiting' =
         Max2(tx_sync_txg_waiting, tx_open_txg + TXG_DEFER_SIZE)
    /\ stop_pc' = "wait"
    /\ tx_sync_lock' = StopThread
    /\ UNCHANGED <<pipeline, tx_quiesce_txg_waiting, life, cv, holds, cbs,
                   sync_pc, quiesce, waiters>>

\* Mutant: returns one txg early.
StopWaitLoopShort ==
    /\ stop_pc = "wait" /\ CanRun(StopThread)
    /\ IF tx_synced_txg + 1 < stop_txg
       THEN /\ BroadcastAndWait({"sync_more"}, StopThread, "sync_done")
            /\ stop_pc' = stop_pc
       ELSE /\ cv' = cv
            /\ stop_pc' = "synced"
    /\ tx_sync_lock' = NoThread
    /\ UNCHANGED <<pipeline, waiting, life, holds, cbs, sync_pc, quiesce,
                   waiters, stop_txg>>

StopWaitLoop ==
    /\ stop_pc = "wait" /\ CanRun(StopThread)
    /\ IF tx_synced_txg < stop_txg
       THEN /\ BroadcastAndWait({"sync_more"}, StopThread, "sync_done")
            /\ stop_pc' = stop_pc
       ELSE /\ cv' = cv
            /\ stop_pc' = "synced"
    /\ tx_sync_lock' = NoThread
    /\ UNCHANGED <<pipeline, waiting, life, holds, cbs, sync_pc, quiesce,
                   waiters, stop_txg>>

StopExiting ==
    /\ stop_pc = "synced" /\ tx_sync_lock = NoThread
    /\ tx_exiting' = 1
    /\ Broadcast({"quiesce_more", "quiesce_done", "sync_more"})
    /\ stop_pc' = "join"
    /\ tx_sync_lock' = StopThread
    /\ UNCHANGED <<pipeline, waiting, tx_threads, holds, cbs, sync_pc,
                   quiesce, waiters, stop_txg>>

StopJoin ==
    /\ stop_pc = "join" /\ CanRun(StopThread)
    /\ IF tx_threads # 0
       THEN /\ BroadcastAndWait({}, StopThread, "exit")
            /\ UNCHANGED <<tx_exiting, stop_pc>>
       ELSE /\ cv' = cv
            /\ tx_exiting' = 0
            /\ stop_pc' = "done"
    /\ tx_sync_lock' = NoThread
    /\ UNCHANGED <<pipeline, waiting, tx_threads, holds, cbs, sync_pc,
                   quiesce, waiters, stop_txg>>

-----------------------------------------------------------------------------

\* A wakeup nobody sent: a signal, the txg timeout, a spurious return.
SpuriousWakeup ==
    /\ \E v \in CVs, t \in Threads :
          /\ t \in cv[v]
          /\ cv' = [cv EXCEPT ![v] = @ \ {t}]
    /\ UNCHANGED <<pipeline, waiting, life, tx_sync_lock, holds, cbs, sync_pc,
                   quiesce, waiters, stop>>

TxNext(t) ==
    \/ \E c \in CPUs : TxgHoldOpen(t, c)
    \/ TxgDelayWait(t) \/ TxgDelayDone(t)
    \/ TxgReleToQuiesce(t) \/ TxgRegisterCallbacks(t) \/ TxgReleToSync(t)

QuiesceNext ==
    \/ QuiesceWaitMore \/ QuiesceExit \/ QuiesceStart
    \/ QuiesceLockCpu \/ QuiesceAdvance \/ QuiesceUnlockCpu
    \/ QuiesceDrainCpu \/ QuiesceDrainWait \/ QuiesceHandOff

SyncNext ==
    \/ SyncWaitMore \/ SyncPrompt \/ SyncRaise \/ SyncExit \/ SyncTake
    \/ SyncDone

WaiterNext(w) ==
    \/ \E arg \in {0} \cup InitTxg .. tx_open_txg : TxgWaitSynced(w, arg)
    \/ \E arg \in {0} \cup InitTxg .. (tx_open_txg + 1) : TxgWaitOpen(w, arg)
    \/ TxgKick(w)
    \/ WaitSyncedLoop(w) \/ WaitOpenLoop(w) \/ TxgKickRaise(w)

StopNext == TxgSyncStop \/ StopWaitLoop \/ StopExiting \/ StopJoin

Next ==
    \/ TxgSyncStart
    \/ \E t \in Txs : TxNext(t)
    \/ QuiesceNext
    \/ SyncNext
    \/ TxgDoCallbacks
    \/ \E w \in Waiters : WaiterNext(w)
    \/ StopNext
    \/ SpuriousWakeup

Spec == Init /\ [][Next]_vars

-----------------------------------------------------------------------------
(* Fairness.  A runnable thread runs and a mutex that is released again and *)
(* again is eventually obtained (SF: the lock is taken by others between). *)
(* A transaction that was assigned is committed, spa_sync returns, and the *)
(* timed wait of txg_delay expires.  Nothing is assumed of the txg timeout *)
(* or of spurious wakeups.                                                 *)

Fairness ==
    /\ WF_vars(TxgSyncStart)
    /\ SF_vars(QuiesceNext)
    /\ SF_vars(SyncNext)
    /\ WF_vars(TxgDoCallbacks)
    /\ \A t \in Txs : /\ SF_vars(TxgDelayDone(t))
                      /\ SF_vars(TxgReleToQuiesce(t))
                      /\ WF_vars(TxgReleToSync(t))
    /\ \A w \in Waiters : /\ SF_vars(WaitSyncedLoop(w) \/ WaitOpenLoop(w))
                          /\ WF_vars(TxgKickRaise(w))
    /\ SF_vars(StopWaitLoop \/ StopExiting \/ StopJoin)

FairSpec == Spec /\ Fairness

-----------------------------------------------------------------------------
(* Properties.                                                             *)

Callback == [id : 1 .. MaxCallbacks, txg : Nat]

StateTypeOK ==
    /\ tx_open_txg \in Nat /\ tx_quiesced_txg \in Nat
    /\ tx_syncing_txg \in Nat /\ tx_synced_txg \in Nat
    /\ tx_sync_txg_waiting \in Nat /\ tx_quiesce_txg_waiting \in Nat
    /\ tx_threads \in 0 .. 2 /\ tx_exiting \in {0, 1}

LockTypeOK ==
    /\ tx_sync_lock \in Threads \cup {NoThread}
    /\ cv \in [CVs -> SUBSET Threads]

CpuTypeOK ==
    /\ tc_open_lock \in [CPUs -> Txs \cup {QuiesceThread, NoThread}]
    /\ tc_count \in [CPUs -> [Slots -> Nat]]
    /\ tx_pc \in [Txs -> {"idle", "held", "delay", "assigned", "registered"}]
    /\ th \in [Txs -> [cpu : CPUs, txg : Nat]]

CallbackTypeOK ==
    /\ tc_callbacks \in [CPUs -> [Slots -> SUBSET Callback]]
    /\ cb_taskq \in SUBSET Callback /\ cb_done \in SUBSET Callback

ThreadTypeOK ==
    /\ sync_pc \in {"none", "more", "raise", "prompt", "syncing"}
    /\ quiesce_pc \in {"none", "more", "lock", "unlock", "drain"}
    /\ q_txg \in Nat /\ q_cpu \in 0 .. NCPU
    /\ wait_pc \in [Waiters -> {"idle", "synced", "open", "kick"}]
    /\ wait_txg \in [Waiters -> Nat]
    /\ stop_pc \in {"idle", "wait", "synced", "join", "done"}
    /\ stop_txg \in Nat

\* Every variable has its type; tc_count never goes below zero (the ASSERT
\* of txg_rele_to_sync).
TypeOK ==
    /\ StateTypeOK /\ LockTypeOK /\ CpuTypeOK /\ CallbackTypeOK
    /\ ThreadTypeOK

\* tx_synced_txg is zero until the first txg of this import has synced.
LastSynced == IF tx_synced_txg = 0 THEN InitTxg - 1 ELSE tx_synced_txg
LastTaken  == IF tx_syncing_txg = 0 THEN LastSynced ELSE tx_syncing_txg

\* The txgs go through the pipeline one by one and in order: the syncing txg
\* follows the last synced one, the quiesced one follows that, and no more
\* than three txgs (open, quiescing or quiesced, syncing) are ever active.
PipelineInOrder ==
    /\ tx_syncing_txg # 0 => tx_syncing_txg = LastSynced + 1
    /\ tx_quiesced_txg # 0 => /\ tx_quiesced_txg = LastTaken + 1
                              /\ tx_open_txg = tx_quiesced_txg + 1
    /\ tx_open_txg - LastSynced \in 1 .. (TXG_SIZE - 1)

InTxg(t) == tx_pc[t] # "idle"

\* When txg_quiesce has handed a txg on, no transaction is left in it: every
\* transaction in progress is in a txg that has not been quiesced.
QuiescedTxgIsStable ==
    \A t \in Txs : InTxg(t) => /\ th[t].txg > LastTaken
                               /\ th[t].txg > tx_quiesced_txg
                               /\ th[t].txg <= tx_open_txg

HoldsOn(c, g) == {t \in Txs : InTxg(t) /\ th[t].cpu = c /\ Slot(th[t].txg) = g}

\* A tc_count slot counts exactly the transactions that entered through its
\* cpu in that slot, though each slot is reused by every fourth txg.
HoldCountsExact ==
    \A c \in CPUs, g \in Slots : tc_count[c][g] = Cardinality(HoldsOn(c, g))

\* txg_dispatch_callbacks takes no tc_lock and no look at a callback's txg,
\* yet it hands out exactly the callbacks of the txgs that have synced: none
\* early, and none of a synced txg is left behind in its slot.
CallbacksFollowSync ==
    /\ \A cb \in cb_taskq \cup cb_done : cb.txg <= tx_synced_txg
    /\ \A c \in CPUs, g \in Slots : \A cb \in tc_callbacks[c][g] :
          cb.txg > tx_synced_txg

\* txg_kick and txg_sync_thread read tx_open_txg twice under tx_sync_lock,
\* which does not protect it.  The two reads agree all the same: between them
\* the quiesce thread is never about to advance tx_open_txg.
OpenTxgReadsAgree ==
    sync_pc = "raise" \/ (\E w \in Waiters : wait_pc[w] = "kick")
        => quiesce_pc # "lock" /\ tx_quiesce_txg_waiting <= tx_open_txg

\* The open txg moves by one, and never while a transaction is between
\* txg_hold_open and txg_rele_to_quiesce.
OpenTxgStep ==
    tx_open_txg' # tx_open_txg =>
        /\ tx_open_txg' = tx_open_txg + 1
        /\ \A t \in Txs : tx_pc[t] \notin {"held", "delay"}

OpenTxgSteps == [][OpenTxgStep]_vars

\* When txg_wait_synced returns, the txg waited for has been synced and no
\* transaction is, or can any more get, in it or in an earlier one.
WaitSyncedReturn ==
    \A w \in Waiters :
        wait_pc[w] = "synced" /\ wait_pc'[w] = "idle" =>
            /\ wait_txg[w] <= tx_synced_txg
            /\ wait_txg[w] < tx_open_txg
            /\ \A t \in Txs : InTxg(t) => th[t].txg > wait_txg[w]

WaitSyncedReturns == [][WaitSyncedReturn]_vars

\* txg_sync_stop leaves nothing behind: when the threads are gone every txg
\* that ever held a transaction has been synced.
StopLosesNothing ==
    stop_pc \in {"synced", "join", "done"} =>
        /\ \A t \in Txs : ~InTxg(t)
        /\ tx_synced_txg >= stop_txg
        /\ \A c \in CPUs, g \in Slots : tc_callbacks[c][g] = {}

\* Somebody works as long as a caller of txg_wait_synced, txg_wait_open or
\* txg_sync_stop sleeps: the owner of tx_sync_lock, or one of the two threads
\* of the pipeline, is awake, or the quiesce thread waits for a transaction
\* that is still in the txg it closes.  A wakeup lost anywhere between the
\* five condition variables would leave them all asleep.
NoStall ==
    (\E u \in Waiters \cup {StopThread} : Asleep(u)) =>
        \/ tx_sync_lock # NoThread /\ ~Asleep(tx_sync_lock)
        \/ sync_pc # "none" /\ ~Asleep(SyncThread)
        \/ quiesce_pc # "none" /\ ~Asleep(QuiesceThread)
        \/ /\ quiesce_pc = "drain"
           /\ \E t \in Txs : InTxg(t) /\ th[t].txg = q_txg

\* txg_wait_synced and txg_wait_open return: no wakeup is lost.
WaitersReturn == \A w \in Waiters : wait_pc[w] # "idle" ~> wait_pc[w] = "idle"

\* A request to open a txg (txg_kick, txg_wait_open, the sync thread's own
\* prompt) is served, unless the threads are told to exit.
QuiesceRequestsServed ==
    \A T \in InitTxg .. MaxTxg :
        tx_quiesce_txg_waiting >= T ~> tx_open_txg >= T \/ stop_pc \in {"join", "done"}

\* txg_sync_stop terminates and both threads have exited.
StopTerminates == stop_pc = "wait" ~> stop_pc = "done" /\ tx_threads = 0

-----------------------------------------------------------------------------
(* Refinement.                                                             *)

Groups == INSTANCE TxgAbstract
             WITH MaxActive <- TXG_SIZE - 1,
                  open <- tx_open_txg,
                  durable <- LastSynced,
                  member <- [t \in Txs |-> IF InTxg(t) THEN th[t].txg ELSE 0]

\* The threads, locks and slots of txg.c implement the abstract pipeline:
\* ordered groups, closed to newcomers, durable only when empty.
ImplementsGroups == Groups!Spec

-----------------------------------------------------------------------------
(* The inductive invariant of the proofs in TxgProofs.                     *)

\* Which thread runs where: a thread between its two reads of tx_open_txg
\* holds tx_sync_lock, and tx_threads counts the live threads.
ThreadsInv ==
    /\ sync_pc = "syncing" <=> tx_syncing_txg # 0
    /\ sync_pc = "raise" => tx_sync_lock = SyncThread
    /\ \A w \in Waiters : wait_pc[w] = "kick" => tx_sync_lock = w
    /\ tx_threads = (IF sync_pc = "none" THEN 0 ELSE 1)
                      + (IF quiesce_pc = "none" THEN 0 ELSE 1)

Closing == quiesce_pc \in {"unlock", "drain"}

\* Where the open txg stands relative to the last one the sync thread took.
PipelineInv ==
    /\ tx_synced_txg # 0 => tx_synced_txg >= InitTxg
    /\ tx_syncing_txg # 0 => tx_syncing_txg = LastSynced + 1
    /\ tx_quiesced_txg # 0 => /\ tx_quiesced_txg = LastTaken + 1
                              /\ quiesce_pc \in {"none", "more"}
    /\ tx_open_txg = LastTaken +
         (IF tx_quiesced_txg # 0 \/ Closing THEN 2 ELSE 1)
    /\ Closing => q_txg = LastTaken + 1
    /\ quiesce_pc = "lock" => q_txg = tx_open_txg

\* Who owns the tc_open_locks.
OpenLockInv ==
    /\ \A t \in Txs : tx_pc[t] \in {"held", "delay"} =>
          tc_open_lock[th[t].cpu] = t /\ th[t].txg = tx_open_txg
    /\ quiesce_pc = "lock" =>
          \A c \in CPUs : c < q_cpu => tc_open_lock[c] = QuiesceThread
    /\ quiesce_pc = "unlock" =>
          /\ q_cpu \in CPUs
          /\ \A c \in CPUs : c >= q_cpu => tc_open_lock[c] = QuiesceThread

\* A transaction is in the open txg, or in the closing one on a cpu that
\* txg_quiesce has not finished waiting for.
HoldersInv ==
    \A t \in Txs : InTxg(t) =>
        \/ th[t].txg = tx_open_txg
        \/ /\ Closing /\ th[t].txg = q_txg
           /\ quiesce_pc = "drain" => th[t].cpu >= q_cpu

CallbacksInv ==
    /\ \A cb \in cb_taskq \cup cb_done : cb.txg <= tx_synced_txg
    /\ \A c \in CPUs, g \in Slots : \A cb \in tc_callbacks[c][g] :
          /\ Slot(cb.txg) = g
          /\ LastSynced < cb.txg /\ cb.txg <= tx_open_txg

\* A thread is about to raise tx_quiesce_txg_waiting only if it is not above
\* the open txg, and the quiesce thread advances only if it is.
RequestInv ==
    /\ quiesce_pc = "lock" => tx_quiesce_txg_waiting > tx_open_txg
    /\ sync_pc = "raise" => tx_quiesce_txg_waiting <= tx_open_txg
    /\ \A w \in Waiters :
          wait_pc[w] = "kick" => tx_quiesce_txg_waiting <= tx_open_txg

StopInv ==
    stop_pc # "idle" =>
        /\ \A t \in Txs : ~InTxg(t)
        /\ \A w \in Waiters : wait_pc[w] = "idle"
        /\ \A c \in CPUs, g \in Slots : \A cb \in tc_callbacks[c][g] :
              cb.txg <= stop_txg
        /\ stop_pc # "wait" => tx_synced_txg >= stop_txg

IndInv ==
    /\ TypeOK /\ ThreadsInv /\ PipelineInv /\ OpenLockInv /\ HoldersInv
    /\ HoldCountsExact /\ CallbacksInv /\ RequestInv /\ StopInv

-----------------------------------------------------------------------------
(* The inductive invariant behind NoStall: what each sleeper waits for has  *)
(* not happened, or the thread that will wake it is on its way.             *)

\* w has raised tx_sync_txg_waiting (stop: txg_sync_stop has) and still owns
\* tx_sync_lock: it broadcasts before it sleeps.
AboutToPrompt ==
    \/ \E w \in Waiters : /\ tx_sync_lock = w /\ wait_pc[w] = "synced"
                          /\ tx_synced_txg < wait_txg[w]
    \/ /\ tx_sync_lock = StopThread /\ stop_pc = "wait"
       /\ tx_synced_txg < stop_txg

SyncSleepInv ==
    /\ \A v \in CVs : SyncThread \in cv[v] => v \in {"sync_more", "quiesce_done"}
    /\ SyncThread \in cv["sync_more"] =>
          /\ sync_pc = "more" /\ tx_exiting = 0 /\ tx_quiesced_txg = 0
          /\ tx_synced_txg >= tx_sync_txg_waiting \/ AboutToPrompt
    /\ SyncThread \in cv["quiesce_done"] =>
          /\ sync_pc = "prompt" /\ tx_exiting = 0 /\ tx_quiesced_txg = 0
          /\ Closing \/ tx_open_txg < tx_quiesce_txg_waiting
    /\ sync_pc = "raise" => tx_exiting = 0 /\ tx_quiesced_txg = 0

\* w has raised tx_quiesce_txg_waiting and still owns tx_sync_lock.
AboutToAsk ==
    \E w \in Waiters : /\ tx_sync_lock = w /\ wait_pc[w] = "open"
                       /\ tx_open_txg < wait_txg[w]

QuiesceSleepInv ==
    /\ \A v \in CVs : QuiesceThread \in cv[v] => v \in {"quiesce_more", "tc"}
    /\ QuiesceThread \in cv["quiesce_more"] =>
          /\ quiesce_pc = "more" /\ tx_exiting = 0
          /\ \/ tx_quiesced_txg # 0
             \/ tx_open_txg >= tx_quiesce_txg_waiting
             \/ AboutToAsk
    /\ QuiesceThread \in cv["tc"] =>
          /\ quiesce_pc = "drain" /\ q_cpu \in CPUs
          /\ tc_count[q_cpu][Slot(q_txg)] # 0

WaiterSleepInv ==
    \A w \in Waiters :
        /\ \A v \in CVs : w \in cv[v] => v \in {"sync_done", "quiesce_done"}
        /\ w \in cv["sync_done"] =>
              wait_pc[w] = "synced" /\ tx_synced_txg < wait_txg[w]
        /\ w \in cv["quiesce_done"] =>
              /\ wait_pc[w] = "open"
              /\ Closing \/ tx_open_txg < wait_txg[w]
        /\ wait_pc[w] = "synced" => wait_txg[w] <= tx_sync_txg_waiting
        /\ wait_pc[w] = "open" => wait_txg[w] <= tx_quiesce_txg_waiting
        /\ wait_pc[w] # "idle" => tx_threads = 2

StopSleepInv ==
    /\ \A v \in CVs : StopThread \in cv[v] => v \in {"sync_done", "exit"}
    /\ StopThread \in cv["sync_done"] =>
          stop_pc = "wait" /\ tx_synced_txg < stop_txg
    /\ StopThread \in cv["exit"] => stop_pc = "join" /\ tx_threads # 0
    /\ stop_pc = "wait" => stop_txg <= tx_sync_txg_waiting
    /\ stop_pc \in {"wait", "synced"} => tx_threads = 2
    /\ tx_exiting = 1 => stop_pc = "join"
    /\ stop_pc = "join" => tx_exiting = 1

SleepInv == SyncSleepInv /\ QuiesceSleepInv /\ WaiterSleepInv /\ StopSleepInv

\* The owner of tx_sync_lock is awake: a transaction never keeps it, and the
\* quiesce thread does not wait for the holds to drain with it.
LockInv ==
    /\ tx_sync_lock # NoThread => ~Asleep(tx_sync_lock)
    /\ tx_sync_lock = QuiesceThread => quiesce_pc = "more"
    /\ tx_sync_lock \notin Txs

=============================================================================
