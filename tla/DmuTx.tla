------------------------------- MODULE DmuTx -------------------------------
(***************************************************************************)
(* Assigning transactions to txgs, module/zfs/dmu_tx.c, and the dirty-data *)
(* throttle of module/zfs/dsl_pool.c, on top of the txg pipeline.          *)
(*                                                                         *)
(* A transaction joins the open txg, takes its dnodes one by one, reserves *)
(* space, dirties data and commits.  A dnode may be held in one txg only:  *)
(* a transaction that meets a dnode still assigned to the quiescing txg    *)
(* gives back what it took and waits.  Too much dirty data also makes it   *)
(* wait, for the sync thread to write some.                                *)
(*                                                                         *)
(* The pipeline is TxgAbstract, which Txg is shown to implement, with      *)
(* tx_txg as the membership.  A step is a stretch under dn_mtx or dp_lock. *)
(* A condition variable is its set of sleepers.                            *)
(***************************************************************************)
EXTENDS Integers, Sequences, FiniteSets, FiniteSetsExt, Functions

CONSTANTS Txs,          \* threads, each running one transaction at a time
          Dnodes,
          Holds,        \* Holds[t]: tx_holds, a sequence of dnodes
          How,          \* How[t]: "WAIT" or "NOWAIT", the txg_how_t given
          Sizes,        \* what a transaction may dirty (0: nothing)
          zfs_dirty_data_max, delay_min_bytes,
          InitTxg,
          MaxTxg,       \* bound: the last txg ever opened
          Faults        \* bounds: a set of [ops, erestart, edquot, suspend ->
                        \* Nat], one for each behaviour: transactions a
                        \* thread runs, reservations refused for now or
                        \* for good, suspensions

ASSUME BoundsAssumption ==
    /\ zfs_dirty_data_max \in Nat \ {0} /\ delay_min_bytes \in Nat
    /\ delay_min_bytes < zfs_dirty_data_max
    /\ Sizes \subseteq Nat
    /\ InitTxg \in Nat \ {0, 1}  \* TXG_INITIAL is 4; the txg before is not 0
ASSUME HoldsAssumption == Holds \in [Txs -> Seq(Dnodes)]

VARIABLES
    open, synced,      \* tx_open_txg, the last txg on disk
    tx_txg,            \* the txg t is in, 0 for none
    tx,                \* the rest of each thread's dmu_tx_t, and where it is
    dn_assigned_txg, dn_tx_holds,
    dn_notxholds,      \* [dnode] sleepers
    dp_dirty_total, dp_dirty_pertxg,
    dp_spaceavail_cv,  \* sleepers
    suspended,         \* spa_suspended()
    budget             \* what is left of the bounds on failures

pipe   == <<open, synced, tx_txg>>
dnvars == <<dn_assigned_txg, dn_tx_holds, dn_notxholds>>
dpvars == <<dp_dirty_total, dp_dirty_pertxg, dp_spaceavail_cv>>
envv   == <<suspended, budget>>
vars   == <<pipe, tx, dnvars, dpvars, envv>>

TXG_SIZE == 4
Slot(txg) == txg % TXG_SIZE

Txg == INSTANCE TxgAbstract WITH MaxActive <- TXG_SIZE - 1,
           durable <- synced, member <- tx_txg

\* A fresh dmu_tx_t: need is the index of tx_needassign_txh in tx_holds (0
\* for NULL), i the walk of tx_holds, target the txg waited for.
NewTx == [pc |-> "try", lasttried |-> 0, waited |-> FALSE, wait_dirty |-> FALSE,
          need |-> 0, i |-> 1, err |-> "ok", target |-> 0, ops |-> 0]

Init ==
    /\ Txg!Init
    /\ tx = [t \in Txs |-> NewTx]
    /\ dn_assigned_txg = [d \in Dnodes |-> 0]
    /\ dn_tx_holds = [d \in Dnodes |-> 0]
    /\ dn_notxholds = [d \in Dnodes |-> {}]
    /\ dp_dirty_total = 0
    /\ dp_dirty_pertxg = [s \in 0 .. (TXG_SIZE - 1) |-> 0]
    /\ dp_spaceavail_cv = {}
    /\ suspended = FALSE
    /\ budget \in {[left |-> f, used |-> FALSE] : f \in Faults}

Spend(fault) ==
    /\ budget.left[fault] > 0
    /\ budget' = [left |-> [budget.left EXCEPT ![fault] = @ - 1], used |-> TRUE]

At(t, where) == tx[t].pc = where
Hold(t) == Holds[t][tx[t].i]

-----------------------------------------------------------------------------
(* dmu_tx_assign                                                           *)

\* dsl_pool_need_dirty_delay (its txg_kick only asks for the Close below)
NeedDirtyDelay(t) == ~tx[t].waited /\ dp_dirty_total > delay_min_bytes

\* dmu_tx_try_assign up to txg_hold_open.  The early ERESTARTs leave tx_txg
\* 0, so that dmu_tx_unassign does nothing.  A suspended pool gives EIO to
\* TXG_NOWAIT when failmode=continue.
TryAssign(t) ==
    /\ At(t, "try")
    /\ \/ /\ suspended
          /\ \E then \in {"wait"} \cup IF How[t] = "WAIT" THEN {} ELSE {"abort"} :
                tx' = [tx EXCEPT ![t].pc = then]
          /\ UNCHANGED pipe
       \/ /\ ~suspended /\ NeedDirtyDelay(t)
          /\ tx' = [tx EXCEPT ![t].wait_dirty = TRUE, ![t].pc = "wait"]
          /\ UNCHANGED pipe
       \/ /\ ~suspended /\ ~NeedDirtyDelay(t)
          /\ Txg!Join(t)
          /\ tx' = [tx EXCEPT ![t].need = 0, ![t].i = 1, ![t].pc = "hold"]
    /\ UNCHANGED <<dnvars, dpvars, envv>>

ConflictMissed(t, d) == FALSE

\* The dnode is still assigned to the quiescing txg.
Conflict(t, d) == dn_assigned_txg[d] = tx_txg[t] - 1

\* One turn of dmu_tx_try_assign's loop over tx_holds, under dn_mtx.
HoldDnode(t) ==
    /\ At(t, "hold") /\ tx[t].i <= Len(Holds[t])
    /\ IF Conflict(t, Hold(t))
       THEN /\ tx' = [tx EXCEPT ![t].need = tx[t].i, ![t].err = "ERESTART",
                                ![t].i = 1, ![t].pc = "unassign"]
            /\ UNCHANGED <<dn_assigned_txg, dn_tx_holds>>
       ELSE /\ tx' = [tx EXCEPT ![t].i = @ + 1]
            /\ dn_assigned_txg' = [dn_assigned_txg EXCEPT
                                     ![Hold(t)] = IF @ = 0 THEN tx_txg[t] ELSE @]
            /\ dn_tx_holds' = [dn_tx_holds EXCEPT ![Hold(t)] = @ + 1]
    /\ UNCHANGED <<pipe, dn_notxholds, dpvars, envv>>

\* dsl_dir_tempreserve_space: there is room (and dmu_tx_assign releases the
\* txg to the quiesce thread), there may be room later, or there is none.
Reserve(t) ==
    /\ At(t, "hold") /\ tx[t].i > Len(Holds[t])
    /\ \/ /\ tx' = [tx EXCEPT ![t].i = 1, ![t].pc = "dirty"]
          /\ UNCHANGED budget
       \/ \E fail \in {<<"erestart", "ERESTART">>, <<"edquot", "EDQUOT">>} :
             /\ Spend(fail[1])
             /\ tx' = [tx EXCEPT ![t].i = 1, ![t].err = fail[2],
                                 ![t].pc = "unassign"]
    /\ UNCHANGED <<pipe, dnvars, dpvars, suspended>>

\* Drop one hold of d: the last one clears dn_assigned_txg and broadcasts.
DropDnode(d) ==
    /\ dn_tx_holds' = [dn_tx_holds EXCEPT ![d] = @ - 1]
    /\ IF dn_tx_holds[d] = 1
       THEN /\ dn_assigned_txg' = [dn_assigned_txg EXCEPT ![d] = 0]
            /\ dn_notxholds' = [dn_notxholds EXCEPT ![d] = {}]
       ELSE UNCHANGED <<dn_assigned_txg, dn_notxholds>>

\* The holds dmu_tx_unassign walks: those before tx_needassign_txh.
UnassignEnd(t) == IF tx[t].need = 0 THEN Len(Holds[t]) ELSE tx[t].need - 1

\* The loops of dmu_tx_unassign and dmu_tx_commit, one hold a step.
DropHold(t) ==
    /\ \/ At(t, "unassign") /\ tx[t].i <= UnassignEnd(t)
       \/ At(t, "commit") /\ tx[t].i <= Len(Holds[t])
    /\ DropDnode(Hold(t))
    /\ tx' = [tx EXCEPT ![t].i = @ + 1]
    /\ UNCHANGED <<pipe, dpvars, envv>>

\* The end of dmu_tx_unassign.  ERESTART leads to dmu_tx_wait: in the loop
\* of dmu_tx_assign (TXG_WAIT) or in the caller (TXG_NOWAIT).
Unassigned(t) ==
    /\ At(t, "unassign") /\ tx[t].i > UnassignEnd(t)
    /\ Txg!Leave(t)
    /\ tx' = [tx EXCEPT ![t].lasttried = tx_txg[t], ![t].err = "ok",
                 ![t].pc = IF tx[t].err = "ERESTART" THEN "wait" ELSE "abort"]
    /\ UNCHANGED <<dnvars, dpvars, envv>>

-----------------------------------------------------------------------------
(* dmu_tx_wait                                                             *)

\* The tx after a wait: the same one (TXG_WAIT), or a new one whose owner
\* says it has waited (dmu_tx_abort, then TXG_WAITED).
AfterWait(t, waited) ==
    IF How[t] = "WAIT"
    THEN [tx[t] EXCEPT !.pc = "try", !.wait_dirty = FALSE, !.waited = waited]
    ELSE [NewTx EXCEPT !.waited = TRUE, !.ops = tx[t].ops]

OverMax == dp_dirty_total >= zfs_dirty_data_max

WaitDirty(t) ==
    /\ At(t, "wait") /\ tx[t].wait_dirty /\ t \notin dp_spaceavail_cv
    /\ IF OverMax
       THEN dp_spaceavail_cv' = dp_spaceavail_cv \cup {t} /\ UNCHANGED tx
       ELSE tx' = [tx EXCEPT ![t] = AfterWait(t, TRUE)] /\ UNCHANGED dp_spaceavail_cv
    /\ UNCHANGED <<pipe, dnvars, dp_dirty_total, dp_dirty_pertxg, envv>>

\* The other branches of dmu_tx_wait: txg_wait_synced(last synced + 1), the
\* dnode, txg_wait_open(lasttried + 1).
WaitBranch(t) ==
    /\ At(t, "wait") /\ ~tx[t].wait_dirty
    /\ tx' = IF suspended \/ tx[t].lasttried = 0
             THEN [tx EXCEPT ![t].target = synced + 1, ![t].pc = "waitsynced"]
             ELSE IF tx[t].need # 0
             THEN [tx EXCEPT ![t].pc = "waitdnode"]
             ELSE [tx EXCEPT ![t].target = tx[t].lasttried + 1,
                             ![t].pc = "waitopen"]
    /\ UNCHANGED <<pipe, dnvars, dpvars, envv>>

WaitTxg(t) ==
    /\ \/ At(t, "waitsynced") /\ synced >= tx[t].target
       \/ At(t, "waitopen") /\ open >= tx[t].target
    /\ tx' = [tx EXCEPT ![t] = AfterWait(t, tx[t].waited)]
    /\ UNCHANGED <<pipe, dnvars, dpvars, envv>>

\* The test of dmu_tx_wait's loop on dn_notxholds.
Blocked(t, d) == dn_assigned_txg[d] = tx[t].lasttried - 1

WaitDnode(t) ==
    LET d == Holds[t][tx[t].need] IN
    /\ At(t, "waitdnode") /\ t \notin dn_notxholds[d]
    /\ IF Blocked(t, d)
       THEN dn_notxholds' = [dn_notxholds EXCEPT ![d] = @ \cup {t}] /\ UNCHANGED tx
       ELSE /\ tx' = [tx EXCEPT ![t] = [AfterWait(t, tx[t].waited) EXCEPT !.need = 0]]
            /\ UNCHANGED dn_notxholds
    /\ UNCHANGED <<pipe, dn_assigned_txg, dn_tx_holds, dpvars, envv>>

-----------------------------------------------------------------------------
(* Dirtying, committing, syncing                                           *)

DirtyDeltaUp(delta) ==
    /\ dp_dirty_total' = dp_dirty_total + delta
    /\ IF delta > 0 /\ dp_dirty_total' < zfs_dirty_data_max /\ dp_spaceavail_cv # {}
       THEN \E t \in dp_spaceavail_cv : dp_spaceavail_cv' = dp_spaceavail_cv \ {t}
       ELSE UNCHANGED dp_spaceavail_cv

\* cv_signal wakes one sleeper, if there is one.
DirtyDelta(delta) ==
    /\ dp_dirty_total' = dp_dirty_total + delta
    /\ IF dp_dirty_total' < zfs_dirty_data_max /\ dp_spaceavail_cv # {}
       THEN \E t \in dp_spaceavail_cv : dp_spaceavail_cv' = dp_spaceavail_cv \ {t}
       ELSE UNCHANGED dp_spaceavail_cv

\* dsl_pool_dirty_space, from dbuf_dirty
Dirty(t) ==
    /\ At(t, "dirty")
    /\ \E space \in Sizes :
          IF space = 0 THEN UNCHANGED dpvars
          ELSE /\ dp_dirty_pertxg' =
                     [dp_dirty_pertxg EXCEPT ![Slot(tx_txg[t])] = @ + space]
               /\ DirtyDelta(space)
    /\ tx' = [tx EXCEPT ![t].pc = "commit"]
    /\ UNCHANGED <<pipe, dnvars, envv>>

\* dmu_tx_destroy; the thread's next transaction is a new one.
Destroy(t) ==
    tx' = [tx EXCEPT ![t] = [NewTx EXCEPT !.ops = tx[t].ops + 1,
              !.pc = IF tx[t].ops + 1 = budget.left.ops THEN "done" ELSE "try"]]

Committed(t) ==
    /\ At(t, "commit") /\ tx[t].i > Len(Holds[t])
    /\ Txg!Leave(t)
    /\ Destroy(t)
    /\ UNCHANGED <<dnvars, dpvars, envv>>

Abort(t) ==
    /\ At(t, "abort")
    /\ Destroy(t)
    /\ UNCHANGED <<pipe, dnvars, dpvars, envv>>

\* The quiesce thread closes the open txg when nobody is between
\* txg_hold_open and txg_rele_to_quiesce.  Only txgs with work, or waited
\* for, are closed here: an idle one closes on a timer and changes nothing.
Close ==
    /\ open < MaxTxg
    /\ \A t \in Txs : ~At(t, "hold")
    /\ \/ dp_dirty_pertxg[Slot(open)] > 0
       \/ \E t \in Txs : \/ tx_txg[t] = open
                         \/ tx[t].pc \in {"waitsynced", "waitopen"}
                              /\ tx[t].target >= open
    /\ Txg!Close
    /\ UNCHANGED <<tx, dnvars, dpvars, envv>>

UndirtyTotalOnly(space, txg) ==
    /\ DirtyDelta(-Min({space, dp_dirty_pertxg[Slot(txg)]}))
    /\ UNCHANGED dp_dirty_pertxg

\* dsl_pool_undirty_space, clamped to what the txg dirtied
Undirty(space, txg) ==
    LET n == Min({space, dp_dirty_pertxg[Slot(txg)]}) IN
    /\ dp_dirty_pertxg' = [dp_dirty_pertxg EXCEPT ![Slot(txg)] = @ - n]
    /\ DirtyDelta(-n)

\* The sync thread has the oldest txg: closed, and empty.
Syncing ==
    /\ ~suspended
    /\ synced + 1 < open /\ \A t \in Txs : tx_txg[t] # synced + 1

\* dbuf_write_physdone, as the syncing txg's blocks reach the disk
PhysDone ==
    /\ Syncing /\ dp_dirty_pertxg[Slot(synced + 1)] > 0
    /\ \E size \in Sizes : \E space \in 1 .. size : Undirty(space, synced + 1)
    /\ UNCHANGED <<pipe, tx, dnvars, envv>>

\* dsl_pool_sync, the data being written, writes off what is left of it.
ShoreUp ==
    LET left == dp_dirty_pertxg[Slot(synced + 1)] IN
    /\ Syncing /\ left > 0
    /\ Undirty(left, synced + 1)
    /\ UNCHANGED <<pipe, tx, dnvars, envv>>

Written == dp_dirty_pertxg[Slot(synced + 1)] = 0

\* The rest of dsl_pool_sync, up to the uberblock.
SyncTxg ==
    /\ Syncing /\ Written
    /\ Txg!MakeDurable
    /\ UNCHANGED <<tx, dnvars, dpvars, envv>>

\* zio_suspend and zio_resume
Suspend ==
    /\ ~suspended /\ Spend("suspend")
    /\ suspended' = TRUE
    /\ UNCHANGED <<pipe, tx, dnvars, dpvars>>

Resume ==
    /\ suspended /\ suspended' = FALSE
    /\ UNCHANGED <<pipe, tx, dnvars, dpvars, budget>>

TxNext(t) ==
    \/ TryAssign(t) \/ HoldDnode(t) \/ Reserve(t) \/ DropHold(t)
    \/ Unassigned(t) \/ WaitDirty(t) \/ WaitBranch(t) \/ WaitTxg(t)
    \/ WaitDnode(t) \/ Dirty(t) \/ Committed(t) \/ Abort(t)

Next ==
    \/ \E t \in Txs : TxNext(t)
    \/ Close \/ PhysDone \/ ShoreUp \/ SyncTxg \/ Suspend \/ Resume

Spec == Init /\ [][Next]_vars

\* Threads run, the quiesce and sync threads keep working, and a suspended
\* pool is resumed.
FairSpec ==
    /\ Spec /\ WF_vars(Close) /\ WF_vars(ShoreUp) /\ WF_vars(SyncTxg)
    /\ WF_vars(Resume)
    /\ \A t \in Txs : WF_vars(TxNext(t))

-----------------------------------------------------------------------------

\* The positions of tx_holds that t has taken and not yet dropped.
Held(t) ==
    CASE At(t, "hold") -> 1 .. (tx[t].i - 1)
      [] At(t, "unassign") -> tx[t].i .. UnassignEnd(t)
      [] At(t, "commit") -> tx[t].i .. Len(Holds[t])
      [] At(t, "dirty") -> 1 .. Len(Holds[t])
      [] OTHER -> {}

HoldsOf(d) ==
    UNION {{t} \X {k \in Held(t) : Holds[t][k] = d} : t \in Txs}

\* A dnode is modified in one txg at a time: dn_tx_holds counts exactly the
\* holds of the transactions in progress, all of which are in
\* dn_assigned_txg (the ASSERT3Us of dmu_tx_try_assign, dmu_tx_unassign and
\* dmu_tx_commit), and an unheld dnode is assigned to no txg.
DnodeInOneTxg ==
    \A d \in Dnodes :
        /\ dn_tx_holds[d] = Cardinality(HoldsOf(d))
        /\ dn_assigned_txg[d] # 0 <=> dn_tx_holds[d] > 0
        /\ \A h \in HoldsOf(d) : tx_txg[h[1]] = dn_assigned_txg[d]

\* dp_dirty_total is the sum of dp_dirty_pertxg, and a slot is back to zero
\* before its next txg opens (dsl_pool_sync's "shore up"), although all of
\* undirtying is clamped and its amounts need not match the dirtied ones.
DirtyAccounted ==
    /\ dp_dirty_total = SumFunction(dp_dirty_pertxg)
    /\ dp_dirty_pertxg[Slot(open + 1)] = 0

\* A thread asleep on dn_notxholds in dmu_tx_wait has left its txg, and the
\* dnode is held by a transaction of the quiescing txg that takes no more
\* holds: it waits for nobody who waits, and no broadcast was missed.
SleepersServed ==
    \A d \in Dnodes : \A t \in dn_notxholds[d] :
        /\ tx_txg[t] = 0
        /\ \E h \in HoldsOf(d) : tx_txg[h[1]] = open - 1 /\ ~At(h[1], "hold")

\* Who sleeps is in dmu_tx_wait's loop, its test still true; the txg it was
\* refused in was open.
WaitInv ==
    /\ dn_notxholds \in [Dnodes -> SUBSET Txs]
    /\ InitTxg <= synced + 1
    /\ \A t \in Txs : tx[t].lasttried # 0 => tx[t].lasttried \in InitTxg .. open
    /\ \A t \in Txs : At(t, "waitdnode") => tx[t].lasttried # 0
    /\ \A d \in Dnodes : \A t \in dn_notxholds[d] :
          At(t, "waitdnode") /\ Holds[t][tx[t].need] = d /\ Blocked(t, d)

\* dmu_tx_assign(TXG_WAIT) "will only fail if we're truly out of space":
\* every transaction is assigned and commits, unless one is refused: a thread
\* that is woken and then refused wakes nobody else.
AllFinish == \A t \in Txs : <>(At(t, "done") \/ budget.used)
=============================================================================
