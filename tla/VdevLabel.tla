----------------------------- MODULE VdevLabel -----------------------------
(***************************************************************************)
(* How a txg becomes the state of the pool: vdev_config_sync of            *)
(* module/zfs/vdev_label.c, its caller at the end of spa_sync, and the     *)
(* choice of an uberblock and a label when the pool is opened.             *)
(*                                                                         *)
(* A leaf vdev has VDEV_LABELS labels, each with a configuration and a     *)
(* ring of uberblocks.  The writes of one phase are issued together and    *)
(* waited for; a phase ends with a flush.  Until then they are in the      *)
(* cache: a crash keeps, loses or tears each of them.  An uberblock or     *)
(* label is the txg and the time (the boot) of its writing.                *)
(***************************************************************************)
EXTENDS Integers, FiniteSets, FiniteSetsExt

CONSTANTS Leaves,
          TopVdevs,
          Scenarios,            \* a set of [top, last, werr, crash, missing, noop]:
                                \* top[v] is the top-level vdev of leaf v, the
                                \* others bound the last txg and the faults
          VDEV_LABELS,
          VDEV_UBERBLOCK_COUNT,
          SPA_DVAS_PER_BP,
          InitTxg

ScenarioType == [top : [Leaves -> TopVdevs], last : Nat, werr : Nat, crash : Nat,
                 missing : Nat, noop : Nat]

ASSUME PoolAssumption ==
    /\ IsFiniteSet(Leaves) /\ Leaves # {}
    /\ Scenarios \subseteq ScenarioType
    /\ VDEV_LABELS \in Nat /\ VDEV_LABELS >= 2
    /\ VDEV_UBERBLOCK_COUNT \in Nat \ {0} /\ SPA_DVAS_PER_BP \in Nat \ {0}
    /\ InitTxg \in Nat \ {0}

VARIABLES spa,      \* spa_sync: its place, spa_uberblock, the dirty list
          label,    \* label[v][l], ring[v][l][n]: what is on the platter
          ring,
          cache,    \* <<v, l>>: writes of this phase that are not flushed
          data,     \* leaves with blocks of this txg that are not flushed
          present,  \* leaves that can be read and written
          hist,     \* the pool's past: what was committed, opened, lost
          pool,     \* the scenario
          budget    \* what is left of its faults

disk == <<label, ring, cache, data>>
bounds == <<pool, budget>>
vars == <<spa, disk, present, hist, bounds>>

Labels == 0 .. (VDEV_LABELS - 1)
Top == pool.top
Tops == {Top[v] : v \in Leaves}
None == [txg |-> 0, ts |-> 0]
\* vdev_uberblock_sync and vdev_label_sync descend to the writeable leaves
Under(tops) == {v \in present : Top[v] \in tops}

Init ==
    LET ub == [txg |-> InitTxg, ts |-> 1] IN
    /\ pool \in Scenarios /\ budget = pool
    /\ spa = [pc |-> "idle", txg |-> InitTxg, boot |-> 1, ub |-> ub, dirty |-> {},
              svd |-> {}, tryhard |-> FALSE, error |-> FALSE]
    /\ label = [v \in Leaves |-> [l \in Labels |-> ub]]
    /\ ring = [v \in Leaves |-> [l \in Labels |-> [n \in 0 .. (VDEV_UBERBLOCK_COUNT - 1) |->
                  IF n = InitTxg % VDEV_UBERBLOCK_COUNT THEN ub ELSE None]]]
    /\ cache = {} /\ data = {}
    /\ present = Leaves
    /\ hist = [synced |-> ub, base |-> ub, cfg |-> [t \in Tops |-> ub], lost |-> {}]

At(pc) == spa.pc = pc
Goto(pc) == spa' = [spa EXCEPT !.pc = pc]
Spend(f, n) == n <= budget[f] /\ budget' = [budget EXCEPT ![f] = @ - n] /\ UNCHANGED pool

-----------------------------------------------------------------------------
(* Finding the state of the pool                                           *)

NewerTxgOnly(a, b) == a.txg > b.txg
\* vdev_uberblock_compare
Newer(a, b) == a.txg > b.txg \/ (a.txg = b.txg /\ a.ts > b.ts)

\* vdev_uberblock_load_done keeps the best of all rings of all leaves, the
\* first it meets of equals, and remembers the leaf.
UberblocksOn(v) == UNION {{ring[v][l][n] : n \in DOMAIN ring[v][l]} : l \in Labels}
BestUberblock ==
    LET all == UNION {UberblocksOn(v) : v \in present}
    IN CHOOSE ub \in all : \A other \in all : ~Newer(other, ub)
BestLeaves == {v \in present : \E ub \in UberblocksOn(v) :
                  ~Newer(ub, BestUberblock) /\ ~Newer(BestUberblock, ub)}

\* vdev_label_read_config: "the most up-to-date label that does not exceed
\* the specified txg".
ReadConfigNewest(v, txg) ==
    LET ok == {label[v][l] : l \in Labels}
    IN CHOOSE c \in ok : \A other \in ok : other.txg <= c.txg
ReadConfig(v, txg) ==
    LET ok == {c \in {label[v][l] : l \in Labels} : c.txg <= txg}
    IN IF ok = {} THEN None
       ELSE LET l == Min({k \in Labels : label[v][k] \in ok
                             /\ \A c \in ok : c.txg <= label[v][k].txg})
            IN label[v][l]

-----------------------------------------------------------------------------
(* spa_sync and vdev_config_sync                                           *)

\* The uberblock goes to all vdevs if some are dirty, otherwise to a few.
SyncVdevs(dirty) ==
    IF dirty # {} THEN {Tops}
    ELSE {s \in SUBSET Tops : Cardinality(s) = Min({Cardinality(Tops), SPA_DVAS_PER_BP})}

SyncTxg ==
    /\ At("idle") /\ spa.txg < pool.last
    /\ \E dirty \in SUBSET Tops : \E svd \in SyncVdevs(dirty) :
          spa' = [spa EXCEPT !.pc = "data", !.txg = @ + 1, !.dirty = dirty, !.svd = svd,
                    !.ub = [txg |-> spa.txg + 1, ts |-> spa.boot],
                    !.tryhard = FALSE, !.error = FALSE]
    /\ data' = present
    /\ UNCHANGED <<label, ring, cache, present, hist, bounds>>

\* Nothing changed in the txg: uberblock_update advances the one in core,
\* nothing is written.
NoopTxg ==
    /\ At("idle") /\ spa.txg < pool.last
    /\ Spend("noop", 1)
    /\ spa' = [spa EXCEPT !.txg = @ + 1]
    /\ UNCHANGED <<disk, present, hist>>

NoFlush == UNCHANGED data
\* "Flush the write cache of every disk that's been written to"
FlushData == data' = {}

DataPhase ==
    /\ At("data")
    /\ FlushData
    /\ Goto("even")
    /\ UNCHANGED <<label, ring, cache, present, hist, bounds>>

\* vdev_label_sync_top_done: a dirty top-level vdev with no good write
NoLabel(good) == \E t \in spa.dirty : \A w \in good : Top[w[1]] # t
\* vdev_uberblock_sync_list: no good write at all
NoUberblock(good) == good = {}

\* Writes are issued and waited for; some fail.
Issue(writes, pc) ==
    \E failed \in SUBSET writes :
        LET good == writes \ failed IN
        /\ Spend("werr", Cardinality(failed))
        /\ cache' = good
        /\ spa' = [spa EXCEPT !.pc = pc,
                     !.error = IF At("ub") THEN NoUberblock(good) ELSE NoLabel(good)]
        /\ UNCHANGED <<label, ring, data, present, hist>>

LabelWrites(parity) == Under(spa.dirty) \X {l \in Labels : l % 2 = parity}

EvenLabels == At("even") /\ Issue(LabelWrites(0), "evenflush")
Uberblocks == At("ub") /\ Issue(Under(spa.svd) \X Labels, "ubflush")
OddLabels == At("odd") /\ Issue(LabelWrites(1), "oddflush")

\* What the platter has when the writes in kept have reached it and those
\* in torn have half reached it.
SlotFixed(ub) == 0
Slot(ub) == ub.txg % VDEV_UBERBLOCK_COUNT
Landed(w, old, kept, torn) ==
    CASE w \in kept -> spa.ub [] w \in torn -> None [] OTHER -> old
PlatterLabels(kept, torn) ==
    [v \in Leaves |-> [l \in Labels |->
        IF spa.pc \in {"evenflush", "oddflush"}
        THEN Landed(<<v, l>>, label[v][l], kept, torn) ELSE label[v][l]]]
PlatterRings(kept, torn) ==
    [v \in Leaves |-> [l \in Labels |->
        IF spa.pc = "ubflush"
        THEN [ring[v][l] EXCEPT ![Slot(spa.ub)] = Landed(<<v, l>>, @, kept, torn)]
        ELSE ring[v][l]]]

\* goto retry: once more with ZIO_FLAG_TRYHARD, then spa_sync suspends the pool.
Retry == IF spa.tryhard THEN [spa EXCEPT !.pc = "suspended"]
         ELSE [spa EXCEPT !.pc = "data", !.tryhard = TRUE, !.error = FALSE]

\* the order of the phases
NextPhase(pc) == CASE pc = "evenflush" -> "ub" [] pc = "ubflush" -> "odd"
                   [] pc = "oddflush" -> "idle"

\* The flush at the end of a phase; the last one ends vdev_config_sync, and
\* spa_sync cleans the dirty list.
FlushPhase ==
    /\ spa.pc \in {"evenflush", "ubflush", "oddflush"}
    /\ label' = PlatterLabels(cache, {}) /\ ring' = PlatterRings(cache, {})
    /\ cache' = {}
    /\ IF spa.error THEN spa' = Retry /\ UNCHANGED hist
       ELSE LET pc == NextPhase(spa.pc) IN
            /\ spa' = [spa EXCEPT !.pc = pc, !.dirty = IF pc = "idle" THEN {} ELSE @]
            /\ hist' = IF pc # "idle" THEN hist
                       ELSE [hist EXCEPT !.synced = spa.ub, !.base = spa.ub,
                               !.cfg = [t \in Tops |-> IF t \in spa.dirty THEN spa.ub ELSE @[t]]]
    /\ UNCHANGED <<data, present, bounds>>

ResumeAsNoop == [spa EXCEPT !.pc = "idle"]
\* After zio_resume_wait vdev_config_sync is called again for the same txg.
CallAgain == [spa EXCEPT !.pc = "data", !.tryhard = FALSE, !.error = FALSE]

Resume ==
    /\ At("suspended")
    /\ \E svd \in SyncVdevs(spa.dirty) : spa' = [CallAgain EXCEPT !.svd = svd]
    /\ UNCHANGED <<disk, present, hist, bounds>>

-----------------------------------------------------------------------------
(* Crashes, missing leaves and the next open                               *)

Crash ==
    /\ spa.pc \notin {"down", "load"}
    /\ Spend("crash", 1)
    /\ \E kept \in SUBSET cache : \E torn \in SUBSET (cache \ kept) :
          label' = PlatterLabels(kept, torn) /\ ring' = PlatterRings(kept, torn)
    /\ \E gone \in SUBSET data :
          hist' = [hist EXCEPT !.lost = IF gone = {} THEN @ ELSE @ \cup {spa.ub}]
    /\ cache' = {} /\ data' = {}
    /\ Goto("down")
    /\ UNCHANGED present

\* A leaf may be missing if its top-level vdev has another.
Open ==
    /\ At("down")
    /\ \E here \in SUBSET Leaves :
          /\ \A t \in Tops : \E v \in here : Top[v] = t
          /\ Spend("missing", Cardinality(Leaves \ here))
          /\ present' = here
    /\ Goto("load")
    /\ UNCHANGED <<disk, hist>>

\* spa_load_impl fails if there is no label for the best uberblock.
Load ==
    LET best == BestUberblock IN
    /\ At("load")
    /\ \E v \in BestLeaves : ReadConfig(v, best.txg) # None
    /\ spa' = [spa EXCEPT !.pc = "idle", !.txg = best.txg, !.ub = best, !.boot = @ + 1,
                       !.dirty = {}]
    /\ hist' = [hist EXCEPT !.base = best, !.cfg = [t \in Tops |->
                       IF best = spa.ub /\ t \in spa.dirty THEN best ELSE @[t]]]
    /\ UNCHANGED <<disk, present, bounds>>

\* vdev_online: the leaf is back.
Online ==
    /\ At("idle") /\ present # Leaves
    /\ present' = Leaves
    /\ UNCHANGED <<spa, disk, hist, bounds>>

-----------------------------------------------------------------------------
ConfigSync == DataPhase \/ EvenLabels \/ Uberblocks \/ OddLabels \/ FlushPhase \/ Resume

Next == SyncTxg \/ NoopTxg \/ ConfigSync \/ Crash \/ Open \/ Load \/ Online

Spec == Init /\ [][Next]_vars

\* I/O completes, and a suspended pool is resumed.
FairSpec == Spec /\ WF_vars(ConfigSync) /\ WF_vars(Open) /\ WF_vars(Load)

-----------------------------------------------------------------------------

\* "if the system panics or loses power at any time, the state on disk is
\* still transactionally consistent" (vdev_config_sync): the uberblock that
\* the next open chooses is the last that spa_sync committed or an open chose
\* (hist.base), or the one that was being written: never an older one, never
\* one of a future that was given up (vdev_uberblock_compare).  If a leaf was
\* missing, who may alone have had what an open chose, it is at least the last
\* that was committed or one of the same boot that continues it.
UberblockFound ==
    At("load") =>
        LET best == BestUberblock IN
        \/ best \in {hist.base, spa.ub}
        \/ /\ pool.missing > 0
           /\ \/ best = hist.synced
              \/ best.ts = hist.synced.ts /\ best.txg > hist.synced.txg

\* The blocks of the txg are on disk before an uberblock that refers to them
\* (the first flush of vdev_config_sync).
DataBeforeUberblock == At("load") => BestUberblock \notin hist.lost

\* "the odd labels (which had not yet been touched) will be valid with
\* respect to that uberblock", and the even ones with respect to the new:
\* the label that is read beside the best uberblock is the configuration
\* that its vdev had in that txg.  So it is at the first crash, if no write
\* failed before it; a leaf whose even label failed gets the new uberblock all
\* the same (vdev_label_sync_top_done asks for one good write of a top-level
\* vdev), and after a crash among the odd labels the next open may dirty the
\* even ones before the odd ones are repaired.
LabelCurrent ==
    At("load") /\ spa.boot = 1 /\ budget.werr = pool.werr =>
        \A v \in BestLeaves :
            ReadConfig(v, BestUberblock.txg) =
                IF BestUberblock = spa.ub /\ Top[v] \in spa.dirty THEN spa.ub
                ELSE hist.cfg[Top[v]]

\* "if it fails at any time, you can just call it again, and it will resume
\* its work" (vdev_config_sync): a sync that began is committed, whatever
\* writes fail, unless the system goes down.
SyncCommits == At("data") ~> (At("idle") /\ hist.synced = spa.ub) \/ At("down")
=============================================================================
