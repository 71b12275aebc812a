-------------------------------- MODULE Zil --------------------------------
(***************************************************************************)
(* The ZFS intent log, module/zfs/zil.c: what makes an fsync or a          *)
(* synchronous write survive a crash before its txg is on disk.            *)
(*                                                                         *)
(* System calls leave records (itxs) in per-txg lists.  zil_commit makes   *)
(* one of its callers the writer, which copies them into log blocks (lwbs) *)
(* chained on disk from the log header.  zil_sync, in syncing context,     *)
(* moves the header past the blocks the pool no longer needs.  After a     *)
(* crash the chain is claimed, replayed in order and destroyed.            *)
(*                                                                         *)
(* Threads run scripts of system calls.  The txg pipeline is TxgAbstract;  *)
(* threads and log blocks in flight (lwb_tx) are its transactions.  A step *)
(* is a stretch under one itxg_lock or zl_lock.  A log block is named by   *)
(* its address and chain GUID together, so that no name is used twice.     *)
(* The contents of records are not modelled: a record is the call it is of.*)
(***************************************************************************)
EXTENDS Integers, Sequences, FiniteSets, SequencesExt, FiniteSetsExt

CONSTANTS Threads, Objects,
          Scenarios,    \* a set of [script, faults], one for each behaviour:
                        \* script[t] is a sequence of [do, obj, sync],
                        \* faults bounds [close, noalloc, eio, werr, crash]
          BlkRecs,      \* records a log block holds
          InitTxg,
          MaxTxg,       \* bound: the last txg ever opened
          MaxBlk        \* bound: log blocks ever allocated

VARIABLES
    open, synced, held, \* tx_open_txg, spa_last_synced_txg, txg memberships
    spa,                \* spa_sync of txg synced + 1: [phase, dirty datasets]
    th,                 \* each thread's place in its script and in a call
    zl, itxg, zh,       \* zilog_t, its zl_itxg, and zl_header in core
    zhd, blk,           \* the header on disk, and the log blocks
    applied, acked,     \* the file system: the txg of each call's effect
    boot,               \* recovery: what the import is doing
    budget              \* the scenario, and what is left of its faults

pipe == <<open, synced, held>>
disk == <<zhd, blk>>
fs   == <<applied, acked>>
rest == <<boot, budget>>
vars == <<pipe, spa, th, zl, itxg, zh, disk, fs, rest>>

Blks == 1 .. MaxBlk
NoBlk == 0
TXG_SIZE == 4
TXG_CONCURRENT_STATES == 3
TXG_DEFER_SIZE == 2
Slots == 0 .. (TXG_SIZE - 1)

Txg == INSTANCE TxgAbstract WITH Txs <- Threads \cup Blks,
           MaxActive <- TXG_CONCURRENT_STATES, durable <- synced, member <- held

Script == budget.script
Ops == UNION {{<<t, i>> : i \in {j \in DOMAIN Script[t] :
                  Script[t][j].do \in {"write", "rename"}}} : t \in Threads}
CallOf(op) == Script[op[1]][op[2]]

NoItxs == [txg |-> 0, sync |-> <<>>, async |-> [o \in Objects |-> <<>>]]
NoHeader == [log |-> NoBlk, claim_txg |-> 0, replay_seq |-> 0, replay |-> FALSE]
NoThread == [pc |-> "idle", i |-> 1, mybatch |-> 0, otxg |-> 0, k |-> 0,
             target |-> 0, want |-> {}]

\* zil_alloc.  lwb: the writer's lwb is not NULL; list: zl_itx_commit_list.
NewZilog ==
    [writer |-> FALSE, next_batch |-> 1, com_batch |-> 0, cv |-> [b \in 0 .. 1 |-> {}],
     lwbs |-> <<>>, lwb |-> FALSE, list |-> <<>>, lr_seq |-> 0,
     suspend |-> 0, suspending |-> FALSE, destroy_txg |-> 0, keep_first |-> FALSE,
     replayed_seq |-> [s \in Slots |-> 0]]

\* A log block: blk_birth, when the space maps have it allocated and freed,
\* and, once written, its records and zc_next_blk.
NewBlk == [birth |-> 0, alloc |-> 0, freed |-> 0, ok |-> FALSE, recs |-> <<>>,
           next |-> NoBlk]

Init ==
    /\ budget \in Scenarios
    /\ Txg!Init /\ spa = [phase |-> "idle", dirty |-> {}]
    /\ th = [t \in Threads |-> NoThread]
    /\ zl = NewZilog
    /\ itxg = [s \in Slots |-> NoItxs]
    /\ zh = NoHeader /\ zhd = NoHeader
    /\ blk = [b \in Blks |-> NewBlk]
    /\ applied = [op \in Ops |-> 0] /\ acked = {}
    /\ boot = [at |-> "run", target |-> 0, k |-> 1]

At(t, where) == th[t].pc = where
Call(t) == Script[t][th[t].i]
Closing == \E t \in Threads : th[t].pc # "idle" /\ Call(t).do = "close"
Calls(t, what) == /\ boot.at = "run" /\ At(t, "idle") /\ th[t].i <= Len(Script[t])
                  /\ Call(t).do = what /\ ~Closing
Return(t) == [th EXCEPT ![t] = [NoThread EXCEPT !.i = th[t].i + 1]]
Spend(f) == budget.faults[f] > 0 /\ budget' = [budget EXCEPT !.faults[f] = @ - 1]
Dirty(txg) == spa' = [spa EXCEPT !.dirty = @ \cup {txg}]

\* The txg of the uberblock on disk.
DiskTxg == IF spa.phase \in {"ub", "cleaned"} THEN synced + 1 ELSE synced

\* zil_parse: the blocks from b on, up to the first that cannot be read, and
\* the records of those that can.
Readable(b) == blk[b].ok /\ blk[b].freed \notin 1 .. DiskTxg
Chain(b) ==
    LET from[c \in {NoBlk} \cup Blks] ==
          IF c = NoBlk THEN <<>>
          ELSE <<c>> \o IF Readable(c) THEN from[blk[c].next] ELSE <<>>
    IN from[b]
Records(b) ==
    LET ok == SelectSeq(Chain(b), Readable)
    IN FlattenSeq([n \in DOMAIN ok |-> blk[ok[n]].recs])

-----------------------------------------------------------------------------
(* A call that changes the file system, and its itx                        *)

Begin(t) ==
    /\ \E what \in {"write", "rename"} : Calls(t, what)
    /\ Txg!Join(t)
    /\ th' = IF Call(t).do = "write" THEN [th EXCEPT ![t].pc = "log"]
             ELSE [th EXCEPT ![t].pc = "a2s", ![t].otxg = synced + 1]
    /\ UNCHANGED <<spa, zl, itxg, zh, disk, fs, rest>>

\* zil_itx_assign (a TX_RENAME has been through zil_async_to_sync), and the
\* end of the call's transaction.
ItxAssign(t) ==
    LET op == <<t, th[t].i>>
        s  == held[t] % TXG_SIZE
        l  == IF itxg[s].txg = held[t] THEN itxg[s]
              ELSE [NoItxs EXCEPT !.txg = held[t]]
        x  == [op |-> op, txg |-> held[t]]
    IN
    /\ At(t, "log")
    /\ itxg' = [itxg EXCEPT ![s] =
                  IF Call(t).sync THEN [l EXCEPT !.sync = Append(@, x)]
                  ELSE [l EXCEPT !.async[Call(t).obj] = Append(@, x)]]
    /\ applied' = [applied EXCEPT ![op] = held[t]]
    /\ Dirty(held[t])
    /\ Txg!Leave(t)
    /\ th' = Return(t)
    /\ UNCHANGED <<zl, zh, disk, acked, rest>>

\* The objects of a zil_commit or zil_async_to_sync: foid, or all for 0.
Foids(t) == IF Call(t).do \in {"suspend", "offline", "close"} THEN Objects ELSE {Call(t).obj}

\* One turn of zil_async_to_sync.
AsyncToSync(t) ==
    LET txg  == th[t].otxg + th[t].k
        s    == txg % TXG_SIZE
        foid == SetToSeq(Foids(t))
    IN
    /\ At(t, "a2s")
    /\ IF itxg[s].txg = txg
       THEN itxg' = [itxg EXCEPT
              ![s].sync = @ \o FlattenSeq([n \in DOMAIN foid |-> itxg[s].async[foid[n]]]),
              ![s].async = [o \in Objects |-> IF o \in Foids(t) THEN <<>> ELSE @[o]]]
       ELSE UNCHANGED itxg
    /\ th' = IF th[t].k + 1 < TXG_CONCURRENT_STATES
             THEN [th EXCEPT ![t].k = @ + 1]
             ELSE [th EXCEPT ![t].k = 0, ![t].otxg = 0,
                      ![t].pc = IF Call(t).do = "rename" THEN "log" ELSE "batch"]
    /\ UNCHANGED <<pipe, spa, zl, zh, disk, fs, rest>>

-----------------------------------------------------------------------------
(* zil_commit                                                              *)

\* What has been done when a commit for the objects os starts: every
\* synchronous record, and the asynchronous ones of os.
Covered(os) == {op \in Ops : applied[op] # 0 /\ (CallOf(op).sync \/ CallOf(op).obj \in os)}

EnterCommit(t) ==
    th' = [th EXCEPT ![t].pc = "a2s", ![t].otxg = synced + 1,
                     ![t].want = Covered(Foids(t))]

Commit(t) ==
    /\ Calls(t, "commit")
    /\ EnterCommit(t)
    /\ UNCHANGED <<pipe, spa, zl, itxg, zh, disk, fs, rest>>

\* zil_commit returns, to the system call or to zil_suspend or zil_close.
Committed(t) ==
    /\ acked' = acked \cup th[t].want
    /\ th' = CASE Call(t).do = "commit"  -> Return(t)
               [] Call(t).do = "close"   -> [th EXCEPT ![t].pc = "close"]
               [] OTHER -> [th EXCEPT ![t].pc = "destroy", ![t].target = zl.destroy_txg]

\* while (zl_writer) cv_wait: sleep on the cv of mybatch, or be the writer.
BecomeWriter(t, mybatch) ==
    IF zl.writer
    THEN /\ zl' = [zl EXCEPT !.cv[mybatch % 2] = @ \cup {t}]
         /\ th' = [th EXCEPT ![t].mybatch = mybatch, ![t].pc = "sleep"]
    ELSE /\ zl' = [zl EXCEPT !.next_batch = @ + 1, !.writer = TRUE]
         /\ th' = [th EXCEPT ![t].mybatch = mybatch, ![t].pc = "collect"]

Batch(t) ==
    /\ At(t, "batch")
    /\ BecomeWriter(t, zl.next_batch)
    /\ UNCHANGED <<pipe, spa, itxg, zh, disk, fs, rest>>

BatchDoneEarly(t) == th[t].mybatch <= zl.com_batch + 1
BatchDone(t) == th[t].mybatch <= zl.com_batch

Woken(t) ==
    /\ At(t, "sleep") /\ t \notin zl.cv[th[t].mybatch % 2]
    /\ IF BatchDone(t)
       THEN Committed(t) /\ UNCHANGED zl
       ELSE BecomeWriter(t, th[t].mybatch) /\ UNCHANGED acked
    /\ UNCHANGED <<pipe, spa, itxg, zh, disk, applied, rest>>

\* One turn of zil_get_commit_list.
Collect(t) ==
    LET otxg == IF th[t].k = 0 THEN synced + 1 ELSE th[t].otxg
        txg  == otxg + th[t].k
        s    == txg % TXG_SIZE
    IN
    /\ At(t, "collect") /\ th[t].k < TXG_CONCURRENT_STATES
    /\ IF itxg[s].txg = txg
       THEN /\ zl' = [zl EXCEPT !.list = @ \o itxg[s].sync]
            /\ itxg' = [itxg EXCEPT ![s].sync = <<>>]
       ELSE UNCHANGED <<zl, itxg>>
    /\ th' = [th EXCEPT ![t].k = @ + 1, ![t].otxg = otxg]
    /\ UNCHANGED <<pipe, spa, zh, disk, fs, rest>>

LogSuspended == zl.suspend > 0

\* The txg zil_create and zil_destroy wait for.
LastDestroy == zl.destroy_txg

\* After the list is collected: nothing to do, no log while suspended, the
\* open lwb, or a new log.
Start(t) ==
    /\ At(t, "collect") /\ th[t].k = TXG_CONCURRENT_STATES
    /\ zl' = [zl EXCEPT !.lwb = ~LogSuspended]
    /\ th' = [th EXCEPT ![t].target = LastDestroy, ![t].k = 0, ![t].otxg = 0,
          ![t].pc = CASE zl.list = <<>> -> "finish"
                      [] zl.list # <<>> /\ ~LogSuspended /\ zl.lwbs = <<>> -> "create"
                      [] OTHER -> "rec"]
    /\ UNCHANGED <<pipe, spa, itxg, zh, disk, fs, rest>>

Fresh == Min({b \in Blks : blk[b].birth = 0} \cup {MaxBlk + 1})
TailLwb == Len(zl.lwbs)
NewLwb(b, txg) == [blk |-> b, next |-> NoBlk, recs |-> <<>>, st |-> "open",
                   max_txg |-> txg]

\* zio_alloc_zil in txg
AllocBlk(txg) ==
    /\ Fresh <= MaxBlk
    /\ blk' = [blk EXCEPT ![Fresh].birth = txg, ![Fresh].alloc = txg]

\* zil_create, after the previous destroy is on disk: the block the header
\* has, or a new one, which is waited for until zil_sync has put it there.
Create(t) ==
    /\ At(t, "create") /\ synced >= th[t].target
    /\ IF zh.log # NoBlk
       THEN /\ zl' = [zl EXCEPT !.lwbs = <<NewLwb(zh.log, 0)>>]
            /\ th' = [th EXCEPT ![t].pc = "rec"]
            /\ UNCHANGED <<spa, blk, budget>>
       ELSE /\ Dirty(open)
            /\ th' = [th EXCEPT ![t].pc = "createwait", ![t].target = open]
            /\ \/ /\ AllocBlk(open)
                  /\ zl' = [zl EXCEPT !.lwbs = <<NewLwb(Fresh, open)>>]
                  /\ UNCHANGED budget
               \/ /\ Spend("noalloc")
                  /\ zl' = [zl EXCEPT !.lwb = FALSE]
                  /\ UNCHANGED blk
    /\ UNCHANGED <<pipe, itxg, zh, zhd, fs, boot>>

\* zil_lwb_write_start: the next block is allocated in a transaction that
\* stays open until this one is written.  No next block: lwb is NULL.
WriteStart ==
    /\ Txg!Join(zl.lwbs[TailLwb].blk)
    /\ Dirty(open)
    /\ \/ /\ AllocBlk(open)
          /\ zl' = [zl EXCEPT !.lwbs = Append([@ EXCEPT ![TailLwb].st = "issued",
                                                        ![TailLwb].next = Fresh],
                                              NewLwb(Fresh, open))]
          /\ UNCHANGED budget
       \/ /\ Spend("noalloc")
          /\ zl' = [zl EXCEPT !.lwbs[TailLwb].st = "issued", !.lwb = FALSE]
          /\ UNCHANGED blk

\* The loop of zil_commit_writer with zil_lwb_commit, for one itx: it is on
\* disk or there is no log; the lwb is full; its data cannot be read, so its
\* txg is waited for; or it is copied into the lwb.
LwbCommit(t) ==
    LET x == Head(zl.list) IN
    /\ At(t, "rec") /\ zl.list # <<>>
    /\ \/ /\ x.txg <= synced \/ ~zl.lwb
          /\ zl' = [zl EXCEPT !.list = Tail(@)]
          /\ UNCHANGED <<pipe, spa, th, blk, budget>>
       \/ /\ x.txg > synced /\ zl.lwb
          /\ Len(zl.lwbs[TailLwb].recs) = BlkRecs
          /\ WriteStart
          /\ UNCHANGED th
       \/ /\ x.txg > synced /\ zl.lwb
          /\ Len(zl.lwbs[TailLwb].recs) < BlkRecs
          /\ \/ /\ zl' = [zl EXCEPT !.list = Tail(@), !.lr_seq = @ + 1,
                     !.lwbs[TailLwb].st = "init",
                     !.lwbs[TailLwb].recs = Append(@, [op |-> x.op, txg |-> x.txg,
                                                    seq |-> zl.lr_seq + 1]),
                     !.lwbs[TailLwb].max_txg = Max({@, x.txg})]
                /\ UNCHANGED <<th, budget>>
             \/ /\ Spend("eio")
                /\ zl' = [zl EXCEPT !.list = Tail(@), !.lwbs[TailLwb].st = "init"]
                /\ th' = [th EXCEPT ![t].pc = "recwait", ![t].target = x.txg]
          /\ UNCHANGED <<pipe, spa, blk>>
    /\ UNCHANGED <<itxg, zh, zhd, fs, boot>>

\* "write the last block out"
LastBlock(t) ==
    /\ At(t, "rec") /\ zl.list = <<>>
    /\ th' = [th EXCEPT ![t].pc = "iowait"]
    /\ IF zl.lwb /\ zl.lwbs[TailLwb].st = "init" THEN WriteStart
       ELSE UNCHANGED <<pipe, spa, zl, blk, budget>>
    /\ UNCHANGED <<itxg, zh, zhd, fs, boot>>

\* zil_lwb_write_done.  A failed write is reported to nobody: the zio has
\* ZIO_FLAG_DONT_PROPAGATE.
WriteDone ==
    \E n \in DOMAIN zl.lwbs :
        LET l == zl.lwbs[n] IN
        /\ l.st = "issued"
        /\ zl' = [zl EXCEPT !.lwbs[n].st = "done"]
        /\ Txg!Leave(l.blk)
        /\ \/ /\ blk' = [blk EXCEPT ![l.blk].ok = TRUE, ![l.blk].recs = l.recs,
                                    ![l.blk].next = l.next]
              /\ UNCHANGED budget
           \/ Spend("werr") /\ UNCHANGED blk
        /\ UNCHANGED <<spa, th, itxg, zh, zhd, fs, boot>>

\* zio_wait of the log blocks, and txg_wait_synced(0) if there was no lwb.
IoWait(t) ==
    /\ At(t, "iowait") /\ \A n \in DOMAIN zl.lwbs : zl.lwbs[n].st # "issued"
    /\ th' = IF zl.lwb THEN [th EXCEPT ![t].pc = "finish"]
             ELSE [th EXCEPT ![t].pc = "syncwait", ![t].target = open + TXG_DEFER_SIZE]
    /\ UNCHANGED <<pipe, spa, zl, itxg, zh, disk, fs, rest>>

\* txg_wait_synced, wherever a thread that holds the log calls it.
TxgWait(t) ==
    /\ th[t].pc \in {"createwait", "recwait", "syncwait"} /\ synced >= th[t].target
    /\ th' = [th EXCEPT ![t].pc = IF @ = "syncwait" THEN "finish" ELSE "rec",
                        ![t].target = 0]
    /\ UNCHANGED <<pipe, spa, zl, itxg, zh, disk, fs, rest>>

SignalNobody(sleepers) == {{}}
\* cv_signal: the sets of threads it may wake
Signal(sleepers) == IF sleepers = {} THEN {{}} ELSE {{u} : u \in sleepers}

\* The end of zil_commit for the writer: signal a thread of the next batch,
\* broadcast to its own.
Finish(t) ==
    LET mine == th[t].mybatch % 2
        next == zl.cv[1 - mine]
    IN
    /\ At(t, "finish")
    /\ \E w \in Signal(next) :
          zl' = [zl EXCEPT !.com_batch = th[t].mybatch, !.writer = FALSE,
                           !.cv = [b \in 0 .. 1 |-> IF b = mine THEN {} ELSE next \ w]]
    /\ Committed(t)
    /\ UNCHANGED <<pipe, spa, itxg, zh, disk, applied, rest>>

-----------------------------------------------------------------------------
(* zil_suspend, zil_resume and zil_close                                   *)

\* zil_destroy in the open txg, the previous one being on disk: frees the
\* lwbs, or else what the header has on disk.
Destroy(keep_first, blocks) ==
    /\ zl' = [zl EXCEPT !.destroy_txg = open, !.keep_first = keep_first, !.lwbs = <<>>]
    /\ blk' = [b \in Blks |-> IF b \in blocks THEN [blk[b] EXCEPT !.freed = open]
                              ELSE blk[b]]
    /\ Dirty(open)

\* Up to zil_commit.  An "offline" passes no cookie: it suspends and resumes.
Suspend(t) ==
    /\ Calls(t, "suspend") \/ Calls(t, "offline")
    /\ LET fast == /\ Call(t).do = "offline" /\ ~zl.suspending
                   /\ zl.suspend > 0 \/ zh.log = NoBlk
       IN CASE fast -> th' = Return(t) /\ UNCHANGED zl
            [] ~fast /\ zl.suspend > 0 ->
                 /\ zl' = [zl EXCEPT !.suspend = @ + 1]
                 /\ th' = [th EXCEPT ![t].pc = "suspwait"]
            [] ~fast /\ zl.suspend = 0 /\ zh.log = NoBlk ->
                 /\ zl' = [zl EXCEPT !.suspend = 1]
                 /\ th' = Return(t)
            [] OTHER ->
                 /\ zl' = [zl EXCEPT !.suspend = 1, !.suspending = TRUE]
                 /\ EnterCommit(t)
    /\ UNCHANGED <<pipe, spa, itxg, zh, disk, fs, rest>>

SuspendDestroy(t) ==
    /\ At(t, "destroy") /\ synced >= th[t].target
    /\ th' = [th EXCEPT ![t].pc = "suspended"]
    /\ IF zh.log = NoBlk THEN UNCHANGED <<zl, blk, spa>>
       ELSE Destroy(FALSE, IF zl.lwbs = <<>> THEN Range(Chain(zh.log))
                           ELSE {zl.lwbs[n].blk : n \in DOMAIN zl.lwbs})
    /\ UNCHANGED <<pipe, itxg, zh, zhd, fs, rest>>

\* The end of zil_suspend, for the thread that did it and for one that
\* waited; without a cookie it resumes.
Suspended(t) ==
    /\ At(t, "suspended") \/ (At(t, "suspwait") /\ ~zl.suspending)
    /\ zl' = [zl EXCEPT !.suspending = FALSE,
                        !.suspend = IF Call(t).do = "offline" THEN @ - 1 ELSE @]
    /\ th' = Return(t)
    /\ UNCHANGED <<pipe, spa, itxg, zh, disk, fs, rest>>

Resume(t) ==
    /\ Calls(t, "resume")
    /\ zl' = [zl EXCEPT !.suspend = @ - 1]
    /\ th' = Return(t)
    /\ UNCHANGED <<pipe, spa, itxg, zh, disk, fs, rest>>

\* zil_close, with no other call on the dataset
Close(t) ==
    /\ Calls(t, "close") /\ \A u \in Threads : At(u, "idle")
    /\ EnterCommit(t)
    /\ UNCHANGED <<pipe, spa, zl, itxg, zh, disk, fs, rest>>

NoActivity == 0
\* lwb_max_txg of the stubby lwb
LastActivity == IF zl.lwbs = <<>> THEN 0 ELSE zl.lwbs[TailLwb].max_txg

CloseWait(t) ==
    /\ At(t, "close")
    /\ th' = [th EXCEPT ![t].pc = "closewait", ![t].target = LastActivity]
    /\ UNCHANGED <<pipe, spa, zl, itxg, zh, disk, fs, rest>>

Closed(t) ==
    /\ At(t, "closewait") /\ synced >= th[t].target
    /\ zl' = [zl EXCEPT !.lwbs = <<>>]
    /\ th' = Return(t)
    /\ UNCHANGED <<pipe, spa, itxg, zh, disk, fs, rest>>

-----------------------------------------------------------------------------
(* The txg pipeline and spa_sync                                           *)

Awaited == {th[t].target : t \in {u \in Threads : th[u].pc \in
              {"create", "createwait", "recwait", "syncwait", "destroy", "closewait"}}}
           \cup {boot.target}

\* A txg is closed when someone waits for it, or of its own accord.
TxgClose ==
    /\ boot.at # "claim" /\ open < MaxTxg
    /\ Txg!Close
    /\ \/ (\E txg \in Awaited : txg >= open) /\ UNCHANGED budget
       \/ Spend("close")
    /\ UNCHANGED <<spa, th, zl, itxg, zh, disk, fs, boot>>

\* zil_sync pops the lwbs at the head that are written and not needed.
Done(l, txg) == l.st = "done" /\ l.max_txg <= txg
Left(txg) == {n \in DOMAIN zl.lwbs : \E m \in 1 .. n : ~Done(zl.lwbs[m], txg)}

FirstLwbNotZeroed(left, log) == IF left = {} THEN log ELSE zl.lwbs[Min(left)].blk
\* zh_log after the loop: zeroed if every lwb is gone.
FirstLwb(left, log) ==
    CASE zl.lwbs = <<>> -> log
      [] zl.lwbs # <<>> /\ left = {} -> NoBlk
      [] OTHER -> zl.lwbs[Min(left)].blk

ZilSync(txg) ==
    LET s       == txg % TXG_SIZE
        destroy == zl.destroy_txg = txg
        keep    == destroy /\ zl.keep_first
        h       == CASE keep -> [NoHeader EXCEPT !.log = Fresh]
                     [] destroy /\ ~keep -> NoHeader
                     [] OTHER -> [zh EXCEPT !.replay_seq =
                          IF zl.replayed_seq[s] # 0 THEN zl.replayed_seq[s] ELSE @]
        left    == Left(txg)
        gone    == {zl.lwbs[n].blk : n \in DOMAIN zl.lwbs \ left}
                     \cup IF keep THEN {zh.log} ELSE {}
    IN
    /\ zh' = [h EXCEPT !.log = FirstLwb(left, @)]
    /\ zl' = [zl EXCEPT
          !.lwbs = SubSeq(@, Len(@) - Cardinality(left) + 1, Len(@)),
          !.replayed_seq = IF destroy THEN [z \in Slots |-> 0] ELSE [@ EXCEPT ![s] = 0]]
    /\ blk' = [b \in Blks |->
          CASE b \in gone -> [blk[b] EXCEPT !.freed = txg]
            [] keep /\ b = Fresh -> [blk[b] EXCEPT !.birth = txg, !.alloc = txg]
            [] OTHER -> blk[b]]

\* dsl_pool_sync of the next txg, all of whose transactions have committed
SyncStart ==
    /\ spa.phase = "idle" /\ synced + 1 < open
    /\ \A x \in DOMAIN held : held[x] # synced + 1
    /\ spa' = [spa EXCEPT !.phase = "sync"]
    /\ IF synced + 1 \in spa.dirty THEN ZilSync(synced + 1) ELSE UNCHANGED <<zl, zh, blk>>
    /\ UNCHANGED <<pipe, th, itxg, zhd, fs, rest>>

\* vdev_config_sync
Uberblock ==
    /\ spa.phase = "sync"
    /\ spa' = [spa EXCEPT !.phase = "ub"]
    /\ zhd' = zh
    /\ UNCHANGED <<pipe, th, zl, itxg, zh, blk, fs, rest>>

\* dsl_pool_sync_done calls zil_clean.
ZilClean ==
    LET s == (synced + 1) % TXG_SIZE IN
    /\ spa.phase = "ub"
    /\ spa' = [spa EXCEPT !.phase = "cleaned"]
    /\ itxg' = [itxg EXCEPT ![s] = IF @.txg = synced + 1 THEN NoItxs ELSE @]
    /\ UNCHANGED <<pipe, th, zl, zh, disk, fs, rest>>

\* spa_ubsync is updated.
SyncDone ==
    /\ spa.phase = "cleaned"
    /\ spa' = [phase |-> "idle", dirty |-> spa.dirty \ {synced + 1}]
    /\ Txg!MakeDurable
    /\ UNCHANGED <<th, zl, itxg, zh, disk, fs, rest>>

-----------------------------------------------------------------------------
(* Crash and recovery                                                      *)

Crash ==
    LET d == DiskTxg
        Lost(x) == IF x > d THEN 0 ELSE x
    IN
    /\ Spend("crash")
    /\ open' = d + 1 /\ synced' = d /\ held' = [x \in DOMAIN held |-> 0]
    /\ spa' = [phase |-> "idle", dirty |-> {}]
    /\ th' = [t \in Threads |-> IF At(t, "idle") THEN th[t] ELSE Return(t)[t]]
    /\ zl' = NewZilog /\ itxg' = [s \in Slots |-> NoItxs] /\ zh' = zhd
    /\ blk' = [b \in Blks |-> [blk[b] EXCEPT !.alloc = Lost(@), !.freed = Lost(@)]]
    /\ applied' = [op \in Ops |-> Lost(applied[op])]
    /\ boot' = [at |-> "claim", target |-> 0, k |-> 1]
    /\ UNCHANGED <<zhd, acked>>

\* zil_claim_log_block: not committed
Claimable(b) == blk[b].birth >= open

\* zil_claim, in the first txg: allocate again the blocks of the chain.
Claim ==
    LET chain == Range(Chain(zh.log))
        mine  == {b \in chain : Claimable(b)}
    IN
    /\ boot.at = "claim"
    /\ boot' = [boot EXCEPT !.at = "claimwait",
                            !.target = Max({open} \cup {blk[b].birth : b \in mine})]
    /\ IF zh.claim_txg = 0 /\ zh.log # NoBlk
       THEN /\ zh' = [zh EXCEPT !.claim_txg = open,
                        !.replay = Records(zh.log) # <<>> \/ Cardinality(chain) > 1]
            /\ blk' = [b \in Blks |-> IF b \in mine THEN [blk[b] EXCEPT !.alloc = open]
                                      ELSE blk[b]]
            /\ Dirty(open)
       ELSE UNCHANGED <<zh, blk, spa>>
    /\ UNCHANGED <<pipe, th, zl, itxg, zhd, fs, budget>>

\* zil_replay at mount, until the txg_wait_synced(0) before the records
Mount ==
    /\ boot.at = "claimwait" /\ synced >= boot.target
    /\ IF zh.replay
       THEN /\ boot' = [boot EXCEPT !.at = "replay", !.target = open + TXG_DEFER_SIZE]
            /\ UNCHANGED <<zl, blk, spa>>
       ELSE /\ boot' = [boot EXCEPT !.at = "run", !.target = 0]
            /\ IF zh.log = NoBlk THEN UNCHANGED <<zl, blk, spa>> ELSE Destroy(TRUE, {})
    /\ UNCHANGED <<pipe, th, itxg, zh, zhd, fs, budget>>

\* zil_replay_log_record: a record on disk or replayed already is skipped.
\* The others are replayed in a transaction that also notes their sequence
\* number (zil_replaying).
Skip(r) == r.seq <= zh.replay_seq \/ r.txg < zh.claim_txg

ForgetReplayed(r) == UNCHANGED zl
NoteReplayed(r) == zl' = [zl EXCEPT !.replayed_seq[open % TXG_SIZE] = r.seq]

Replay ==
    /\ boot.at = "replay" /\ synced >= boot.target
    /\ boot.k <= Len(Records(zh.log))
    /\ boot' = [boot EXCEPT !.k = @ + 1]
    /\ LET r == Records(zh.log)[boot.k] IN
          IF Skip(r) THEN UNCHANGED <<applied, zl, spa>>
          ELSE /\ applied' = [applied EXCEPT ![r.op] = open]
               /\ NoteReplayed(r)
               /\ Dirty(open)
    /\ UNCHANGED <<pipe, th, itxg, zh, disk, acked, budget>>

\* The log is destroyed, and that is waited for.
ReplayDone ==
    /\ boot.at = "replay" /\ synced >= boot.target
    /\ boot.k > Len(Records(zh.log))
    /\ boot' = [boot EXCEPT !.at = "destroywait", !.target = open]
    /\ Destroy(FALSE, Range(Chain(zh.log)))
    /\ UNCHANGED <<pipe, th, itxg, zh, zhd, fs, budget>>

Mounted ==
    /\ boot.at = "destroywait" /\ synced >= boot.target
    /\ boot' = [at |-> "run", target |-> 0, k |-> 1]
    /\ UNCHANGED <<pipe, spa, th, zl, itxg, zh, disk, fs, budget>>

-----------------------------------------------------------------------------
WriterNext(t) ==
    \/ Collect(t) \/ Start(t) \/ Create(t) \/ LwbCommit(t) \/ LastBlock(t)
    \/ IoWait(t) \/ TxgWait(t) \/ Finish(t)
ThreadNext(t) ==
    \/ Begin(t) \/ ItxAssign(t) \/ AsyncToSync(t) \/ Commit(t) \/ Batch(t)
    \/ Woken(t) \/ WriterNext(t) \/ Suspend(t) \/ SuspendDestroy(t)
    \/ Suspended(t) \/ Resume(t) \/ Close(t) \/ CloseWait(t) \/ Closed(t)
SyncNext == SyncStart \/ Uberblock \/ ZilClean \/ SyncDone
BootNext == Claim \/ Mount \/ Replay \/ ReplayDone \/ Mounted

Next ==
    \/ \E t \in Threads : ThreadNext(t)
    \/ WriteDone \/ TxgClose \/ SyncNext \/ Crash \/ BootNext

Spec == Init /\ [][Next]_vars

\* Threads run, log writes complete, and the txg threads keep working.
FairSpec ==
    /\ Spec /\ WF_vars(WriteDone) /\ WF_vars(TxgClose) /\ WF_vars(SyncNext)
    /\ WF_vars(BootNext) /\ \A t \in Threads : WF_vars(ThreadNext(t))

-----------------------------------------------------------------------------

\* What a crash now would leave: the calls in the pool on disk, and the
\* records that zil_claim and zil_replay would find and not skip.
OnDisk == {op \in Ops : applied[op] \in 1 .. DiskTxg}
ToReplay ==
    LET claim == IF zhd.claim_txg # 0 THEN zhd.claim_txg ELSE DiskTxg + 1
    IN SelectSeq(Records(zhd.log), LAMBDA r : r.seq > zhd.replay_seq /\ r.txg >= claim)
Survives(op) == op \in OnDisk \/ \E r \in Range(ToReplay) : r.op = op

\* "Commit zfs transactions to stable storage": when zil_commit has
\* returned, to the writer or to a thread of its batch, every call it covers
\* survives a crash, at whatever moment, during recovery from an earlier
\* crash too.
CommitDurable == \A op \in acked : Survives(op)

\* Recovery does nothing twice: a record that would be replayed is of a call
\* whose effect is not on disk, and there is one record of it
\* (zil_replay_log_record and zil_sync's zh_replay_seq).
ReplayOnce ==
    \A n \in DOMAIN ToReplay :
        /\ ToReplay[n].op \notin OnDisk
        /\ \A m \in 1 .. (n - 1) : ToReplay[m].op # ToReplay[n].op

\* Log space is neither leaked nor used twice: a log block that the space
\* maps on disk have allocated is one that recovery would find (the comment
\* in zil_lwb_write_start), recovery finds no block that was freed, and
\* those it has claimed are allocated, for nobody else to write over them.
LogSpaceFound ==
    LET found == Range(Chain(zhd.log)) IN
    \A b \in Blks :
        /\ blk[b].alloc \in 1 .. DiskTxg /\ blk[b].freed \notin 1 .. DiskTxg
             => b \in found
        /\ b \in found => blk[b].freed \notin 1 .. DiskTxg
        /\ b \in found /\ zhd.claim_txg # 0 => blk[b].alloc \in 1 .. DiskTxg

\* VERIFY(!zilog_is_dirty(zilog)) in zil_close: "After a txg_wait_synced() on
\* the txg we know all the callbacks have occurred that may clean the zil."
\* Not so while the txg of a zil_destroy is still to sync: its lwbs are gone
\* from the list, and with them the txg zil_close should have waited for.
CloseClean ==
    \A t \in Threads :
        At(t, "closewait") /\ synced >= th[t].target /\ zl.destroy_txg <= synced
            => \A s \in Slots : itxg[s].txg = 0

\* Every call returns: no committer is left asleep by the batches, and no
\* wait for a txg is forever.
CallsReturn == \A t \in Threads : <>(th[t].i > Len(Script[t]))

=============================================================================
