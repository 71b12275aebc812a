----------------------------- MODULE RangeLock -----------------------------
(***************************************************************************)
(* The range locks of module/zfs/zfs_rlock.c, with the file operations     *)
(* that rely on them: zfs_read, zfs_write, zfs_get_data, zfs_extend,       *)
(* zfs_trunc and zfs_free_range.                                           *)
(*                                                                         *)
(* A file is its size, its block size and the set of sectors that hold     *)
(* data; offsets and sizes count sectors.  The tree is a function from the *)
(* offset of a node to the rest of it.  A volume (zr_size NULL) behaves as *)
(* a file whose block size is z_max_blksz and that is not appended to.     *)
(*                                                                         *)
(* zr_mutex is held from the call, or from the wake-up, to the next wait   *)
(* or to the return: one step.                                             *)
(***************************************************************************)
EXTENDS Integers, FiniteSets, FiniteSetsExt

CONSTANTS Threads,
          Proxy,         \* the owner of a proxy lock
          Ops,           \* the calls, a set of [do, off, len]
          Files,         \* what the file is at first, a set of [size, blksz]
          z_max_blksz,
          SPA_MAXBLOCKSIZE,
          MAXOFFSET,     \* the limit of zfs_write
          MaxCalls       \* bound: calls of all threads together

VARIABLES tree,          \* offset -> [len, cnt, type, owner, wanted]
          thr,           \* each thread's call and its rl_t
          size, blksz,   \* z_size, z_blksz
          data,          \* the sectors that have been written
          calls

file == <<size, blksz, data>>
vars == <<tree, thr, file, calls>>

UINT64_MAX == MAXOFFSET + z_max_blksz + 1
ISP2(n) == \E k \in 0 .. n : n = 2^k
\* 1 << highbit64(n), of a block size that is no power of two
NextP2(n) == Min({p \in n .. SPA_MAXBLOCKSIZE : ISP2(p)})
Sectors(off, len) == off .. (off + len - 1)
Meet(o1, l1, o2, l2) == o1 < o2 + l2 /\ o2 < o1 + l1

ASSUME ThreadsAssumption == IsFiniteSet(Threads) /\ Proxy \notin Threads
\* recordsize is a power of two; a file of another block size has one block.
ASSUME BlocksAssumption ==
    /\ MAXOFFSET \in Nat /\ z_max_blksz \in 1 .. SPA_MAXBLOCKSIZE /\ SPA_MAXBLOCKSIZE \in Nat
    /\ ISP2(z_max_blksz) /\ ISP2(SPA_MAXBLOCKSIZE)
    /\ \A f \in Files : /\ f.size \in 0 .. MAXOFFSET /\ f.blksz \in 1 .. SPA_MAXBLOCKSIZE
                        /\ f.size > f.blksz => ISP2(f.blksz)
ASSUME OpsAssumption ==
    Ops \subseteq [do : {"read", "get", "write", "append", "free", "extend", "trunc"},
                  off : 0 .. MAXOFFSET, len : 1 .. (UINT64_MAX - 1)]

Idle == [pc |-> "idle", op |-> [do |-> "none", off |-> 0, len |-> 0],
         off |-> 0, len |-> 0, woff |-> 0, n |-> 0, on |-> 0]

Init ==
    /\ tree = <<>>
    /\ thr = [t \in Threads |-> Idle]
    /\ \E f \in Files : size = f.size /\ blksz = f.blksz /\ data = 0 .. (f.size - 1)
    /\ calls = 0

At(t, pc) == thr[t].pc = pc
Does(t, ops) == thr[t].op.do \in ops
Reads(t) == Does(t, {"read", "get"})
Set(t, r) == thr' = [thr EXCEPT ![t] = r]
Goto(t, pc) == Set(t, [thr[t] EXCEPT !.pc = pc])

-----------------------------------------------------------------------------
(* The tree                                                                *)

Overlaps(off, len) == {o \in DOMAIN tree : Meet(off, len, o, tree[o].len)}

\* zfs_range_lock, when the rl_t goes into the tree itself
Own(t, off, len, type) ==
    [o \in DOMAIN tree \cup {off} |->
        IF o = off THEN [len |-> len, cnt |-> 1, type |-> type, owner |-> t, wanted |-> {}]
        ELSE tree[o]]

\* Mutant: the part before the new lock is counted as well.
AddReaderFrontCounted(t, off, len) ==
    LET O    == Overlaps(off, len)
        cuts == {off, off + len} \cup O \cup {o + tree[o].len : o \in O}
        cnt(a) == (IF a < off + len THEN 1 ELSE 0)
                  + SumSet({tree[o].cnt : o \in {b \in O : a \in Sectors(b, tree[b].len)}})
    IN IF O = {} THEN Own(t, off, len, "reader")
       ELSE [a \in (DOMAIN tree \ O) \cup (cuts \ {Max(cuts)}) |->
                IF a \in cuts \ {Max(cuts)}
                THEN [len |-> Min({c \in cuts : c > a}) - a, cnt |-> cnt(a), type |-> "reader",
                      owner |-> Proxy, wanted |-> {}]
                ELSE tree[a]]

\* zfs_range_add_reader: without overlap the lock itself; otherwise the locks
\* it meets are split at its ends and become proxies, as do the gaps between
\* them, and those inside its range count one more.
AddReader(t, off, len) ==
    LET O    == Overlaps(off, len)
        cuts == {off, off + len} \cup O \cup {o + tree[o].len : o \in O}
        cnt(a) == (IF a \in Sectors(off, len) THEN 1 ELSE 0)
                  + SumSet({tree[o].cnt : o \in {b \in O : a \in Sectors(b, tree[b].len)}})
    IN IF O = {} THEN Own(t, off, len, "reader")
       ELSE [a \in (DOMAIN tree \ O) \cup (cuts \ {Max(cuts)}) |->
                IF a \in cuts \ {Max(cuts)}
                THEN [len |-> Min({c \in cuts : c > a}) - a, cnt |-> cnt(a), type |-> "reader",
                      owner |-> Proxy, wanted |-> {}]
                ELSE tree[a]]

\* zfs_range_lock_reader waits for the first lock in the range that a writer
\* has or wants.
ReaderWaitsFor(off, len) ==
    {o \in Overlaps(off, len) : tree[o].type = "writer" \/ "w" \in tree[o].wanted}

\* Mutant: a lock that begins before the range is overlooked.
WriterWaitsForAfter(off, len) ==
    {o \in Overlaps(off, len) : o >= off}

\* zfs_range_lock_writer looks at the locks that begin in the range first.
WriterWaitsFor(off, len) ==
    LET O == Overlaps(off, len) IN
    IF \E o \in O : o >= off THEN {o \in O : o >= off} ELSE O

Wait(t, off, len, o, flag) ==
    /\ Set(t, [thr[t] EXCEPT !.pc = "asleep", !.off = off, !.len = len, !.on = o])
    /\ tree' = [tree EXCEPT ![o].wanted = @ \cup {flag}]

\* Mutant: only the writers are woken.
WokenWriters(nodes) ==
    {t \in Threads : At(t, "asleep") /\ thr[t].on \in nodes /\ ~Reads(t)}

\* cv_broadcast on r_wr_cv and r_rd_cv of the nodes, where they are wanted
Woken(nodes) ==
    {t \in Threads : /\ At(t, "asleep") /\ thr[t].on \in nodes
                     /\ (IF Reads(t) THEN "r" ELSE "w") \in tree[thr[t].on].wanted}

\* t moves to pc and those asleep on the nodes are woken
WakeAnd(t, mine, nodes) ==
    thr' = [u \in Threads |-> IF u = t THEN mine
                              ELSE IF u \in Woken(nodes) THEN [thr[u] EXCEPT !.pc = "lock"]
                              ELSE thr[u]]

\* zfs_range_unlock: the lock itself, or the proxies of its range that nobody
\* else has (zfs_range_unlock_reader)
Freed(t) ==
    IF \E o \in DOMAIN tree : tree[o].owner = t
    THEN {o \in DOMAIN tree : tree[o].owner = t}
    ELSE {o \in DOMAIN tree \cap Sectors(thr[t].off, thr[t].len) : tree[o].cnt = 1}

Unlocked(t) ==
    [o \in DOMAIN tree \ Freed(t) |->
        IF o \in Sectors(thr[t].off, thr[t].len) /\ tree[o].owner = Proxy
        THEN [tree[o] EXCEPT !.cnt = @ - 1] ELSE tree[o]]

-----------------------------------------------------------------------------
(* zfs_range_lock                                                          *)

RangeLockReader(t) ==
    LET off == thr[t].off
        len == thr[t].len
        B   == ReaderWaitsFor(off, len)
    IN
    /\ At(t, "lock") /\ Reads(t)
    /\ IF B # {} THEN Wait(t, off, len, Min(B), "r")
       ELSE tree' = AddReader(t, off, len) /\ Goto(t, "held")
    /\ UNCHANGED <<file, calls>>

\* What is asked for: zfs_extend and zfs_trunc lock the whole file.
Asked(op) ==
    IF op.do \in {"extend", "trunc"} THEN [off |-> 0, len |-> UINT64_MAX]
    ELSE [off |-> op.off, len |-> op.len]

\* Mutant: the part before the write is not locked.
WriteRangeFromOff(t) ==
    LET ask == Asked(thr[t].op)
        off == IF Does(t, {"append"}) THEN size ELSE ask.off
        end == Max({size, off + ask.len})
    IN IF end > blksz /\ (~ISP2(blksz) \/ blksz < z_max_blksz)
       THEN [off |-> off, len |-> UINT64_MAX] ELSE [off |-> off, len |-> ask.len]
\* An append starts at the end of the file as it is now; the whole file is
\* locked if the block size has to grow.
WriteRange(t) ==
    LET ask == Asked(thr[t].op)
        off == IF Does(t, {"append"}) THEN size ELSE ask.off
        end == Max({size, off + ask.len})
    IN IF end > blksz /\ (~ISP2(blksz) \/ blksz < z_max_blksz)
       THEN [off |-> 0, len |-> UINT64_MAX] ELSE [off |-> off, len |-> ask.len]

RangeLockWriter(t) ==
    LET r == WriteRange(t)
        B == WriterWaitsFor(r.off, r.len)
    IN
    /\ At(t, "lock") /\ ~Reads(t)
    /\ IF B # {} THEN Wait(t, r.off, r.len, Min(B), "w")
       ELSE /\ tree' = Own(t, r.off, r.len, "writer")
            /\ Set(t, [thr[t] EXCEPT !.pc = "held", !.off = r.off, !.len = r.len])
    /\ UNCHANGED <<file, calls>>

RangeUnlock(t) ==
    /\ At(t, "unlock")
    /\ tree' = Unlocked(t)
    /\ WakeAnd(t, Idle, Freed(t))
    /\ UNCHANGED <<file, calls>>

-----------------------------------------------------------------------------
(* The callers                                                             *)

\* zfs_get_data locks the whole block of a record.
BlockOff(off) == IF ISP2(blksz) THEN off - (off % blksz) ELSE 0

\* A call begins: what it hands to zfs_range_lock.
Begin(t) ==
    /\ At(t, "idle") /\ calls < MaxCalls
    /\ calls' = calls + 1
    /\ \E op \in Ops :
          Set(t, [Idle EXCEPT !.pc = IF op.do = "get" THEN "again" ELSE "lock", !.op = op,
                    !.off = Asked(op).off, !.len = Asked(op).len])
    /\ UNCHANGED <<tree, file>>

\* zfs_get_data reads z_blksz without the lock ...
GetBlock(t) ==
    /\ At(t, "again")
    /\ Set(t, [thr[t] EXCEPT !.pc = "lock", !.off = BlockOff(thr[t].op.off), !.len = blksz])
    /\ UNCHANGED <<tree, file, calls>>

\* Mutant: it is not checked again.
BlockUnchecked(t) == TRUE
\* ... and has to look at it again, and for a truncation
BlockAsLocked(t) == blksz = thr[t].len

GetData(t) ==
    /\ At(t, "held") /\ Does(t, {"get"})
    /\ IF BlockAsLocked(t)
       THEN Goto(t, IF thr[t].op.off >= size THEN "unlock" ELSE "sync") /\ UNCHANGED tree
       ELSE tree' = Unlocked(t) /\ WakeAnd(t, [thr[t] EXCEPT !.pc = "again"], Freed(t))
    /\ UNCHANGED <<file, calls>>

\* The read, or the write of the block that dmu_sync began, is done.
ReadDone(t) ==
    /\ \/ At(t, "held") /\ Does(t, {"read"})
       \/ At(t, "sync")
    /\ Goto(t, "unlock")
    /\ UNCHANGED <<tree, file, calls>>

\* Mutant: an append that locked the whole file starts where the lock does.
AppendOffLocked(t) == thr[t].off
AppendOff(t) == IF thr[t].len = UINT64_MAX THEN size ELSE thr[t].off

\* zfs_write has its lock: beyond the limit it is EFBIG
WriteBegin(t) ==
    LET woff == IF Does(t, {"write"}) THEN thr[t].op.off ELSE AppendOff(t)
        n    == Min({thr[t].op.len, MAXOFFSET - woff})
    IN
    /\ At(t, "held") /\ Does(t, {"write", "append"})
    /\ IF woff >= MAXOFFSET THEN Goto(t, "unlock")
       ELSE Set(t, [thr[t] EXCEPT !.pc = "chunk", !.woff = woff, !.n = n])
    /\ UNCHANGED <<tree, file, calls>>

\* No quota, no space, or nothing could be copied
WriteFail(t) ==
    /\ At(t, "chunk")
    /\ Goto(t, "unlock")
    /\ UNCHANGED <<tree, file, calls>>

\* zfs_grow_blocksize, and what it is asked for.  A file that has had a second
\* block (its block size is a power of two) may keep its block size: ENOTSUP.
Grown(new) ==
    IF new <= blksz \/ size > blksz THEN {blksz} ELSE {new} \cup {b \in {blksz} : ISP2(b)}
NewBlksz(end) == Min({end, IF blksz > z_max_blksz THEN NextP2(blksz) ELSE z_max_blksz})

\* The lock covers the whole file: grow the block size ...
WriteGrow(t) ==
    /\ At(t, "chunk") /\ thr[t].len = UINT64_MAX
    /\ blksz' \in Grown(NewBlksz(Max({size, thr[t].woff + thr[t].n})))
    /\ Goto(t, "reduce")
    /\ UNCHANGED <<tree, size, data, calls>>

\* ... and zfs_range_reduce
RangeReduce(t) ==
    LET r == thr[t] IN
    /\ At(t, "reduce")
    /\ tree' = [o \in {r.woff} |-> [tree[0] EXCEPT !.len = r.n]]
    /\ WakeAnd(t, [r EXCEPT !.pc = "chunk", !.off = r.woff, !.len = r.n], {0})
    /\ UNCHANGED <<file, calls>>

\* One chunk: the data, in a transaction, and then z_size.
Chunk(t) == Min({thr[t].n, z_max_blksz - (thr[t].woff % z_max_blksz)})

\* A copy that stops early is the last one.
WriteChunk(t) ==
    /\ At(t, "chunk") /\ thr[t].len # UINT64_MAX
    /\ \E copied \in 1 .. Chunk(t) :
          /\ data' = data \cup Sectors(thr[t].woff, copied)
          /\ Set(t, [thr[t] EXCEPT !.pc = "size", !.n = IF copied < Chunk(t) THEN copied ELSE @])
    /\ UNCHANGED <<tree, size, blksz, calls>>

WriteSize(t) ==
    LET left == thr[t].n - Chunk(t) IN
    /\ At(t, "size")
    /\ size' = Max({size, thr[t].woff + Chunk(t)})
    /\ Set(t, [thr[t] EXCEPT !.pc = IF left = 0 THEN "unlock" ELSE "chunk",
                 !.woff = @ + Chunk(t), !.n = left])
    /\ UNCHANGED <<tree, blksz, data, calls>>

\* zfs_extend to op.off; the transaction may fail
Extend(t) ==
    LET end  == thr[t].op.off
        grow == end > blksz /\ (~ISP2(blksz) \/ blksz < z_max_blksz)
    IN
    /\ At(t, "held") /\ Does(t, {"extend"})
    /\ \/ UNCHANGED file
       \/ /\ end > size
          /\ size' = end
          /\ blksz' \in IF grow THEN Grown(NewBlksz(end)) ELSE {blksz}
          /\ UNCHANGED data
    /\ Goto(t, "unlock")
    /\ UNCHANGED <<tree, calls>>

\* zfs_trunc to op.off; dmu_free_long_range or the transaction may fail
Trunc(t) ==
    LET end == thr[t].op.off IN
    /\ At(t, "held") /\ Does(t, {"trunc"})
    /\ \/ UNCHANGED <<size, data>>
       \/ /\ end < size
          /\ data' = {s \in data : s < end}
          /\ size' \in {size, end}
    /\ Goto(t, "unlock")
    /\ UNCHANGED <<tree, blksz, calls>>

FreeRange(t) ==
    /\ At(t, "held") /\ Does(t, {"free"})
    /\ data' = IF thr[t].op.off >= size THEN data
               ELSE data \ Sectors(thr[t].op.off, thr[t].op.len)
    /\ Goto(t, "unlock")
    /\ UNCHANGED <<tree, size, blksz, calls>>

-----------------------------------------------------------------------------
Step(t) ==
    \/ RangeLockReader(t) \/ RangeLockWriter(t) \/ RangeUnlock(t)
    \/ GetBlock(t) \/ GetData(t) \/ ReadDone(t)
    \/ WriteBegin(t) \/ WriteFail(t) \/ WriteGrow(t) \/ RangeReduce(t)
    \/ WriteChunk(t) \/ WriteSize(t) \/ Extend(t) \/ Trunc(t) \/ FreeRange(t)

Next == \E t \in Threads : Begin(t) \/ Step(t)

Spec == Init /\ [][Next]_vars

-----------------------------------------------------------------------------
Holding == {t \in Threads : thr[t].pc \notin {"idle", "again", "lock", "asleep"}}
HeldAt(s) == {t \in Holding : s \in Sectors(thr[t].off, thr[t].len)}

\* "locked for exclusive (writer) or shared (reader) use": two locks that
\* meet are both readers'.
WriterExcludes ==
    \A t, u \in Holding :
        t # u /\ Meet(thr[t].off, thr[t].len, thr[u].off, thr[u].len) => Reads(t) /\ Reads(u)

\* However reader locks were split, proxied and released, the tree has at each
\* sector one node that counts its holders, and none where there are none
\* (zfs_range_add_reader, zfs_range_unlock_reader).
TreeExact ==
    \A s \in 0 .. (UINT64_MAX - 1) :
        LET nodes == {o \in DOMAIN tree : s \in Sectors(o, tree[o].len)} IN
        /\ Cardinality(nodes) <= 1
        /\ Cardinality(HeldAt(s)) = SumSet({tree[o].cnt : o \in nodes})

\* A thread sleeps on a lock that is still in the tree, that still stands in
\* its way, and whose release will wake it.  With TreeExact it follows that not
\* all the threads inside a call sleep: a node has a holder, who does not.
SleepersBlocked ==
    \A t \in Threads : At(t, "asleep") =>
        LET o == thr[t].on IN
        /\ o \in DOMAIN tree
        /\ Meet(thr[t].off, thr[t].len, o, tree[o].len)
        /\ IF Reads(t) THEN "r" \in tree[o].wanted
                            /\ (tree[o].type = "writer" \/ "w" \in tree[o].wanted)
           ELSE "w" \in tree[o].wanted

\* "During this growth all other writers and readers must be excluded":
\* zfs_range_reduce finds nobody else in the tree.
ReduceAlone ==
    \A t \in Threads : At(t, "reduce") => DOMAIN tree = {0} /\ Holding = {t}

\* "We need to re-check blocksize after we get the lock in case it's changed":
\* the block of an indirect write keeps its size until it is written.
BlockStable ==
    \A t \in Threads : At(t, "sync") =>
        blksz = thr[t].len /\ thr[t].op.off \in Sectors(thr[t].off, blksz)

\* "to guarantee file append semantics": an append never writes over data.
AppendsKeepData ==
    \A t \in Threads : At(t, "chunk") /\ Does(t, {"append"}) =>
        Sectors(thr[t].woff, thr[t].n) \cap data = {}
=============================================================================
