-------------------------- MODULE RangeLockProofs --------------------------
(***************************************************************************)
(* Proofs about the range locks and the file operations that rely on them, *)
(* for any threads, calls, files and block sizes: the steps that write     *)
(* data, take, wait for, reduce and release locks, and the theorems.       *)
(***************************************************************************)
EXTENDS RangeTreeProofs

-----------------------------------------------------------------------------
(* The chunks of a write                                                   *)

(* What one round of zfs_write copies.                                     *)
LEMMA ChunkIs ==
    ASSUME NEW w \in Nat, NEW n \in Nat \ {0}
    PROVE  /\ Min({n, z_max_blksz - (w % z_max_blksz)}) \in 1 .. n
           /\ Min({n, z_max_blksz - (w % z_max_blksz)}) <= z_max_blksz - (w % z_max_blksz)
           /\ z_max_blksz - (w % z_max_blksz) \in Nat
<1>1. w % z_max_blksz \in 0 .. (z_max_blksz - 1)
  BY SMT, Consts
<1>2. PICK r : r = z_max_blksz - (w % z_max_blksz)
  BY Zenon
<1>3. r \in Nat /\ r >= 1
  BY SMT, <1>1, <1>2, Consts
<1>4. PICK c : c = Min({n, r})
  BY Zenon
<1>5. c = IF n <= r THEN n ELSE r
  BY Zenon, <1>3, <1>4, MinTwo
<1>6. c \in 1 .. n /\ c <= r
  BY SMT, <1>3, <1>5
<1> QED
  BY Zenon, <1>2, <1>3, <1>4, <1>6

(* Data E outside the lock of an append is not where it writes.            *)
LEMMA MoreData ==
    ASSUME NEW x \in ThrType, NEW b, PlaceOk(x, b), x.len # UINT64_MAX, NEW D, NEW E,
           E \cap Sectors(x.off, x.len) = {}, AppendOk(x, D)
    PROVE  AppendOk(x, D \cup E)
<1>1. x.off \in Nat /\ x.len \in Nat /\ x.woff \in Nat /\ x.n \in Nat
  BY SMT DEF ThrType
<1>2. ASSUME x.pc \in Writing
      PROVE  /\ Sectors(x.woff, x.n) \subseteq Sectors(x.off, x.len)
             /\ Sectors(x.woff + ChunkOf(x), x.n - ChunkOf(x)) \subseteq Sectors(x.off, x.len)
  <2>1. x.off <= x.woff /\ x.woff + x.n <= x.off + x.len /\ x.n \in 1 .. x.op.len
    BY Zenon, <1>2 DEF PlaceOk
  <2>2. x.n \in Nat \ {0}
    BY SMT, <1>1, <2>1
  <2>3. ChunkOf(x) \in 1 .. x.n
    BY Zenon, <1>1, <2>2, ChunkIs DEF ChunkOf
  <2> QED
    BY SMT, <1>1, <2>1, <2>2, <2>3 DEF Sectors
<1> QED
  BY Zenon, <1>2 DEF AppendOk, Writing

LEMMA WriteChunkStep ==
    ASSUME Inv, NEW t \in Threads, WriteChunk(t)
    PROVE  Inv'
<1>1. PICK x \in ThrType : x = thr[t]
  BY Zenon DEF Inv, TypeInv
<1>2. x.pc = "chunk" /\ x.len # UINT64_MAX /\ tree' = tree /\ size' = size /\ blksz' = blksz
      /\ PlaceOk(x, blksz) /\ AppendOk(x, data)
  BY Zenon, <1>1 DEF WriteChunk, At, Inv, FileInv
<1>3. PICK c : c = ChunkOf(x)
  BY Zenon
<1>4. c = Chunk(t)
  BY Zenon, <1>1, <1>3 DEF ChunkOf, Chunk
<1>5. PICK k \in 1 .. c :
         /\ data' = data \cup Sectors(x.woff, k)
         /\ Set(t, [x EXCEPT !.pc = "size", !.n = IF k < c THEN k ELSE x.n])
  BY Zenon, <1>1, <1>4 DEF WriteChunk
<1>6. x.off \in Nat /\ x.len \in Nat /\ x.woff \in Nat /\ x.n \in Nat /\ x.op.len \in Nat
      /\ size \in 0 .. MAXOFFSET /\ blksz \in 1 .. SPA_MAXBLOCKSIZE
  BY Zenon, <1>1, ThrIs DEF Inv, TypeInv
<1>7. /\ x.n \in 1 .. x.op.len /\ x.off <= x.woff /\ x.woff + x.n <= x.off + x.len
      /\ x.woff + x.n <= MAXOFFSET /\ Fits(blksz, x.woff + x.n) /\ x.op.do \in {"write", "append"}
  BY Zenon, <1>2 DEF PlaceOk, Writing
<1>8. x.n \in Nat \ {0}
  BY SMT, <1>6, <1>7
<1>9. c \in 1 .. x.n /\ c <= z_max_blksz - (x.woff % z_max_blksz) /\ z_max_blksz - (x.woff % z_max_blksz) \in Nat
  BY Zenon, <1>3, <1>6, <1>8, ChunkIs DEF ChunkOf
<1>10. PICK n : n = IF k < c THEN k ELSE x.n
  BY Zenon
<1>11. /\ n \in Nat /\ n \in 1 .. x.op.len /\ x.woff + n <= x.off + x.len /\ x.woff + n <= MAXOFFSET
       /\ Fits(blksz, x.woff + n) /\ k \in 1 .. n /\ k \in 1 .. x.n /\ k <= z_max_blksz - (x.woff % z_max_blksz)
       /\ (n = k \/ (n = x.n /\ k = c))
  BY SMT, <1>6, <1>7, <1>9, <1>10, Consts DEF Fits
<1>12. PICK y : y = [x EXCEPT !.pc = "size", !.n = n]
  BY Zenon
<1>13. y \in ThrType /\ y.pc = "size" /\ y.op = x.op /\ y.off = x.off /\ y.len = x.len
       /\ y.woff = x.woff /\ y.n = n
  <2>1. "size" \in Pcs
    BY Zenon DEF Pcs, Writing
  <2> QED
    BY Zenon, <1>11, <1>12, <2>1 DEF ThrType
<1>14. Moves(thr, thr', t, y)
  <2>1. Set(t, y)
    BY Zenon, <1>5, <1>10, <1>12
  <2> QED
    BY Zenon, <1>13, <2>1, SetMoves DEF Inv, TypeInv
<1>15. ChunkOf(y) = k
  <2>1. CASE n = k
    <3>1. PICK r : r = z_max_blksz - (x.woff % z_max_blksz)
      BY Zenon
    <3>2. r \in Nat /\ k <= r /\ k \in Nat
      BY Zenon, <1>9, <1>11, <2>1, <3>1
    <3>3. Min({k, r}) = k
      BY Zenon, <3>2, MinTwo
    <3> QED
      BY Zenon, <1>13, <2>1, <3>1, <3>3 DEF ChunkOf
  <2>2. CASE n = x.n /\ k = c
    BY Zenon, <1>3, <1>13, <2>2 DEF ChunkOf
  <2> QED
    BY Zenon, <1>11, <2>1, <2>2
<1>16. PlaceOk(y, blksz)
  BY Zenon, <1>2, <1>7, <1>11, <1>13 DEF PlaceOk, Free, Writing, ReaderOp
<1>17. x.pc \notin Free /\ y.pc \notin Free /\ y.pc # "asleep" /\ ~ReaderOp(x.op) /\ t \in Holders(thr)
  BY Zenon, <1>1, <1>2, <1>7, <1>13 DEF Free, ReaderOp, Holders
<1>18. AppendOk(y, data')
  <2>1. ASSUME x.op.do = "append", NEW s \in data', s \in Sectors(y.woff + k, y.n - k) PROVE FALSE
    <3>1. s \in Sectors(x.woff, x.n) /\ s \notin Sectors(x.woff, k)
      BY SMT, <1>6, <1>11, <1>13, <2>1 DEF Sectors
    <3>2. Sectors(x.woff, x.n) \cap data = {}
      BY Zenon, <1>2, <2>1 DEF AppendOk
    <3> QED
      BY ZenonT(40), <1>5, <2>1, <3>1, <3>2
  <2> QED
    BY Zenon, <1>13, <1>15, <2>1 DEF AppendOk
<1>19. ASSUME NEW u \in Threads, u # t PROVE PlaceOk(thr'[u], blksz) /\ AppendOk(thr'[u], data')
  <2>1. thr[u] \in ThrType /\ PlaceOk(thr[u], blksz) /\ AppendOk(thr[u], data)
    BY Zenon DEF Inv, TypeInv, FileInv
  <2>2. thr'[u] = thr[u]
    BY Zenon, <1>5, <1>19 DEF Set, Inv, TypeInv
  <2>3. CASE thr[u].pc \in Free
    BY Zenon, <2>1, <2>2, <2>3, PlaceFree
  <2>4. CASE thr[u].pc \notin Free /\ thr[u].op.do # "append"
    BY Zenon, <2>1, <2>2, <2>4 DEF AppendOk
  <2>5. CASE thr[u].pc \notin Free /\ thr[u].op.do = "append"
    <3>1. ~ReaderOp(thr[u].op) /\ u \in Holders(thr)
      BY Zenon, <2>5 DEF ReaderOp, Holders
    <3>2. thr[u].len # UINT64_MAX
      BY Zenon, <1>17, <1>19, <2>5, <3>1, WholeLock
    <3>3. ~(thr[t].off < LEnd(thr, u) /\ thr[u].off < LEnd(thr, t))
      BY Zenon, <1>1, <1>17, <1>19, <3>1, Excludes DEF Inv, TypeInv
    <3>4. thr[u].off \in Nat /\ thr[u].len \in Nat
      BY Zenon, ThrIs DEF Inv, TypeInv
    <3>5. Sectors(x.woff, k) \cap Sectors(thr[u].off, thr[u].len) = {}
      BY SMT, <1>1, <1>6, <1>7, <1>11, <3>3, <3>4 DEF Sectors, LEnd
    <3> QED
      BY Zenon, <1>5, <2>1, <2>2, <3>2, <3>5, MoreData
  <2> QED
    BY Zenon, <2>3, <2>4, <2>5
<1>20. ASSUME NEW s \in data' PROVE InSize(thr', size, s)
  <2>1. CASE s \in Sectors(x.woff, k)
    <3>1. thr'[t] = y
      BY Zenon, <1>14 DEF Moves
    <3> QED
      BY Zenon, <1>13, <1>15, <2>1, <3>1 DEF InSize
  <2>2. CASE s \in data
    <3>1. InSize(thr, size, s)
      BY Zenon, <2>2 DEF Inv, FileInv
    <3>2. ASSUME NEW u \in Threads, thr[u].pc = "size" PROVE thr'[u] = thr[u]
      BY Zenon, <1>1, <1>2, <1>5, <3>2 DEF Set, Inv, TypeInv
    <3> QED
      BY Zenon, <3>1, <3>2 DEF InSize
  <2> QED
    BY Zenon, <1>5, <2>1, <2>2
<1>21. FileInv(thr', size, blksz, data')
  <2>1. thr'[t] = y /\ Fits(blksz, size)
    BY Zenon, <1>14 DEF Moves, Inv, FileInv
  <2> QED
    BY Zenon, <1>16, <1>18, <1>19, <1>20, <2>1 DEF FileInv
<1>22. TypeInv'
  <2>1. Sectors(x.woff, k) \subseteq Nat
    BY SMT, <1>6, <1>11 DEF Sectors
  <2> QED
    BY Zenon, <1>2, <1>5, <1>14, <2>1 DEF Inv, TypeInv, Moves
<1>23. LockInv(tree, thr') /\ SleepInv(tree, thr')
  BY Zenon, <1>1, <1>13, <1>14, <1>17, QuietLock DEF Inv
<1> QED
  BY Zenon, <1>2, <1>21, <1>22, <1>23 DEF Inv

LEMMA WriteSizeStep ==
    ASSUME Inv, NEW t \in Threads, WriteSize(t)
    PROVE  Inv'
<1>1. PICK x \in ThrType : x = thr[t]
  BY Zenon DEF Inv, TypeInv
<1>2. PICK c : c = ChunkOf(x)
  BY Zenon
<1>3. c = Chunk(t)
  BY Zenon, <1>1, <1>2 DEF ChunkOf, Chunk
<1>4. x.pc = "size" /\ tree' = tree /\ blksz' = blksz /\ data' = data
      /\ PlaceOk(x, blksz) /\ AppendOk(x, data) /\ Fits(blksz, size) /\ size' = Max({size, x.woff + c})
  BY Zenon, <1>1, <1>3 DEF WriteSize, At, Inv, FileInv
<1>5. x.off \in Nat /\ x.len \in Nat /\ x.woff \in Nat /\ x.n \in Nat /\ x.op.len \in Nat
      /\ size \in 0 .. MAXOFFSET /\ blksz \in 1 .. SPA_MAXBLOCKSIZE /\ data \subseteq Nat
  BY Zenon, <1>1, ThrIs DEF Inv, TypeInv
<1>6. /\ x.n \in 1 .. x.op.len /\ x.off <= x.woff /\ x.woff + x.n <= x.off + x.len /\ x.len # UINT64_MAX
      /\ x.woff + x.n <= MAXOFFSET /\ Fits(blksz, x.woff + x.n) /\ x.op.do \in {"write", "append"}
  BY Zenon, <1>4 DEF PlaceOk, Writing
<1>7. x.n \in Nat \ {0}
  BY SMT, <1>5, <1>6
<1>8. c \in 1 .. x.n
  BY Zenon, <1>2, <1>5, <1>7, ChunkIs DEF ChunkOf
<1>9. c \in Nat /\ x.woff + c \in Nat /\ size \in Nat /\ x.n - c \in Nat
  BY SMT, <1>5, <1>8, Consts
<1>10. size' = IF size >= x.woff + c THEN size ELSE x.woff + c
  BY Zenon, <1>4, <1>9, MaxTwo
<1>11. size' \in 0 .. MAXOFFSET /\ size <= size' /\ x.woff + c <= size' /\ Fits(blksz, size')
  <2>1. size' \in 0 .. MAXOFFSET /\ size <= size' /\ x.woff + c <= size'
    BY SMT, <1>5, <1>6, <1>8, <1>9, <1>10, Consts
  <2>2. CASE ISP2(blksz)
    BY Zenon, <2>1, <2>2 DEF Fits
  <2>3. CASE ~ISP2(blksz)
    <3>1. size <= blksz /\ x.woff + x.n <= blksz
      BY Zenon, <1>4, <1>6, <2>3 DEF Fits
    <3>2. size' <= blksz
      BY SMT, <1>5, <1>8, <1>9, <1>10, <3>1, Consts
    <3> QED
      BY Zenon, <2>1, <3>2 DEF Fits
  <2> QED
    BY Zenon, <2>2, <2>3
<1>12. PICK n : n = x.n - c
  BY Zenon
<1>13. PICK w : w = x.woff + c
  BY Zenon
<1>14. PICK p : p = IF n = 0 THEN "unlock" ELSE "chunk"
  BY Zenon
<1>15. PICK y : y = [x EXCEPT !.pc = p, !.woff = w, !.n = n]
  BY Zenon
<1>16. y \in ThrType /\ y.pc = p /\ y.op = x.op /\ y.off = x.off /\ y.len = x.len /\ y.woff = w /\ y.n = n
  <2>1. p \in Pcs
    BY Zenon, <1>14 DEF Pcs, Writing
  <2> QED
    BY Zenon, <1>9, <1>12, <1>13, <1>15, <2>1 DEF ThrType
<1>17. Moves(thr, thr', t, y) /\ \A u \in Threads : u # t => thr'[u] = thr[u]
  <2>1. Set(t, y)
    BY Zenon, <1>1, <1>3, <1>12, <1>13, <1>14, <1>15 DEF WriteSize
  <2> QED
    BY Zenon, <1>16, <2>1, SetMoves DEF Inv, TypeInv, Set
<1>18. PlaceOk(y, blksz)
  <2>1. CASE p = "unlock"
    BY Zenon, <1>4, <1>16, <2>1 DEF PlaceOk, Free, Writing
  <2>2. CASE p = "chunk"
    <3>1. n # 0
      BY Zenon, <1>14, <2>2
    <3>2. n \in 1 .. x.op.len /\ x.off <= w /\ w + n <= x.off + x.len /\ w + n <= MAXOFFSET /\ w + n = x.woff + x.n
      BY SMT, <1>5, <1>6, <1>8, <1>12, <1>13, <3>1, Consts
    <3>3. Fits(blksz, w + n)
      BY Zenon, <1>6, <3>2
    <3> QED
      BY Zenon, <1>4, <1>6, <1>16, <2>2, <3>2, <3>3 DEF PlaceOk, Free, Writing, ReaderOp
  <2> QED
    BY Zenon, <1>14, <2>1, <2>2
<1>19. AppendOk(y, data)
  <2>1. x.op.do = "append" => Sectors(w, n) \cap data = {}
    BY Zenon, <1>2, <1>4, <1>12, <1>13 DEF AppendOk
  <2> QED
    BY Zenon, <1>14, <1>16, <2>1 DEF AppendOk
<1>20. ASSUME NEW s \in data PROVE InSize(thr', size', s)
  <2>1. InSize(thr, size, s) /\ s \in Nat
    BY Zenon, <1>5 DEF Inv, FileInv
  <2>2. CASE s < size
    <3>1. s < size'
      BY SMT, <1>9, <1>11, <2>1, <2>2, Consts
    <3> QED
      BY Zenon, <3>1 DEF InSize
  <2>3. CASE s \in Sectors(x.woff, c)
    <3>1. s < size'
      BY SMT, <1>5, <1>9, <1>11, <2>1, <2>3, Consts DEF Sectors
    <3> QED
      BY Zenon, <3>1 DEF InSize
  <2>4. ASSUME NEW u \in Threads, u # t, thr[u].pc = "size", s \in Sectors(thr[u].woff, ChunkOf(thr[u]))
        PROVE  InSize(thr', size', s)
    BY Zenon, <1>17, <2>4 DEF InSize
  <2> QED
    BY Zenon, <1>1, <1>2, <2>1, <2>2, <2>3, <2>4 DEF InSize
<1>21. FileInv(thr', size', blksz, data)
  <2>1. ASSUME NEW u \in Threads PROVE PlaceOk(thr'[u], blksz) /\ AppendOk(thr'[u], data)
    <3>1. CASE u = t
      BY Zenon, <1>17, <1>18, <1>19, <3>1 DEF Moves
    <3>2. CASE u # t
      BY Zenon, <1>17, <3>2 DEF Inv, FileInv
    <3> QED
      BY Zenon, <3>1, <3>2
  <2> QED
    BY Zenon, <1>11, <1>20, <2>1 DEF FileInv
<1>22. TypeInv'
  BY Zenon, <1>4, <1>11, <1>17 DEF Inv, TypeInv, Moves
<1>23. LockInv(tree, thr') /\ SleepInv(tree, thr')
  <2>1. x.pc \notin Free /\ y.pc \notin Free /\ y.pc # "asleep"
    BY Zenon, <1>4, <1>14, <1>16 DEF Free
  <2> QED
    BY Zenon, <1>1, <1>16, <1>17, <2>1, QuietLock DEF Inv
<1> QED
  BY Zenon, <1>4, <1>21, <1>22, <1>23 DEF Inv

(* Whoever still sleeps when the nodes N go sleeps on another.             *)
LEMMA StillAsleep ==
    ASSUME Inv, NEW t \in Threads, NEW y, y.pc # "asleep", NEW N, WakeAnd(t, y, N),
           NEW u \in Threads, thr'[u].pc = "asleep"
    PROVE  u # t /\ thr'[u] = thr[u] /\ thr[u].on \in DOMAIN tree /\ thr[u].on \notin N
<1>1. u # t
  BY Zenon DEF WakeAnd
<1>2. ASSUME u \in Woken(N) PROVE FALSE
  <2>1. thr'[u] = [thr[u] EXCEPT !.pc = "lock"] /\ thr[u] \in ThrType
    BY Zenon, <1>1, <1>2 DEF WakeAnd, Inv, TypeInv
  <2>2. "lock" \in Pcs
    BY Zenon DEF Pcs, Free
  <2>3. GoneTo(thr[u], thr'[u], "lock")
    BY Zenon, <2>1, <2>2, GotoIs
  <2> QED
    BY Zenon, <2>3 DEF GoneTo
<1>3. thr'[u] = thr[u]
  BY Zenon, <1>1, <1>2 DEF WakeAnd
<1>4. SleepOk(tree, thr[u]) /\ thr[u].pc = "asleep"
  BY Zenon, <1>3 DEF Inv, SleepInv
<1>5. thr[u].on \in DOMAIN tree /\ (IF Reads(u) THEN "r" ELSE "w") \in tree[thr[u].on].wanted
  BY Zenon, <1>4 DEF SleepOk, ReaderOp, Reads, Does
<1>6. thr[u].on \notin N
  BY Zenon, <1>2, <1>4, <1>5 DEF Woken, At
<1> QED
  BY Zenon, <1>1, <1>3, <1>5, <1>6

(* t gives up its lock.                                                    *)
LEMMA UnlockStep ==
    ASSUME Inv, NEW t \in Threads, thr[t].pc \notin Free, thr[t].pc # "size", NEW y \in ThrType,
           y.pc \in Free, y.pc # "asleep", PlaceOk(y, blksz), tree' = Unlocked(t), WakeAnd(t, y, Freed(t)),
           size' = size, blksz' = blksz, data' = data
    PROVE  Inv'
<1>1. Moves(thr, thr', t, y)
  BY Zenon, WakeMoves DEF Inv, TypeInv
<1>2. OthersHold(thr, thr', t)
  BY Zenon, <1>1, MoveHolders
<1>3. t \in Holders(thr) /\ t \notin Holders(thr')
  BY Zenon, <1>1 DEF Holders, Moves
<1>4. Leaves(thr, thr', t)
  <2>1. ASSUME NEW u PROVE u \in Holders(thr') <=> u # t /\ u \in Holders(thr)
    BY Zenon, <1>2, <1>3 DEF OthersHold
  <2>2. ASSUME NEW u \in Holders(thr') PROVE thr'[u] = thr[u]
    BY Zenon, <1>2, <2>1 DEF OthersHold
  <2> QED
    BY Zenon, <1>1, <1>3, <2>1, <2>2 DEF Leaves, Moves
<1>5. IsUnlock(tree, thr, t, Freed(t), tree')
  BY Zenon, <1>3, UnlockIs DEF Inv, TypeInv
<1>6. LockInv(tree', thr')
  BY Zenon, <1>4, <1>5, UnlockLock DEF Inv, TypeInv
<1>7. ASSUME NEW u \in Threads PROVE SleepOk(tree', thr'[u])
  <2>1. CASE thr'[u].pc # "asleep"
    BY Zenon, <2>1 DEF SleepOk
  <2>2. CASE thr'[u].pc = "asleep"
    <3>1. thr'[u] = thr[u] /\ thr[u].on \in DOMAIN tree /\ thr[u].on \notin Freed(t)
      BY Zenon, <2>2, StillAsleep
    <3>2. PICK o : o = thr[u].on
      BY Zenon
    <3>3. o \in DOMAIN tree' /\ tree'[o].len = tree[o].len /\ tree'[o].type = tree[o].type
          /\ tree'[o].wanted = tree[o].wanted
      BY Zenon, <1>5, <3>1, <3>2 DEF IsUnlock
    <3>4. SleepOk(tree, thr[u])
      BY Zenon DEF Inv, SleepInv
    <3> QED
      BY Zenon, <3>1, <3>2, <3>3, <3>4 DEF SleepOk
  <2> QED
    BY Zenon, <2>1, <2>2
<1>8. FileInv(thr', size, blksz, data)
  <2>1. AppendOk(y, data) /\ data \subseteq data
    BY Zenon, PlaceFree
  <2> QED
    BY Zenon, <1>1, <2>1, FileQuiet DEF Inv
<1>9. TypeInv'
  BY Zenon, <1>1, <1>5 DEF Inv, TypeInv, Moves, IsUnlock
<1> QED
  BY Zenon, <1>6, <1>7, <1>8, <1>9 DEF Inv, SleepInv

LEMMA RangeUnlockStep ==
    ASSUME Inv, NEW t \in Threads, RangeUnlock(t)
    PROVE  Inv'
<1>1. thr[t].pc \notin Free /\ thr[t].pc # "size" /\ tree' = Unlocked(t) /\ WakeAnd(t, Idle, Freed(t))
      /\ size' = size /\ blksz' = blksz /\ data' = data
  BY Zenon DEF RangeUnlock, At, Free, file
<1>2. Idle.pc = "idle" /\ Idle.op.do = "none"
  BY Zenon DEF Idle
<1>3. Idle \in ThrType
  BY Zenon, IdleType
<1> HIDE DEF Idle
<1>4. Idle.pc \in Free /\ Idle.pc # "asleep" /\ PlaceOk(Idle, blksz)
  BY Zenon, <1>2 DEF PlaceOk, Free, Writing
<1> QED
  BY Zenon, <1>1, <1>3, <1>4, UnlockStep

(* zfs_get_data finds that the block size has changed.                     *)
LEMMA GetDataAgainStep ==
    ASSUME Inv, NEW t \in Threads, GetData(t), ~BlockAsLocked(t)
    PROVE  Inv'
<1>1. PICK y : y = [thr[t] EXCEPT !.pc = "again"]
  BY Zenon
<1>2. /\ thr[t].pc = "held" /\ thr[t].op.do = "get" /\ tree' = Unlocked(t) /\ WakeAnd(t, y, Freed(t))
      /\ size' = size /\ blksz' = blksz /\ data' = data /\ PlaceOk(thr[t], blksz) /\ thr[t] \in ThrType
  BY Zenon, <1>1 DEF GetData, At, Does, file, Inv, TypeInv, FileInv
<1>3. GoneTo(thr[t], y, "again")
  <2>1. "again" \in Pcs
    BY Zenon DEF Pcs, Free
  <2> QED
    BY Zenon, <1>1, <1>2, <2>1, GotoIs
<1>4. y \in ThrType /\ y.pc = "again" /\ y.op = thr[t].op
  BY Zenon, <1>3 DEF GoneTo
<1>5. PlaceOk(y, blksz) /\ y.pc \in Free /\ y.pc # "asleep" /\ thr[t].pc \notin Free /\ thr[t].pc # "size"
  BY Zenon, <1>2, <1>4 DEF PlaceOk, Free, Writing
<1> QED
  BY Zenon, <1>2, <1>4, <1>5, UnlockStep

LEMMA RangeReduceStep ==
    ASSUME Inv, NEW t \in Threads, RangeReduce(t)
    PROVE  Inv'
<1>1. PICK x \in ThrType : x = thr[t]
  BY Zenon DEF Inv, TypeInv
<1>2. /\ x.pc = "reduce" /\ tree' = [o \in {x.woff} |-> [tree[0] EXCEPT !.len = x.n]]
      /\ size' = size /\ blksz' = blksz /\ data' = data /\ PlaceOk(x, blksz) /\ AppendOk(x, data)
  BY Zenon, <1>1 DEF RangeReduce, At, file, Inv, FileInv
<1>3. /\ x.len = UINT64_MAX /\ x.op.do \in {"write", "append"} /\ x.n \in 1 .. x.op.len
      /\ x.woff + x.n <= MAXOFFSET /\ Fits(blksz, x.woff + x.n)
  BY Zenon, <1>2 DEF PlaceOk, Writing
<1>4. x.pc \notin Free /\ ~ReaderOp(x.op) /\ x.pc # "size"
  BY Zenon, <1>2, <1>3 DEF Free, ReaderOp
<1>5. DOMAIN tree = {0} /\ Holders(thr) = {t} /\ tree[0].owner = t
  BY Zenon, <1>1, <1>3, <1>4, WholeLock
<1>6. x.woff \in Nat /\ x.n \in Nat /\ x.op.len \in Nat
  BY Zenon, <1>1, ThrIs DEF Inv, TypeInv
<1>7. /\ x.n \in Nat \ {0} /\ x.n >= 1 /\ x.woff <= MAXOFFSET /\ x.n # UINT64_MAX /\ x.woff <= x.woff
      /\ x.woff + x.n <= x.woff + x.n
  BY SMT, <1>3, <1>6, Consts
<1>8. PICK y : y = [x EXCEPT !.pc = "chunk", !.off = x.woff, !.len = x.n]
  BY Zenon
<1>9. y \in ThrType /\ y.pc = "chunk" /\ y.op = x.op /\ y.off = x.woff /\ y.len = x.n
      /\ y.woff = x.woff /\ y.n = x.n
  <2>1. "chunk" \in Pcs
    BY Zenon DEF Pcs, Writing
  <2> QED
    BY Zenon, <1>6, <1>8, <2>1 DEF ThrType
<1>10. WakeAnd(t, y, {0}) /\ y.pc # "asleep" /\ y.pc \notin Free
  BY Zenon, <1>1, <1>8, <1>9 DEF RangeReduce, Free
<1>11. Moves(thr, thr', t, y)
  BY Zenon, <1>9, <1>10, WakeMoves DEF Inv, TypeInv
<1>12. thr' \in [Threads -> ThrType] /\ thr'[t] = y
  BY Zenon, <1>11 DEF Moves
<1>13. Holders(thr') = {t}
  <2>1. OthersHold(thr, thr', t) /\ t \in Holders(thr')
    BY Zenon, <1>10, <1>11, <1>12, MoveHolders DEF Holders
  <2>2. ASSUME NEW u PROVE u \in Holders(thr') <=> u \in {t}
    BY Zenon, <1>5, <2>1 DEF OthersHold
  <2> QED
    BY Zenon, <2>2
<1>14. IsTree(tree') /\ LockInv(tree', thr')
  <2>1. IsTree(tree) /\ thr \in [Threads -> ThrType] /\ LockInv(tree, thr)
    BY Zenon DEF Inv, TypeInv
  <2>3. Reduced(tree, x.woff, x.n, tree')
    BY Zenon, <1>2 DEF Reduced
  <2>2. thr'[t].op = thr[t].op /\ thr'[t].off = x.woff /\ thr'[t].len = x.n /\ ~ReaderOp(thr[t].op)
    BY Zenon, <1>1, <1>4, <1>9, <1>12
  <2> QED
    BY Zenon, <1>5, <1>6, <1>7, <1>12, <1>13, <2>1, <2>2, <2>3, ReduceLock
<1>15. ASSUME NEW u \in Threads PROVE SleepOk(tree', thr'[u])
  <2>1. ASSUME thr'[u].pc = "asleep" PROVE FALSE
    <3>1. thr[u].on \in DOMAIN tree /\ thr[u].on \notin {0}
      BY Zenon, <1>10, <2>1, StillAsleep
    <3> QED
      BY Zenon, <1>5, <3>1
  <2> QED
    BY Zenon, <2>1 DEF SleepOk
<1>16. PlaceOk(y, blksz)
  BY Zenon, <1>2, <1>3, <1>7, <1>9 DEF PlaceOk, Free, Writing, ReaderOp
<1>17. AppendOk(y, data) /\ data \subseteq data
  BY Zenon, <1>2, <1>9 DEF AppendOk
<1>18. FileInv(thr', size, blksz, data)
  BY Zenon, <1>1, <1>4, <1>11, <1>16, <1>17, FileQuiet DEF Inv
<1>19. TypeInv'
  BY Zenon, <1>2, <1>12, <1>14 DEF Inv, TypeInv
<1> QED
  BY Zenon, <1>2, <1>14, <1>15, <1>18, <1>19 DEF Inv, SleepInv

-----------------------------------------------------------------------------
(* zfs_range_lock: t waits ...                                             *)

Flagged(T, o, flag, V) ==
    /\ IsTree(V) /\ SameTree(T, V) /\ flag \in V[o].wanted
    /\ \A p \in DOMAIN T : T[p].wanted \subseteq V[p].wanted

LEMMA FlagIs ==
    ASSUME NEW T, IsTree(T), NEW o \in DOMAIN T, NEW flag \in {"r", "w"}
    PROVE  Flagged(T, o, flag, [T EXCEPT ![o].wanted = @ \cup {flag}])
<1>1. PICK y : y = [T[o] EXCEPT !.wanted = @ \cup {flag}]
  BY Zenon
<1>2. PICK V : V = [T EXCEPT ![o].wanted = @ \cup {flag}]
  BY Zenon
<1>3. V = [x \in DOMAIN T |-> IF x = o THEN y ELSE T[x]]
  BY Zenon, <1>1, <1>2
<1>4. T[o] \in NodeType
  BY Zenon DEF IsTree
<1>5. PICK W : W = T[o].wanted \cup {flag}
  BY Zenon
<1>6. W \in SUBSET {"r", "w"}
  <2>1. T[o].wanted \in SUBSET {"r", "w"}
    BY Zenon, <1>4, NodeFields
  <2> QED
    BY Zenon, <1>5, <2>1
<1>7. y = [T[o] EXCEPT !.wanted = W]
  BY Zenon, <1>1, <1>5
<1>8. y \in NodeType /\ y.len = T[o].len /\ y.cnt = T[o].cnt /\ y.type = T[o].type
      /\ y.owner = T[o].owner /\ y.wanted = W
  BY SMT, <1>4, <1>6, <1>7 DEF NodeType
<1>9. DOMAIN V = DOMAIN T /\ V[o] = y /\ \A p \in DOMAIN T : p # o => V[p] = T[p]
  BY Zenon, <1>3
<1>10. IsTree(V)
  <2>1. V = [x \in DOMAIN V |-> V[x]]
    BY Zenon, <1>3
  <2> QED
    BY Zenon, <1>8, <1>9, <2>1 DEF IsTree
<1>11. SameTree(T, V)
  BY Zenon, <1>8, <1>9 DEF SameTree
<1>12. flag \in V[o].wanted /\ \A p \in DOMAIN T : T[p].wanted \subseteq V[p].wanted
  BY Zenon, <1>5, <1>8, <1>9
<1> QED
  BY Zenon, <1>2, <1>10, <1>11, <1>12 DEF Flagged

LEMMA WaitStep ==
    ASSUME Inv, NEW t \in Threads, thr[t].pc = "lock", NEW off \in Nat, NEW len \in Nat \ {0},
           off <= MAXOFFSET, thr[t].op.do = "get" => off = BlockOf(thr[t].op.off, len),
           NEW B, B \subseteq Over(tree, off, len), B # {}, NEW flag \in {"r", "w"},
           flag = IF ReaderOp(thr[t].op) THEN "r" ELSE "w",
           flag = "r" => \A o \in B : tree[o].type = "writer" \/ "w" \in tree[o].wanted,
           Wait(t, off, len, Min(B), flag), size' = size, blksz' = blksz, data' = data
    PROVE  Inv'
<1>1. PICK o : o = Min(B)
  BY Zenon
<1>2. o \in B
  <2>1. B \subseteq Nat
    BY Zenon DEF Over, Inv, TypeInv, IsTree
  <2> QED
    BY Zenon, <1>1, <2>1, Minimum
<1>3. o \in DOMAIN tree /\ Meet(off, len, o, tree[o].len) /\ o \in Nat
  BY Zenon, <1>2 DEF Over, Inv, TypeInv, IsTree
<1>4. Flagged(tree, o, flag, tree')
  BY Zenon, <1>1, <1>3, FlagIs DEF Inv, TypeInv, Wait
<1>5. PICK y : y = [thr[t] EXCEPT !.pc = "asleep", !.off = off, !.len = len, !.on = o]
  BY Zenon
<1>6. y \in ThrType /\ y.pc = "asleep" /\ y.op = thr[t].op /\ y.off = off /\ y.len = len /\ y.on = o
  <2>1. "asleep" \in Pcs /\ thr[t] \in ThrType /\ len \in Nat
    BY Zenon DEF Pcs, Free, Inv, TypeInv
  <2> QED
    BY Zenon, <1>3, <1>5, <2>1 DEF ThrType
<1>7. Moves(thr, thr', t, y) /\ \A u \in Threads : u # t => thr'[u] = thr[u]
  <2>1. Set(t, y)
    BY Zenon, <1>1, <1>5 DEF Wait
  <2> QED
    BY Zenon, <1>6, <2>1, SetMoves DEF Inv, TypeInv, Set
<1>8. thr'[t] = y
  BY Zenon, <1>7 DEF Moves
<1>9. SameLocks(thr, thr')
  <2>1. t \notin Holders(thr) /\ t \notin Holders(thr')
    BY Zenon, <1>6, <1>8 DEF Holders, Free
  <2>2. ASSUME NEW u PROVE u \in Holders(thr') <=> u \in Holders(thr)
    BY Zenon, <1>7, <2>1 DEF Holders
  <2>3. Holders(thr') = Holders(thr)
    BY Zenon, <2>2
  <2>4. ASSUME NEW u \in Holders(thr) PROVE thr'[u] = thr[u]
    BY Zenon, <1>7, <2>1 DEF Holders
  <2> QED
    BY Zenon, <2>3, <2>4 DEF SameLocks
<1>10. LockInv(tree', thr')
  BY Zenon, <1>4, <1>9, LockSame DEF Flagged, Inv
<1>11. ASSUME NEW p \in DOMAIN tree
       PROVE  p \in DOMAIN tree' /\ tree'[p].len = tree[p].len /\ tree'[p].type = tree[p].type
              /\ tree[p].wanted \subseteq tree'[p].wanted
  BY Zenon, <1>4 DEF Flagged, SameTree
<1>12. ASSUME NEW u \in Threads PROVE SleepOk(tree', thr'[u])
  <2>1. CASE u = t
    <3>1. flag \in tree'[o].wanted
      BY Zenon, <1>4 DEF Flagged
    <3>2. flag = "r" => tree'[o].type = "writer" \/ "w" \in tree'[o].wanted
      BY Zenon, <1>2, <1>3, <1>11
    <3>3. o \in DOMAIN tree' /\ Meet(off, len, o, tree'[o].len)
      BY Zenon, <1>3, <1>11
    <3> QED
      BY Zenon, <1>6, <1>8, <2>1, <3>1, <3>2, <3>3 DEF SleepOk
  <2>2. CASE u # t
    <3>1. SleepOk(tree, thr[u]) /\ thr'[u] = thr[u]
      BY Zenon, <1>7, <2>2 DEF Inv, SleepInv
    <3> QED
      BY Zenon, <1>11, <3>1 DEF SleepOk
  <2> QED
    BY Zenon, <2>1, <2>2
<1>13. PlaceOk(y, blksz) /\ AppendOk(y, data) /\ data \subseteq data /\ thr[t].pc # "size"
  <2>1. len >= 1
    BY SMT
  <2>2. PlaceOk(thr[t], blksz)
    BY Zenon DEF Inv, FileInv
  <2>3. PlaceOk(y, blksz)
    BY Zenon, <1>6, <2>1, <2>2 DEF PlaceOk, Free, Writing
  <2> QED
    BY Zenon, <1>6, <2>3 DEF AppendOk
<1>14. FileInv(thr', size, blksz, data)
  BY Zenon, <1>7, <1>13, FileQuiet DEF Inv
<1>15. TypeInv'
  BY Zenon, <1>4, <1>7 DEF Inv, TypeInv, Moves, Flagged
<1> QED
  BY Zenon, <1>10, <1>12, <1>14, <1>15 DEF Inv, SleepInv

(* ... or takes the lock.                                                  *)
Takes(t, y, off, len) ==
    /\ Set(t, y) /\ thr[t].pc = "lock" /\ y \in ThrType /\ y.pc = "held" /\ y.op = thr[t].op
    /\ off \in Nat /\ len \in Nat \ {0} /\ y.off = off /\ y.len = len

LEMMA TakeIs ==
    ASSUME Inv, NEW t \in Threads, NEW y, NEW off, NEW len, Takes(t, y, off, len)
    PROVE  Joins(thr, thr', t, off, len) /\ Moves(thr, thr', t, y) /\ thr'[t] = y
<1>1. Moves(thr, thr', t, y)
  BY Zenon, SetMoves DEF Takes, Inv, TypeInv
<1>2. thr'[t] = y /\ thr \in [Threads -> ThrType] /\ thr' \in [Threads -> ThrType]
  BY Zenon, <1>1 DEF Moves
<1>3. t \notin Holders(thr) /\ t \in Holders(thr')
  BY Zenon, <1>2 DEF Takes, Holders, Free
<1>4. \A u \in Threads : u # t => thr'[u] = thr[u]
  BY Zenon, <1>2 DEF Takes, Set
<1> QED
  BY Zenon, <1>1, <1>2, <1>3, <1>4 DEF Joins, Takes

LEMMA TakeStep ==
    ASSUME Inv, NEW t \in Threads, NEW y, NEW off, NEW len, Takes(t, y, off, len), IsTree(tree'),
           LockInv(tree', thr'), PlaceOk(y, blksz), AppendOk(y, data),
           \A u \in Threads : thr[u].pc = "asleep" =>
              thr[u].on \in DOMAIN tree' /\ tree'[thr[u].on] = tree[thr[u].on],
           size' = size, blksz' = blksz, data' = data
    PROVE  Inv'
<1>1. Moves(thr, thr', t, y) /\ thr'[t] = y /\ \A u \in Threads : u # t => thr'[u] = thr[u]
  <2>1. Joins(thr, thr', t, off, len) /\ Moves(thr, thr', t, y) /\ thr'[t] = y
    BY Zenon, TakeIs
  <2> QED
    BY Zenon, <2>1 DEF Joins
<1>2. ASSUME NEW u \in Threads PROVE SleepOk(tree', thr'[u])
  <2>1. CASE u = t
    BY Zenon, <1>1, <2>1 DEF Takes, SleepOk
  <2>2. CASE u # t
    <3>1. thr'[u] = thr[u] /\ SleepOk(tree, thr[u])
      BY Zenon, <1>1, <2>2 DEF Inv, SleepInv
    <3> QED
      BY Zenon, <3>1 DEF SleepOk
  <2> QED
    BY Zenon, <2>1, <2>2
<1>3. thr[t].pc # "size" /\ data \subseteq data
  BY Zenon DEF Takes
<1>4. FileInv(thr', size, blksz, data)
  BY Zenon, <1>1, <1>3, FileQuiet DEF Inv
<1>5. TypeInv'
  BY Zenon, <1>1 DEF Inv, TypeInv, Moves
<1> QED
  BY Zenon, <1>2, <1>4, <1>5 DEF Inv, SleepInv

LEMMA RangeLockReaderStep ==
    ASSUME Inv, NEW t \in Threads, RangeLockReader(t)
    PROVE  Inv'
<1>1. PICK x \in ThrType : x = thr[t]
  BY Zenon DEF Inv, TypeInv
<1>2. x.pc = "lock" /\ ReaderOp(x.op) /\ size' = size /\ blksz' = blksz /\ data' = data /\ PlaceOk(x, blksz)
  BY Zenon, <1>1 DEF RangeLockReader, At, Reads, Does, ReaderOp, file, Inv, FileInv
<1>3. PICK off, len : off = x.off /\ len = x.len
  BY Zenon
<1>4. off \in Nat /\ len \in Nat /\ off <= MAXOFFSET /\ len >= 1
      /\ (x.op.do = "get" => off = BlockOf(x.op.off, len))
  BY Zenon, <1>1, <1>2, <1>3, ThrIs DEF PlaceOk, Inv, TypeInv
<1>5. len \in Nat \ {0}
  BY SMT, <1>4
<1>6. PICK B : B = ReaderWaitsFor(off, len)
  BY Zenon
<1>7. \A o : o \in B <=> o \in Over(tree, off, len) /\ (tree[o].type = "writer" \/ "w" \in tree[o].wanted)
  BY Zenon, <1>6 DEF ReaderWaitsFor, Overlaps, Over
<1>8. CASE B # {}
  <2>1. Wait(t, off, len, Min(B), "r")
    BY Zenon, <1>1, <1>3, <1>6, <1>8 DEF RangeLockReader
  <2>2. B \subseteq Over(tree, off, len) /\ \A o \in B : tree[o].type = "writer" \/ "w" \in tree[o].wanted
    BY Zenon, <1>7
  <2> QED
    BY Zenon, <1>1, <1>2, <1>4, <1>5, <1>8, <2>1, <2>2, WaitStep
<1>9. CASE B = {}
  <2>1. PICK y : y = [x EXCEPT !.pc = "held"]
    BY Zenon
  <2>2. GoneTo(x, y, "held")
    <3>1. "held" \in Pcs
      BY Zenon DEF Pcs
    <3> QED
      BY Zenon, <2>1, <3>1, GotoIs
  <2>3. tree' = AddReader(t, off, len) /\ Set(t, y)
    BY Zenon, <1>1, <1>3, <1>6, <1>9, <2>1 DEF RangeLockReader, Goto
  <2>4. y \in ThrType /\ y.pc = "held" /\ y.op = x.op /\ y.off = off /\ y.len = len
    BY Zenon, <1>3, <2>2 DEF GoneTo
  <2>5. Takes(t, y, off, len)
    BY Zenon, <1>1, <1>2, <1>4, <1>5, <2>3, <2>4 DEF Takes
  <2>6. Joins(thr, thr', t, off, len) /\ thr'[t] = y
    BY Zenon, <2>5, TakeIs
  <2>7. PlaceOk(y, blksz)
    BY Zenon, <1>2, <1>4, <2>4 DEF PlaceOk, Free, Writing, ReaderOp
  <2>8. AppendOk(y, data)
    BY Zenon, <1>2, <2>4 DEF AppendOk, ReaderOp
  <2>9. ReaderOp(thr'[t].op) /\ IsTree(tree) /\ thr \in [Threads -> ThrType] /\ LockInv(tree, thr)
    BY Zenon, <1>2, <2>4, <2>6 DEF Inv, TypeInv
  <2>10. tree' = IF Over(tree, off, len) = {} THEN Own(t, off, len, "reader") ELSE Split(tree, off, len)
    BY Zenon, <2>3, AddReaderIs
  <2>11. ASSUME NEW u \in Threads, thr[u].pc = "asleep"
         PROVE  thr[u].on \in DOMAIN tree /\ thr[u].on \notin Over(tree, off, len)
    <3>1. SleepOk(tree, thr[u])
      BY Zenon DEF Inv, SleepInv
    <3> QED
      BY Zenon, <1>7, <1>9, <2>11, <3>1 DEF SleepOk
  <2>12. CASE Over(tree, off, len) = {}
    <3>1. IsOwn(tree, off, len, "reader", t, tree')
      BY Zenon, <1>4, <1>5, <2>9, <2>10, <2>12, OwnIs
    <3>2. LockInv(tree', thr')
      BY Zenon, <2>6, <2>9, <2>12, <3>1, OwnLock
    <3>3. \A o \in DOMAIN tree : o \in DOMAIN tree' /\ tree'[o] = tree[o]
      BY Zenon, <3>1 DEF IsOwn
    <3>4. IsTree(tree')
      BY Zenon, <3>1 DEF IsOwn
    <3> QED
      BY Zenon, <1>2, <2>5, <2>7, <2>8, <2>11, <3>2, <3>3, <3>4, TakeStep
  <2>13. CASE Over(tree, off, len) # {}
    <3>1. IsSplit(tree, off, len, tree')
      BY Zenon, <1>4, <1>5, <2>9, <2>10, <2>13, SplitIs
    <3>2. \A o \in Over(tree, off, len) : tree[o].type # "writer"
      BY Zenon, <1>7, <1>9
    <3>3. LockInv(tree', thr')
      BY Zenon, <2>6, <2>9, <3>1, <3>2, SplitLock
    <3>4. \A o \in DOMAIN tree \ Over(tree, off, len) : o \in DOMAIN tree' /\ tree'[o] = tree[o]
      BY Zenon, <3>1 DEF IsSplit
    <3>5. IsTree(tree')
      BY Zenon, <3>1 DEF IsSplit
    <3>6. \A u \in Threads : thr[u].pc = "asleep" =>
             thr[u].on \in DOMAIN tree' /\ tree'[thr[u].on] = tree[thr[u].on]
      BY Zenon, <2>11, <3>4
    <3> QED
      BY Zenon, <1>2, <2>5, <2>7, <2>8, <3>3, <3>5, <3>6, TakeStep
  <2> QED
    BY Zenon, <2>12, <2>13
<1> QED
  BY Zenon, <1>8, <1>9

RangeOk(x, off, len, z, b) ==
    /\ off \in Nat /\ off <= MAXOFFSET /\ len \in Nat \ {0}
    /\ len = UINT64_MAX => off = 0
    /\ x.op.do \in {"extend", "trunc"} => len = UINT64_MAX
    /\ len # UINT64_MAX => /\ len = x.op.len /\ off = IF x.op.do = "append" THEN z ELSE x.op.off
                           /\ Fits(b, off + len)

LEMMA WriteRangeIs ==
    ASSUME Inv, NEW t \in Threads, thr[t].pc = "lock"
    PROVE  RangeOk(thr[t], WriteRange(t).off, WriteRange(t).len, size, blksz)
<1>1. PICK x : x = thr[t]
  BY Zenon
<1>2. x.op.off \in 0 .. MAXOFFSET /\ size \in 0 .. MAXOFFSET /\ blksz \in 1 .. SPA_MAXBLOCKSIZE
  BY Zenon, <1>1, ThrIs DEF Inv, TypeInv
<1>3. x.op.len \in 1 .. (UINT64_MAX - 1)
  BY Zenon, <1>1 DEF Inv, FileInv, PlaceOk
<1>4. PICK a, l : a = Asked(x.op).off /\ l = Asked(x.op).len
  BY Zenon
<1>5. IF x.op.do \in {"extend", "trunc"} THEN a = 0 /\ l = UINT64_MAX ELSE a = x.op.off /\ l = x.op.len
  BY Zenon, <1>4 DEF Asked
<1>6. PICK off : off = IF x.op.do = "append" THEN size ELSE a
  BY Zenon
<1>7. a \in Nat /\ l \in Nat \ {0} /\ off \in Nat /\ off <= MAXOFFSET /\ size \in Nat /\ off + l \in Nat
      /\ blksz \in Nat
  BY SMT, <1>2, <1>3, <1>5, <1>6, Consts
<1>8. PICK end : end = Max({size, off + l})
  BY Zenon
<1>9. end = IF size >= off + l THEN size ELSE off + l
  BY Zenon, <1>7, <1>8, MaxTwo
<1>10. end \in Nat /\ off + l <= end
  BY SMT, <1>7, <1>9
<1>11. PICK W \in BOOLEAN : W <=> (end > blksz /\ (~ISP2(blksz) \/ blksz < z_max_blksz))
  BY Zenon
<1>12. WriteRange(t) = IF W THEN [off |-> 0, len |-> UINT64_MAX] ELSE [off |-> off, len |-> l]
  BY Zenon, <1>1, <1>4, <1>6, <1>8, <1>11 DEF WriteRange, Does
<1>13. CASE W
  <2>1. WriteRange(t).off = 0 /\ WriteRange(t).len = UINT64_MAX
    <3>1. WriteRange(t) = [off |-> 0, len |-> UINT64_MAX]
      BY Zenon, <1>12, <1>13
    <3> QED
      BY SMT, <3>1
  <2>2. 0 \in Nat /\ 0 <= MAXOFFSET /\ UINT64_MAX \in Nat \ {0}
    BY SMT, Consts
  <2> QED
    BY Zenon, <2>1, <2>2 DEF RangeOk
<1>14. CASE ~W
  <2>1. WriteRange(t).off = off /\ WriteRange(t).len = l
    <3>1. WriteRange(t) = [off |-> off, len |-> l]
      BY Zenon, <1>12, <1>14
    <3> QED
      BY SMT, <3>1
  <2>2. ISP2(blksz) \/ end <= blksz
    BY SMT, <1>7, <1>10, <1>11, <1>14
  <2>3. ISP2(blksz) \/ off + l <= blksz
    BY SMT, <1>7, <1>10, <2>2
  <2>4. x.op.len # UINT64_MAX
    BY SMT, <1>3, Consts
  <2>5. CASE x.op.do \in {"extend", "trunc"}
    <3>1. l = UINT64_MAX /\ off = 0
      BY Zenon, <1>5, <1>6, <2>5
    <3> QED
      BY Zenon, <1>1, <1>7, <2>1, <3>1 DEF RangeOk
  <2>6. CASE x.op.do \notin {"extend", "trunc"}
    <3>1. l = x.op.len /\ off = IF x.op.do = "append" THEN size ELSE x.op.off
      BY Zenon, <1>5, <1>6, <2>6
    <3> QED
      BY Zenon, <1>1, <1>7, <2>1, <2>3, <2>4, <2>6, <3>1 DEF RangeOk, Fits
  <2> QED
    BY Zenon, <2>5, <2>6
<1> QED
  BY Zenon, <1>11, <1>13, <1>14

(* Data at or above the size is inside the lock of one who has it.         *)
LEMMA NewData ==
    ASSUME Inv, NEW s \in data, ~(s < size)
    PROVE  \E u \in Holders(thr) : thr[u].off <= s /\ s < LEnd(thr, u)
<1>1. InSize(thr, size, s) /\ s \in Nat
  BY Zenon DEF Inv, TypeInv, FileInv
<1>2. PICK u \in Threads : thr[u].pc = "size" /\ s \in Sectors(thr[u].woff, ChunkOf(thr[u]))
  BY Zenon, <1>1 DEF InSize
<1>3. /\ thr[u].n \in 1 .. thr[u].op.len /\ thr[u].off <= thr[u].woff
      /\ thr[u].woff + thr[u].n <= LEnd(thr, u)
  BY Zenon, <1>2 DEF Inv, FileInv, PlaceOk, Writing, LEnd
<1>4. thr[u].off \in Nat /\ thr[u].woff \in Nat /\ thr[u].n \in Nat /\ LEnd(thr, u) \in Nat
  BY Zenon, ThrIs DEF Inv, TypeInv
<1>5. thr[u].n \in Nat \ {0}
  BY SMT, <1>3, <1>4
<1>6. ChunkOf(thr[u]) \in 1 .. thr[u].n
  BY Zenon, <1>4, <1>5, ChunkIs DEF ChunkOf
<1>7. thr[u].off <= s /\ s < LEnd(thr, u)
  BY SMT, <1>1, <1>2, <1>3, <1>4, <1>6 DEF Sectors
<1> QED
  BY Zenon, <1>2, <1>7 DEF Holders, Free

LEMMA RangeLockWriterStep ==
    ASSUME Inv, NEW t \in Threads, RangeLockWriter(t)
    PROVE  Inv'
<1>1. PICK x \in ThrType : x = thr[t]
  BY Zenon DEF Inv, TypeInv
<1>2. x.pc = "lock" /\ ~ReaderOp(x.op) /\ size' = size /\ blksz' = blksz /\ data' = data /\ PlaceOk(x, blksz)
  BY Zenon, <1>1 DEF RangeLockWriter, At, Reads, Does, ReaderOp, file, Inv, FileInv
<1>3. PICK off, len : off = WriteRange(t).off /\ len = WriteRange(t).len
  BY Zenon
<1>4. RangeOk(x, off, len, size, blksz)
  BY Zenon, <1>1, <1>2, <1>3, WriteRangeIs
<1>5. off \in Nat /\ len \in Nat \ {0} /\ off <= MAXOFFSET /\ len \in Nat /\ x.op.do # "get"
  BY Zenon, <1>2, <1>4 DEF RangeOk, ReaderOp
<1>6. PICK B : B = WriterWaitsFor(off, len)
  BY Zenon
<1>7. B \subseteq Over(tree, off, len) /\ (B = {} => Over(tree, off, len) = {})
  BY Zenon, <1>6 DEF WriterWaitsFor, Overlaps, Over
<1>8. CASE B # {}
  <2>1. Wait(t, off, len, Min(B), "w")
    BY Zenon, <1>3, <1>6, <1>8 DEF RangeLockWriter
  <2> QED
    BY Zenon, <1>1, <1>2, <1>5, <1>7, <1>8, <2>1, WaitStep
<1>9. CASE B = {}
  <2>1. PICK y : y = [x EXCEPT !.pc = "held", !.off = off, !.len = len]
    BY Zenon
  <2>2. y \in ThrType /\ y.pc = "held" /\ y.op = x.op /\ y.off = off /\ y.len = len
    <3>1. "held" \in Pcs
      BY Zenon DEF Pcs
    <3> QED
      BY Zenon, <1>5, <2>1, <3>1 DEF ThrType
  <2>3. tree' = Own(t, off, len, "writer") /\ Set(t, y)
    BY Zenon, <1>1, <1>3, <1>6, <1>9, <2>1 DEF RangeLockWriter
  <2>4. Takes(t, y, off, len)
    BY Zenon, <1>1, <1>2, <1>5, <2>2, <2>3 DEF Takes
  <2>5. Joins(thr, thr', t, off, len) /\ thr'[t] = y
    BY Zenon, <2>4, TakeIs
  <2>6. ~ReaderOp(thr'[t].op) /\ IsTree(tree) /\ thr \in [Threads -> ThrType] /\ LockInv(tree, thr)
        /\ Over(tree, off, len) = {}
    BY Zenon, <1>2, <1>7, <1>9, <2>2, <2>5 DEF Inv, TypeInv
  <2>7. IsOwn(tree, off, len, "writer", t, tree')
    BY Zenon, <1>5, <2>3, <2>6, OwnIs
  <2>8. LockInv(tree', thr')
    BY Zenon, <2>5, <2>6, <2>7, OwnLock
  <2>9. IsTree(tree') /\ \A o \in DOMAIN tree : o \in DOMAIN tree' /\ tree'[o] = tree[o]
    BY Zenon, <2>7 DEF IsOwn
  <2>10. ASSUME NEW u \in Threads, thr[u].pc = "asleep"
         PROVE  thr[u].on \in DOMAIN tree' /\ tree'[thr[u].on] = tree[thr[u].on]
    BY Zenon, <2>9, <2>10 DEF Inv, SleepInv, SleepOk
  <2>11. PlaceOk(y, blksz)
    <3>1. len >= 1
      BY SMT, <1>5
    <3>2. len = UINT64_MAX => off = 0
      BY Zenon, <1>4 DEF RangeOk
    <3>3. x.op.do \in {"extend", "trunc"} => len = UINT64_MAX
      BY Zenon, <1>4 DEF RangeOk
    <3>4. len # UINT64_MAX => len = x.op.len /\ Fits(blksz, off + len) /\ (x.op.do = "write" => off = x.op.off)
      BY Zenon, <1>4 DEF RangeOk
    <3> QED
      BY Zenon, <1>2, <1>5, <2>2, <3>1, <3>2, <3>3, <3>4 DEF PlaceOk, Free, Writing
  <2>12. ASSUME x.op.do = "append", len # UINT64_MAX, NEW s \in data, s \in Sectors(off, len) PROVE FALSE
    <3>1. off = size
      BY Zenon, <1>4, <2>12 DEF RangeOk
    <3>2. s \in Nat /\ off <= s /\ s < off + len
      BY SMT, <1>5, <2>12 DEF Sectors
    <3>3. ~(s < size)
      BY SMT, <1>5, <3>1, <3>2
    <3>4. PICK u \in Holders(thr) : thr[u].off <= s /\ s < LEnd(thr, u)
      BY Zenon, <3>3, NewData
    <3>5. ~(thr[u].off < off + len /\ off < LEnd(thr, u))
      BY Zenon, <1>5, <2>6, NobodyIn
    <3>6. thr[u].off \in Nat /\ LEnd(thr, u) \in Nat
      BY Zenon, <2>6, ThrIs DEF Holders
    <3> QED
      BY SMT, <1>5, <3>2, <3>4, <3>5, <3>6
  <2>13. AppendOk(y, data)
    BY Zenon, <2>2, <2>12 DEF AppendOk
  <2> QED
    BY Zenon, <1>2, <2>4, <2>8, <2>9, <2>10, <2>11, <2>13, TakeStep
<1> QED
  BY Zenon, <1>8, <1>9

-----------------------------------------------------------------------------
(* The invariant holds, and with it what the runs check.                   *)

LEMMA InitInv == Init => Inv
<1> SUFFICES ASSUME Init PROVE Inv
  BY Zenon
<1>1. DOMAIN tree = {} /\ tree = [o \in {} |-> tree[o]]
  <2>1. tree = <<>>
    BY Zenon DEF Init
  <2> QED
    BY SMT, <2>1
<1>2. Idle.pc = "idle"
  BY Zenon DEF Idle
<1>3. Idle \in ThrType
  BY Zenon, IdleType
<1>4. thr = [t \in Threads |-> Idle]
  BY Zenon DEF Init
<1> HIDE DEF Idle
<1>5. thr \in [Threads -> ThrType] /\ \A t \in Threads : thr[t] = Idle
  BY Zenon, <1>3, <1>4
<1>6. Holders(thr) = {}
  BY Zenon, <1>2, <1>5 DEF Holders, Free
<1>7. PICK f \in Files : size = f.size /\ blksz = f.blksz /\ data = 0 .. (f.size - 1)
  BY Zenon DEF Init
<1>8. size \in 0 .. MAXOFFSET /\ blksz \in 1 .. SPA_MAXBLOCKSIZE /\ (size > blksz => ISP2(blksz))
  BY Zenon, <1>7, BlocksAssumption
<1>9. data \subseteq Nat /\ \A s \in data : s < size
  BY SMT, <1>7, <1>8, Consts
<1>10. Fits(blksz, size)
  <2>1. size > blksz \/ size <= blksz
    BY SMT, <1>8, Consts
  <2> QED
    BY Zenon, <1>8, <2>1 DEF Fits
<1>11. TypeInv
  BY Zenon, <1>1, <1>5, <1>8, <1>9 DEF TypeInv, IsTree
<1>12. LockInv(tree, thr)
  BY Zenon, <1>1, <1>6 DEF LockInv, Disjoint, Aligned, Covered, Counted, Owned, WritersOwn, NonEmpty
<1>13. SleepInv(tree, thr)
  BY Zenon, <1>2, <1>5 DEF SleepInv, SleepOk
<1>14. PlaceOk(Idle, blksz) /\ AppendOk(Idle, data)
  <2>1. Idle.op.do = "none"
    BY Zenon DEF Idle
  <2> QED
    BY Zenon, <1>2, <2>1 DEF PlaceOk, AppendOk, Free, Writing
<1>15. FileInv(thr, size, blksz, data)
  BY Zenon, <1>5, <1>9, <1>10, <1>14 DEF FileInv, InSize
<1> QED
  BY Zenon, <1>11, <1>12, <1>13, <1>15 DEF Inv

LEMMA NextInv == Inv /\ [Next]_vars => Inv'
<1> SUFFICES ASSUME Inv, [Next]_vars PROVE Inv'
  BY Zenon
<1>1. CASE UNCHANGED vars
  BY Zenon, <1>1 DEF vars, file, Inv, TypeInv
<1>2. ASSUME NEW t \in Threads, Begin(t) \/ Step(t) PROVE Inv'
  <2>1. CASE Begin(t)
    BY Zenon, <2>1, BeginStep
  <2>2. CASE RangeLockReader(t)
    BY Zenon, <2>2, RangeLockReaderStep
  <2>3. CASE RangeLockWriter(t)
    BY Zenon, <2>3, RangeLockWriterStep
  <2>4. CASE RangeUnlock(t)
    BY Zenon, <2>4, RangeUnlockStep
  <2>5. CASE GetBlock(t)
    BY Zenon, <2>5, GetBlockStep
  <2>6. CASE GetData(t)
    BY Zenon, <2>6, GetDataStep, GetDataAgainStep
  <2>7. CASE WriteBegin(t)
    BY Zenon, <2>7, WriteBeginStep
  <2>8. CASE WriteGrow(t)
    BY Zenon, <2>8, WriteGrowStep
  <2>9. CASE RangeReduce(t)
    BY Zenon, <2>9, RangeReduceStep
  <2>10. CASE WriteChunk(t)
    BY Zenon, <2>10, WriteChunkStep
  <2>11. CASE WriteSize(t)
    BY Zenon, <2>11, WriteSizeStep
  <2>12. CASE Extend(t) \/ Trunc(t)
    BY Zenon, <2>12, ExtendTruncSteps
  <2>13. CASE ReadDone(t) \/ WriteFail(t) \/ FreeRange(t)
    BY Zenon, <2>13, EasySteps
  <2> QED
    BY Zenon, <1>2, <2>1, <2>2, <2>3, <2>4, <2>5, <2>6, <2>7, <2>8, <2>9, <2>10, <2>11, <2>12, <2>13
    DEF Step
<1> QED
  BY Zenon, <1>1, <1>2 DEF Next

LEMMA RangeInvariant == Spec => []Inv
<1> QED
  BY InitInv, NextInv, PTL DEF Spec

LEMMA HoldingIs == Holding = Holders(thr)
BY Zenon DEF Holding, Holders, Free

(* "locked for exclusive (writer) or shared (reader) use": of two locks of  *)
(* zfs_range_lock that meet neither is a writer's.                          *)
THEOREM Exclusion == Spec => []WriterExcludes
<1>1. Inv => WriterExcludes
  <2> SUFFICES ASSUME Inv, NEW t \in Holding, NEW u \in Holding, t # u,
                      Meet(thr[t].off, thr[t].len, thr[u].off, thr[u].len)
               PROVE  Reads(t) /\ Reads(u)
    BY Zenon DEF WriterExcludes
  <2>1. t \in Holders(thr) /\ u \in Holders(thr)
    BY Zenon, HoldingIs
  <2>2. thr[t].off < LEnd(thr, u) /\ thr[u].off < LEnd(thr, t)
    BY Zenon DEF Meet, LEnd
  <2>3. ReaderOp(thr[t].op)
    BY Zenon, <2>1, <2>2, Excludes DEF Inv, TypeInv
  <2>4. ReaderOp(thr[u].op)
    BY Zenon, <2>1, <2>2, Excludes DEF Inv, TypeInv
  <2> QED
    BY Zenon, <2>3, <2>4 DEF ReaderOp, Reads, Does
<1> QED
  BY <1>1, RangeInvariant, PTL

(* However zfs_range_add_reader split and zfs_range_unlock_reader released, *)
(* there is one node at a sector that is locked, and it counts its holders. *)
THEOREM TreeCounts == Spec => []TreeExact
<1>1. Inv => TreeExact
  <2> SUFFICES ASSUME Inv, NEW s \in 0 .. (UINT64_MAX - 1)
               PROVE  /\ Cardinality(NodesAt(tree, s)) <= 1
                      /\ Cardinality(HeldAt(s)) = SumSet({tree[o].cnt : o \in NodesAt(tree, s)})
    BY Zenon DEF TreeExact, NodesAt
  <2>1. s \in Nat
    BY SMT, Consts
  <2>2. HeldAt(s) = HoldersAt(thr, s)
    BY Zenon, HoldingIs DEF HeldAt, HoldersAt
  <2>3. /\ Cardinality(NodesAt(tree, s)) <= 1
        /\ Cardinality(HoldersAt(thr, s)) = SumSet({tree[o].cnt : o \in NodesAt(tree, s)})
    BY Zenon, <2>1, ExactAt DEF Inv, TypeInv
  <2> QED
    BY Zenon, <2>2, <2>3
<1> QED
  BY <1>1, RangeInvariant, PTL

(* Whoever waits in zfs_range_lock_reader or zfs_range_lock_writer waits    *)
(* for a node that is in the tree, in the way, and flagged to wake it.      *)
THEOREM SleepersWoken == Spec => []SleepersBlocked
<1>1. Inv => SleepersBlocked
  BY Zenon DEF Inv, SleepInv, SleepOk, SleepersBlocked, At, Reads, Does, ReaderOp
<1> QED
  BY <1>1, RangeInvariant, PTL

(* zfs_range_reduce "asserts the whole file is exclusivly locked and so     *)
(* there's only one entry in the tree": it is so.                           *)
THEOREM ReducerAlone == Spec => []ReduceAlone
<1>1. Inv => ReduceAlone
  <2> SUFFICES ASSUME Inv, NEW t \in Threads, thr[t].pc = "reduce"
               PROVE  DOMAIN tree = {0} /\ Holding = {t}
    BY Zenon DEF ReduceAlone, At
  <2>1. PlaceOk(thr[t], blksz)
    BY Zenon DEF Inv, FileInv
  <2>2. thr[t].pc \notin Free /\ thr[t].len = UINT64_MAX /\ thr[t].op.do \in {"write", "append"}
    BY Zenon, <2>1 DEF PlaceOk, Free, Writing
  <2>3. ~ReaderOp(thr[t].op)
    BY Zenon, <2>2 DEF ReaderOp
  <2>4. DOMAIN tree = {0} /\ Holders(thr) = {t}
    BY Zenon, <2>2, <2>3, WholeLock
  <2> QED
    BY Zenon, <2>4, HoldingIs
<1> QED
  BY <1>1, RangeInvariant, PTL

(* The block zfs_get_data hands to dmu_sync is the one it locked, for as    *)
(* long as the write lasts: no zfs_grow_blocksize comes between.            *)
THEOREM BlockKept == Spec => []BlockStable
<1>1. Inv => BlockStable
  <2> SUFFICES ASSUME Inv, NEW t \in Threads, thr[t].pc = "sync"
               PROVE  blksz = thr[t].len /\ thr[t].op.off \in Sectors(thr[t].off, blksz)
    BY Zenon DEF BlockStable, At
  <2>1. PlaceOk(thr[t], blksz)
    BY Zenon DEF Inv, FileInv
  <2>2. thr[t].len = blksz /\ Fits(blksz, thr[t].op.off + 1) /\ thr[t].off = BlockOf(thr[t].op.off, blksz)
    BY Zenon, <2>1 DEF PlaceOk
  <2>3. thr[t].op.off \in 0 .. MAXOFFSET /\ blksz \in 1 .. SPA_MAXBLOCKSIZE
    BY Zenon, ThrIs DEF Inv, TypeInv
  <2>4. thr[t].op.off \in Nat /\ blksz \in Nat \ {0}
    BY SMT, <2>3, Consts
  <2>5. thr[t].op.off \in Sectors(BlockOf(thr[t].op.off, blksz), blksz)
    BY Zenon, <2>2, <2>4, BlockOfIs
  <2> QED
    BY Zenon, <2>2, <2>5
<1> QED
  BY <1>1, RangeInvariant, PTL

(* "to guarantee file append semantics": what zfs_write appends is not      *)
(* written over data.                                                       *)
THEOREM AppendsSafe == Spec => []AppendsKeepData
<1>1. Inv => AppendsKeepData
  BY Zenon DEF Inv, FileInv, AppendOk, AppendsKeepData, At, Does
<1> QED
  BY <1>1, RangeInvariant, PTL

(* A thread that waits in zfs_range_lock waits for one that does not: not   *)
(* all those inside a call sleep.                                           *)
HolderInTheWay ==
    \A t \in Threads : At(t, "asleep") =>
        \E u \in Holding : Meet(thr[t].off, thr[t].len, thr[u].off, thr[u].len)

(* The node a sleeper of cv_wait waits for is a lock that a thread has, in  *)
(* the sleeper's range, and that thread is awake.                           *)
THEOREM NoMutualWait == Spec => []HolderInTheWay
<1>1. Inv => HolderInTheWay
  <2> SUFFICES ASSUME Inv, NEW t \in Threads, thr[t].pc = "asleep"
               PROVE  \E u \in Holding : Meet(thr[t].off, thr[t].len, thr[u].off, thr[u].len)
    BY Zenon DEF HolderInTheWay, At
  <2>1. PICK o : o = thr[t].on
    BY Zenon
  <2>2. o \in DOMAIN tree /\ Meet(thr[t].off, thr[t].len, o, tree[o].len)
    BY Zenon, <2>1 DEF Inv, SleepInv, SleepOk
  <2>3. o \in Nat /\ tree[o].len \in Nat /\ o < End(tree, o)
    BY Zenon, <2>2, Ends DEF Inv, TypeInv
  <2>4. HoldersAt(thr, o) # {}
    <3>1. tree[o].cnt \in Nat \ {0} /\ tree[o].cnt = Cardinality(HoldersAt(thr, o))
      BY Zenon, <2>2, NodeFields DEF Inv, TypeInv, IsTree, LockInv, Counted
    <3>2. Cardinality(HoldersAt(thr, o)) # 0
      BY Zenon, <3>1
    <3> QED
      BY Zenon, <3>2, FS_EmptySet
  <2>5. PICK u : u \in HoldersAt(thr, o)
    BY Zenon, <2>4
  <2>6. u \in Holders(thr) /\ u \in Threads
    BY Zenon, <2>5 DEF HoldersAt, Holders
  <2>7. thr[u].off \in Nat /\ thr[u].len \in Nat /\ thr[t].off \in Nat /\ thr[t].len \in Nat
    BY Zenon, <2>6, ThrIs DEF Inv, TypeInv
  <2>8. thr[u].off <= o /\ o < LEnd(thr, u)
    BY Zenon, <2>3, <2>5, <2>6, HoldsIs DEF Inv, TypeInv
  <2>9. thr[u].off <= o /\ o + tree[o].len <= thr[u].off + thr[u].len
    <3>1. Meet(thr[u].off, thr[u].len, o, tree[o].len)
      BY SMT, <2>3, <2>7, <2>8 DEF Meet, End, LEnd
    <3> QED
      BY Zenon, <2>2, <2>6, <3>1 DEF Inv, LockInv, Aligned
  <2>10. Meet(thr[t].off, thr[t].len, thr[u].off, thr[u].len)
    BY SMT, <2>2, <2>3, <2>7, <2>9 DEF Meet
  <2> QED
    BY Zenon, <2>6, <2>10, HoldingIs
<1> QED
  BY <1>1, RangeInvariant, PTL
=============================================================================
