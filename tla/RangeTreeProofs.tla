-------------------------- MODULE RangeTreeProofs --------------------------
(***************************************************************************)
(* The inductive invariant of the range locks and of the file operations   *)
(* that rely on them, for any threads, calls, files and block sizes: what  *)
(* taking, splitting and releasing a lock do to the tree, and the steps    *)
(* that neither change the tree nor write data.  RangeLockProofs has the   *)
(* other steps and the theorems.                                           *)
(***************************************************************************)
EXTENDS RangeLock, FiniteSetTheorems, WellFoundedInduction, TLAPS

-----------------------------------------------------------------------------
(* The inductive invariants.                                               *)

Free == {"idle", "again", "lock", "asleep"}
Writing == {"reduce", "chunk", "size"}
Pcs == Free \cup Writing \cup {"held", "sync", "unlock"}
Dos == {"read", "get", "write", "append", "free", "extend", "trunc"}

OpType == [do : Dos \cup {"none"}, off : 0 .. MAXOFFSET, len : Nat]
ThrType == [pc : Pcs, op : OpType, off : Nat, len : Nat, woff : Nat, n : Nat, on : Nat]
NodeType == [len : Nat \ {0}, cnt : Nat \ {0}, type : {"reader", "writer"},
             owner : Threads \cup {Proxy}, wanted : SUBSET {"r", "w"}]

IsTree(T) == T = [o \in DOMAIN T |-> T[o]] /\ DOMAIN T \subseteq Nat
             /\ \A o \in DOMAIN T : T[o] \in NodeType

TypeInv ==
    /\ IsTree(tree) /\ thr \in [Threads -> ThrType]
    /\ size \in 0 .. MAXOFFSET /\ blksz \in 1 .. SPA_MAXBLOCKSIZE /\ data \subseteq Nat

(* The threads f that hold a lock, and those that hold one at a sector.    *)
Holders(f) == {t \in Threads : f[t].pc \notin Free}
HoldersAt(f, s) == {t \in Holders(f) : s \in Sectors(f[t].off, f[t].len)}
ReaderOp(op) == op.do \in {"read", "get"}

(* The nodes do not meet; a lock is made of whole nodes, all of its sectors *)
(* are in nodes, and a node counts those that have it; a node that is not   *)
(* a proxy is the lock of its owner, and that of a writer is never a proxy. *)
Disjoint(T) == \A o, p \in DOMAIN T : o < p => o + T[o].len <= p
Aligned(T, f) ==
    \A t \in Holders(f), o \in DOMAIN T :
        Meet(f[t].off, f[t].len, o, T[o].len)
          => f[t].off <= o /\ o + T[o].len <= f[t].off + f[t].len
Covered(T, f) ==
    \A t \in Holders(f) : \A s \in Sectors(f[t].off, f[t].len) :
        \E o \in DOMAIN T : s \in Sectors(o, T[o].len)
Counted(T, f) == \A o \in DOMAIN T : T[o].cnt = Cardinality(HoldersAt(f, o))
Owned(T, f) ==
    \A o \in DOMAIN T :
        /\ T[o].owner = Proxy => T[o].type = "reader"
        /\ T[o].owner # Proxy =>
             /\ T[o].owner \in Holders(f) /\ f[T[o].owner].off = o /\ f[T[o].owner].len = T[o].len
             /\ T[o].type = "writer" <=> ~ReaderOp(f[T[o].owner].op)
             /\ T[o].cnt = 1
WritersOwn(T, f) ==
    \A t \in Holders(f) : ~ReaderOp(f[t].op) => f[t].off \in DOMAIN T /\ T[f[t].off].owner = t

NonEmpty(f) == \A t \in Holders(f) : f[t].len # 0

LockInv(T, f) ==
    /\ Disjoint(T) /\ Aligned(T, f) /\ Covered(T, f) /\ Counted(T, f)
    /\ Owned(T, f) /\ WritersOwn(T, f) /\ NonEmpty(f)

(* A thread that sleeps, x being its state, is in the way of a node that will *)
(* wake it.                                                                   *)
SleepOk(T, x) ==
    x.pc = "asleep" =>
        /\ x.on \in DOMAIN T /\ Meet(x.off, x.len, x.on, T[x.on].len)
        /\ IF ReaderOp(x.op) THEN "r" \in T[x.on].wanted
                                  /\ (T[x.on].type = "writer" \/ "w" \in T[x.on].wanted)
           ELSE "w" \in T[x.on].wanted
SleepInv(T, f) == \A t \in Threads : SleepOk(T, f[t])

(* What a thread is doing, b being the block size: it has the lock it needs. *)
BlockOf(off, b) == IF ISP2(b) THEN off - (off % b) ELSE 0
Fits(b, end) == ISP2(b) \/ end <= b
PlaceOk(x, b) ==
    /\ x.pc # "idle" => x.op.do # "none" /\ x.op.len \in 1 .. (UINT64_MAX - 1)
    /\ x.pc \in {"again", "sync"} => x.op.do = "get"
    /\ x.pc \in Writing => x.op.do \in {"write", "append"}
    /\ x.pc \notin {"idle", "again"} => x.off <= MAXOFFSET /\ x.len >= 1
    /\ x.op.do = "get" /\ x.pc \in {"lock", "asleep", "held", "sync"} => x.off = BlockOf(x.op.off, x.len)
    /\ x.pc \notin Free /\ ~ReaderOp(x.op) /\ x.len = UINT64_MAX => x.off = 0
    /\ x.pc = "held" /\ x.op.do \in {"extend", "trunc"} => x.len = UINT64_MAX
    /\ x.pc = "held" /\ x.op.do \in {"write", "append"} /\ x.len # UINT64_MAX
         => x.len = x.op.len /\ (x.op.do = "write" => x.off = x.op.off) /\ Fits(b, x.off + x.len)
    /\ x.pc \in Writing => x.n \in 1 .. x.op.len /\ x.woff + x.n <= MAXOFFSET
    /\ x.pc = "reduce" => x.len = UINT64_MAX
    /\ x.pc = "size" => x.len # UINT64_MAX
    /\ x.pc \in Writing /\ x.len # UINT64_MAX
         => x.off <= x.woff /\ x.woff + x.n <= x.off + x.len
    /\ x.pc \in Writing /\ (x.len # UINT64_MAX \/ x.pc = "reduce") => Fits(b, x.woff + x.n)
    /\ x.pc = "sync" => x.len = b /\ Fits(b, x.op.off + 1)

(* Where an append has yet to write, there is no data D.                   *)
ChunkOf(x) == Min({x.n, z_max_blksz - (x.woff % z_max_blksz)})
AppendOk(x, D) ==
    x.op.do = "append" =>
        /\ x.pc = "held" /\ x.len # UINT64_MAX => Sectors(x.off, x.len) \cap D = {}
        /\ x.pc \in {"chunk", "reduce"} => Sectors(x.woff, x.n) \cap D = {}
        /\ x.pc = "size" => Sectors(x.woff + ChunkOf(x), x.n - ChunkOf(x)) \cap D = {}

(* The sectors written are below the size z, or about to be.               *)
InSize(f, z, s) ==
    s < z \/ \E t \in Threads : f[t].pc = "size" /\ s \in Sectors(f[t].woff, ChunkOf(f[t]))

FileInv(f, z, b, D) ==
    /\ Fits(b, z) /\ \A s \in D : InSize(f, z, s)
    /\ \A t \in Threads : PlaceOk(f[t], b) /\ AppendOk(f[t], D)

Inv == TypeInv /\ LockInv(tree, thr) /\ SleepInv(tree, thr) /\ FileInv(thr, size, blksz, data)

-----------------------------------------------------------------------------
(* The operators on sets of numbers.                                       *)

LEMMA Minimum ==
    ASSUME NEW S, S \subseteq Nat, S # {}
    PROVE  Min(S) \in S /\ \A y \in S : Min(S) <= y
<1>1. \E x \in S : \A y \in S : ~(<<y, x>> \in OpToRel(<, Nat))
  BY Zenon, WFMin, NatLessThanWellFounded
<1>2. PICK x \in S : \A y \in S : ~(<<y, x>> \in OpToRel(<, Nat))
  BY Zenon, <1>1
<1>3. ASSUME NEW y \in S PROVE x =< y
  <2>1. ~(<<y, x>> \in OpToRel(<, Nat)) /\ x \in Nat /\ y \in Nat
    BY Zenon, <1>2
  <2> QED
    BY SMT, <2>1 DEF OpToRel
<1> QED
  BY Zenon, <1>3 DEF Min

LEMMA MinTwo ==
    ASSUME NEW a \in Nat, NEW b \in Nat
    PROVE  Min({a, b}) = IF a <= b THEN a ELSE b
<1>1. \E x \in {a, b} : \A y \in {a, b} : x =< y
  BY SMT
<1>2. Min({a, b}) \in {a, b} /\ \A y \in {a, b} : Min({a, b}) =< y
  BY Zenon, <1>1 DEF Min
<1> QED
  BY SMT, <1>2

LEMMA MaxTwo ==
    ASSUME NEW a \in Nat, NEW b \in Nat
    PROVE  Max({a, b}) = IF a >= b THEN a ELSE b
<1>1. \E x \in {a, b} : \A y \in {a, b} : x >= y
  BY SMT
<1>2. Max({a, b}) \in {a, b} /\ \A y \in {a, b} : Max({a, b}) >= y
  BY Zenon, <1>1 DEF Max
<1> QED
  BY SMT, <1>2

(* A set of numbers up to s has a last one.                                *)
LEMMA LastUpTo ==
    ASSUME NEW S, S \subseteq Nat, S # {}, NEW s \in Nat, \A x \in S : x <= s
    PROVE  \E x \in S : \A y \in S : y <= x
<1> DEFINE R == {s - x : x \in S}
<1>1. R \subseteq Nat /\ R # {}
  <2>1. ASSUME NEW x \in S PROVE s - x \in Nat
    BY SMT
  <2> QED
    BY Zenon, <2>1
<1>2. Min(R) \in R /\ \A y \in R : Min(R) <= y
  <2> HIDE DEF R
  <2> QED
    BY Zenon, <1>1, Minimum
<1>3. PICK x \in S : Min(R) = s - x
  BY Zenon, <1>2
<1>4. ASSUME NEW y \in S PROVE y <= x
  <2>1. s - y \in R
    BY Zenon
  <2>2. s - x <= s - y
    BY Zenon, <1>2, <1>3, <2>1
  <2> QED
    BY SMT, <2>2
<1> QED
  BY Zenon, <1>4

(* The sum of no value, and of one.                                        *)
PickOf(s) == CHOOSE x \in s : TRUE
SumStep(S, h) == [s \in SUBSET S |-> IF s = {} THEN 0 ELSE PickOf(s) + h[s \ {PickOf(s)}]]
Sums(S) == CHOOSE h : h = SumStep(S, h)

LEMMA SumSetIs == ASSUME NEW S PROVE SumSet(S) = Sums(S)[S]
BY Zenon DEF SumSet, FoldSet, MapThenFoldSet, Sums, SumStep, PickOf

LEMMA SumNone == SumSet({}) = 0
<1> DEFINE g == [s \in SUBSET {} |-> 0]
<1>1. g = SumStep({}, g)
  BY Zenon DEF SumStep
<1>2. Sums({}) = SumStep({}, Sums({}))
  BY Zenon, <1>1 DEF Sums
<1>3. SumStep({}, Sums({}))[{}] = 0
  BY Zenon DEF SumStep
<1> QED
  BY Zenon, <1>2, <1>3, SumSetIs

LEMMA SumOne == ASSUME NEW x \in Nat PROVE SumSet({x}) = x
<1> DEFINE g == [s \in SUBSET {x} |-> IF s = {} THEN 0 ELSE x]
<1>0. PickOf({x}) = x /\ {x} \ {x} = {} /\ {} \in SUBSET {x} /\ {x} \in SUBSET {x} /\ {x} # {}
  BY Zenon DEF PickOf
<1>1. g = SumStep({x}, g)
  <2>1. ASSUME NEW s \in SUBSET {x}
        PROVE  g[s] = IF s = {} THEN 0 ELSE PickOf(s) + g[s \ {PickOf(s)}]
    <3>1. CASE s = {}
      BY Zenon, <3>1
    <3>2. CASE s # {}
      <4>1. s = {x}
        BY Zenon, <3>2
      <4>2. g[s \ {PickOf(s)}] = 0 /\ g[s] = x
        BY Zenon, <1>0, <4>1
      <4>3. x = x + 0
        BY SMT
      <4> HIDE DEF g
      <4> QED
        BY Zenon, <1>0, <3>2, <4>1, <4>2, <4>3
    <3> QED
      BY Zenon, <3>1, <3>2
  <2>2. g = [s \in SUBSET {x} |-> g[s]]
    BY Zenon
  <2> HIDE DEF g
  <2> QED
    BY Zenon, <2>1, <2>2 DEF SumStep
<1>2. PICK h : h = Sums({x})
  BY Zenon
<1>3. h = SumStep({x}, h)
  BY Zenon, <1>1, <1>2 DEF Sums
<1>4. h[{}] = 0
  <2>1. SumStep({x}, h)[{}] = 0
    BY Zenon, <1>0 DEF SumStep
  <2> QED
    BY Zenon, <1>3, <2>1
<1>5. h[{x}] = x + h[{}]
  <2>1. SumStep({x}, h)[{x}] = x + h[{}]
    BY Zenon, <1>0 DEF SumStep
  <2> QED
    BY Zenon, <1>3, <2>1
<1>6. h[{x}] = x
  BY SMT, <1>4, <1>5
<1> QED
  BY Zenon, <1>2, <1>6, SumSetIs

-----------------------------------------------------------------------------
(* Where a reader's lock cuts the tree.  Over are the nodes T that meet the *)
(* range, CutsOf the ends of the range and of those nodes.                  *)

End(T, o) == o + T[o].len
Over(T, off, len) == {o \in DOMAIN T : Meet(off, len, o, T[o].len)}
CutsOf(T, off, len) ==
    {off, off + len} \cup Over(T, off, len) \cup {o + T[o].len : o \in Over(T, off, len)}

(* Between two cuts a, b that follow each other a node of the range, and the *)
(* range itself, have all or nothing, and other nodes nothing.               *)
Piece(T, off, len, a, b) ==
    /\ a \in Nat /\ b \in Nat /\ a < b
    /\ \A o \in Over(T, off, len) : a < End(T, o) /\ o < b => o <= a /\ b <= End(T, o)
    /\ a < off + len /\ off < b => off <= a /\ b <= off + len
    /\ \A o \in DOMAIN T \ Over(T, off, len) : ~(a < End(T, o) /\ o < b)
    /\ (off <= a /\ b <= off + len) \/ \E o \in Over(T, off, len) : o <= a /\ b <= End(T, o)

LEMMA Ends ==
    ASSUME NEW T, IsTree(T), NEW o \in DOMAIN T
    PROVE  o \in Nat /\ T[o].len \in Nat /\ End(T, o) \in Nat /\ o < End(T, o)
<1>1. o \in Nat /\ T[o] \in NodeType
  BY Zenon DEF IsTree
<1>2. T[o].len \in Nat \ {0}
  BY SMT, <1>1 DEF NodeType
<1> QED
  BY SMT, <1>1, <1>2 DEF End

IsNode(y, l, n, ty, ow, w) ==
    y \in NodeType /\ y.len = l /\ y.cnt = n /\ y.type = ty /\ y.owner = ow /\ y.wanted = w

LEMMA NodeIs ==
    ASSUME NEW l \in Nat \ {0}, NEW n \in Nat \ {0}, NEW ty \in {"reader", "writer"},
           NEW ow \in Threads \cup {Proxy}, NEW w \in SUBSET {"r", "w"}
    PROVE  IsNode([len |-> l, cnt |-> n, type |-> ty, owner |-> ow, wanted |-> w], l, n, ty, ow, w)
BY SMT DEF NodeType, IsNode

LEMMA OverIs ==
    ASSUME NEW T, NEW off, NEW len, NEW o
    PROVE  o \in Over(T, off, len) <=> o \in DOMAIN T /\ off < End(T, o) /\ o < off + len
BY Zenon DEF Over, Meet, End

HasLast(T, off, len, C) ==
    /\ C \subseteq Nat /\ Max(C) \in C /\ \A c \in C : c <= Max(C)
    /\ Max(C) = off + len \/ \E o \in Over(T, off, len) : Max(C) = End(T, o)

LEMMA CutsLast ==
    ASSUME NEW T, IsTree(T), Disjoint(T), NEW off \in Nat, NEW len \in Nat \ {0},
           NEW C, C = CutsOf(T, off, len)
    PROVE  HasLast(T, off, len, C)
<1> DEFINE O == Over(T, off, len)
<1>1. ASSUME NEW o \in O
      PROVE  o \in DOMAIN T /\ o \in Nat /\ End(T, o) \in Nat /\ o < End(T, o)
             /\ off < End(T, o) /\ o < off + len
  BY Zenon, OverIs, Ends
<1>2. ASSUME NEW o \in O, NEW p \in O, o < p PROVE End(T, o) <= p
  BY Zenon, <1>1, <1>2 DEF Disjoint, End
<1>3. \A c \in C : c = off \/ c = off + len \/ c \in O \/ \E o \in O : c = End(T, o)
  BY Zenon DEF CutsOf, End
<1>4. off + len \in C /\ \A o \in O : End(T, o) \in C
  BY Zenon DEF CutsOf, End
<1> HIDE DEF O
<1>5. C \subseteq Nat
  <2>1. ASSUME NEW c \in C PROVE c \in Nat
    <3>1. off \in Nat /\ off + len \in Nat
      BY SMT
    <3> QED
      BY Zenon, <1>1, <1>3, <3>1
  <2> QED
    BY Zenon, <2>1
<1>6. \E e \in C : (\A c \in C : e >= c) /\ (e = off + len \/ \E o \in O : e = End(T, o))
  <2>1. CASE \E o \in O : End(T, o) > off + len
    <3>1. PICK o \in O : End(T, o) > off + len
      BY Zenon, <2>1
    <3>2. ASSUME NEW p \in O PROVE End(T, o) >= End(T, p) /\ End(T, o) >= p
      BY SMT, <1>1, <1>2, <3>1
    <3>3. ASSUME NEW c \in C PROVE End(T, o) >= c
      <4>1. End(T, o) >= off + len /\ End(T, o) >= off
        BY SMT, <1>1, <3>1
      <4> QED
        BY Zenon, <1>3, <3>2, <4>1
    <3> QED
      BY Zenon, <1>4, <3>3
  <2>2. CASE \A o \in O : ~(End(T, o) > off + len)
    <3>1. ASSUME NEW o \in O PROVE off + len >= End(T, o) /\ off + len >= o
      BY SMT, <1>1, <2>2
    <3>2. off + len >= off /\ off + len >= off + len
      BY SMT
    <3> QED
      BY Zenon, <1>3, <1>4, <3>1, <3>2
  <2> QED
    BY Zenon, <2>1, <2>2
<1>7. PICK m : m = Max(C)
  BY Zenon
<1>8. m \in C /\ \A c \in C : m >= c
  BY Zenon, <1>6, <1>7 DEF Max
<1>9. m = off + len \/ \E o \in O : m = End(T, o)
  <2>1. PICK e \in C : (\A c \in C : e >= c) /\ (e = off + len \/ \E o \in O : e = End(T, o))
    BY Zenon, <1>6
  <2>2. m >= e /\ e >= m /\ m \in Nat /\ e \in Nat
    BY Zenon, <1>5, <1>8, <2>1
  <2>3. m = e
    BY SMT, <2>2
  <2> QED
    BY Zenon, <2>1, <2>3
<1>10. \A c \in C : c <= m
  BY SMT, <1>5, <1>8
<1> QED
  BY Zenon, <1>5, <1>7, <1>8, <1>9, <1>10 DEF O, HasLast

(* The cut after a.                                                        *)
After(C, a) == Min({c \in C : c > a})

LEMMA AfterIs ==
    ASSUME NEW C, C \subseteq Nat, Max(C) \in C, \A c \in C : c <= Max(C),
           NEW a \in C, a # Max(C)
    PROVE  After(C, a) \in C /\ a < After(C, a) /\ \A c \in C : c > a => After(C, a) <= c
<1> DEFINE S == {c \in C : c > a}
<1>1. Max(C) > a
  <2>1. a <= Max(C) /\ a \in Nat /\ Max(C) \in Nat
    BY Zenon
  <2> QED
    BY SMT, <2>1
<1>2. S \subseteq Nat /\ S # {}
  BY Zenon, <1>1
<1>3. Min(S) \in S /\ \A c \in S : Min(S) <= c
  <2> HIDE DEF S
  <2> QED
    BY Zenon, <1>2, Minimum
<1>4. Min(S) > a /\ Min(S) \in C /\ \A c \in C : c > a => Min(S) <= c
  BY Zenon, <1>3
<1>5. PICK b : b = Min(S)
  BY Zenon
<1>6. b > a /\ b \in Nat /\ a \in Nat
  BY Zenon, <1>4, <1>5
<1>7. a < b
  BY SMT, <1>6
<1>8. After(C, a) = Min(S)
  BY Zenon DEF After
<1> HIDE DEF S
<1> QED
  BY Zenon, <1>4, <1>5, <1>7, <1>8

LEMMA Pieces ==
    ASSUME NEW T, IsTree(T), Disjoint(T), NEW off \in Nat, NEW len \in Nat \ {0},
           NEW C, C = CutsOf(T, off, len), NEW a \in C, a # Max(C), NEW b, b = After(C, a)
    PROVE  Piece(T, off, len, a, b)
<1> DEFINE O == Over(T, off, len)
<1>1. ASSUME NEW o \in O
      PROVE  o \in DOMAIN T /\ o \in Nat /\ End(T, o) \in Nat /\ o < End(T, o)
             /\ off < End(T, o) /\ o < off + len /\ o \in C /\ End(T, o) \in C
  <2>1. o \in C /\ End(T, o) \in C
    BY Zenon DEF CutsOf, End
  <2> QED
    BY Zenon, OverIs, Ends, <2>1
<1>2. ASSUME NEW o \in DOMAIN T \ O
      PROVE  o \in Nat /\ End(T, o) \in Nat /\ o < End(T, o) /\ ~(off < End(T, o) /\ o < off + len)
  BY Zenon, OverIs, Ends
<1>3. ASSUME NEW o \in DOMAIN T, NEW p \in DOMAIN T, o < p PROVE End(T, o) <= p
  BY Zenon, <1>3 DEF Disjoint, End
<1>4. \A c \in C : c = off \/ c = off + len \/ c \in O \/ \E o \in O : c = End(T, o)
  BY Zenon DEF CutsOf, End
<1>5. off \in C /\ off + len \in C
  BY Zenon DEF CutsOf
<1>6. /\ C \subseteq Nat /\ Max(C) \in C /\ \A c \in C : c <= Max(C)
      /\ Max(C) = off + len \/ \E o \in O : Max(C) = End(T, o)
  <2>1. HasLast(T, off, len, C)
    BY Zenon, CutsLast
  <2> QED
    BY Zenon, <2>1 DEF HasLast
<1> HIDE DEF O
<1>7. b \in C /\ a < b /\ \A c \in C : c > a => b <= c
  BY Zenon, <1>6, AfterIs
<1>8. a \in Nat /\ b \in Nat /\ off + len \in Nat
  BY Zenon, <1>5, <1>6, <1>7
<1>9. ASSUME NEW c \in C PROVE c <= a \/ b <= c
  <2>1. c \in Nat /\ (c > a => b <= c)
    BY Zenon, <1>6, <1>7
  <2> QED
    BY SMT, <1>8, <2>1
<1>10. ASSUME NEW o \in O, a < End(T, o), o < b PROVE o <= a /\ b <= End(T, o)
  <2>1. (o <= a \/ b <= o) /\ (End(T, o) <= a \/ b <= End(T, o)) /\ o \in Nat /\ End(T, o) \in Nat
    BY Zenon, <1>1, <1>9
  <2> QED
    BY SMT, <1>8, <1>10, <2>1
<1>11. ASSUME a < off + len, off < b PROVE off <= a /\ b <= off + len
  <2>1. (off <= a \/ b <= off) /\ (off + len <= a \/ b <= off + len)
    BY Zenon, <1>5, <1>9
  <2> QED
    BY SMT, <1>8, <1>11, <2>1
<1>12. ASSUME a < off PROVE a \in O /\ b <= off /\ b <= End(T, a)
  <2>1. a \in O
    <3>1. ASSUME NEW o \in O PROVE a # End(T, o)
      BY SMT, <1>1, <1>8, <1>12
    <3>2. a # off /\ a # off + len
      BY SMT, <1>8, <1>12
    <3> QED
      BY Zenon, <1>4, <3>1, <3>2
  <2>2. (off <= a \/ b <= off) /\ (End(T, a) <= a \/ b <= End(T, a)) /\ a < End(T, a) /\ End(T, a) \in Nat
    BY Zenon, <1>1, <1>5, <1>9, <2>1
  <2> QED
    BY SMT, <1>8, <1>12, <2>1, <2>2
<1>13. ASSUME off + len <= a PROVE \E o \in O : o < off + len /\ b <= End(T, o)
  <2>1. Max(C) # off + len
    <3>1. Max(C) \in Nat /\ a <= Max(C)
      BY Zenon, <1>6
    <3> QED
      BY SMT, <1>8, <1>13, <3>1
  <2>2. PICK o \in O : Max(C) = End(T, o)
    BY Zenon, <1>6, <2>1
  <2>3. b <= End(T, o)
    BY Zenon, <1>6, <1>7, <2>2
  <2> QED
    BY Zenon, <1>1, <2>3
<1>14. ASSUME NEW p \in DOMAIN T \ O, a < End(T, p), p < b PROVE FALSE
  <2>1. p \in DOMAIN T /\ p \in Nat /\ End(T, p) \in Nat /\ p < End(T, p) /\ p \notin O
        /\ ~(off < End(T, p) /\ p < off + len)
    BY Zenon, <1>2
  <2>2. CASE End(T, p) <= off
    <3>1. a < off
      BY SMT, <1>8, <1>14, <2>1, <2>2
    <3>2. a \in O /\ b <= off /\ b <= End(T, a)
      BY Zenon, <1>12, <3>1
    <3>3. a \in DOMAIN T /\ (a < p => End(T, a) <= p) /\ (p < a => End(T, p) <= a) /\ End(T, a) \in Nat
      BY Zenon, <1>1, <1>3, <2>1, <3>2
    <3>4. a = p
      BY SMT, <1>8, <1>14, <2>1, <3>2, <3>3
    <3> QED
      BY Zenon, <2>1, <3>2, <3>4
  <2>3. CASE off + len <= p
    <3>1. off + len <= a
      <4>1. off + len <= a \/ b <= off + len
        BY Zenon, <1>5, <1>9
      <4> QED
        BY SMT, <1>8, <1>14, <2>1, <2>3, <4>1
    <3>2. PICK o \in O : o < off + len /\ b <= End(T, o)
      BY Zenon, <1>13, <3>1
    <3>3. o \in Nat /\ End(T, o) \in Nat /\ (o < p => End(T, o) <= p)
      BY Zenon, <1>1, <1>3, <2>1
    <3> QED
      BY SMT, <1>8, <1>14, <2>1, <2>3, <3>2, <3>3
  <2> QED
    BY SMT, <1>8, <2>1, <2>2, <2>3
<1>15. (off <= a /\ b <= off + len) \/ \E o \in O : o <= a /\ b <= End(T, o)
  <2>1. CASE a < off
    <3>1. a <= a
      BY SMT, <1>8
    <3> QED
      BY Zenon, <1>12, <2>1, <3>1
  <2>2. CASE off + len <= a
    <3>1. PICK o \in O : o < off + len /\ b <= End(T, o)
      BY Zenon, <1>13, <2>2
    <3>2. o <= a
      BY SMT, <1>1, <1>8, <2>2, <3>1
    <3> QED
      BY Zenon, <3>1, <3>2
  <2>3. CASE off <= a /\ a < off + len
    <3>1. off < b
      BY SMT, <1>7, <1>8, <2>3
    <3> QED
      BY Zenon, <1>11, <2>3, <3>1
  <2> QED
    BY SMT, <1>8, <2>1, <2>2, <2>3
<1> QED
  BY Zenon, <1>7, <1>8, <1>10, <1>11, <1>14, <1>15 DEF Piece, O

(* Every sector of the range, and of the nodes it meets, is between cuts.  *)
LEMMA PieceAt ==
    ASSUME NEW T, IsTree(T), Disjoint(T), NEW off \in Nat, NEW len \in Nat \ {0},
           NEW C, C = CutsOf(T, off, len), NEW s \in Nat,
           \/ off <= s /\ s < off + len
           \/ \E o \in Over(T, off, len) : o <= s /\ s < End(T, o)
    PROVE  \E a \in C : a # Max(C) /\ a <= s /\ s < After(C, a)
<1>1. HasLast(T, off, len, C)
  BY Zenon, CutsLast
<1>2. C \subseteq Nat /\ Max(C) \in C /\ \A c \in C : c <= Max(C)
  BY Zenon, <1>1 DEF HasLast
<1>3. \E c \in C : c <= s
  BY Zenon DEF CutsOf
<1>4. \E d \in C : s < d
  BY Zenon DEF CutsOf, End
<1> DEFINE S == {c \in C : c <= s}
<1>5. S \subseteq Nat /\ S # {} /\ \A c \in S : c <= s
  BY Zenon, <1>2, <1>3
<1>6. PICK a \in S : \A c \in S : c <= a
  <2> HIDE DEF S
  <2> QED
    BY Zenon, <1>5, LastUpTo
<1>7. a \in C /\ a <= s /\ \A c \in C : c <= s => c <= a
  BY Zenon, <1>6
<1>8. a # Max(C)
  <2>1. PICK d \in C : s < d
    BY Zenon, <1>4
  <2>2. d <= Max(C) /\ d \in Nat /\ Max(C) \in Nat /\ a \in Nat
    BY Zenon, <1>2, <1>7
  <2> QED
    BY SMT, <1>7, <2>1, <2>2
<1>9. PICK b : b = After(C, a)
  BY Zenon
<1>10. b \in C /\ a < b
  BY Zenon, <1>2, <1>7, <1>8, <1>9, AfterIs
<1>11. a \in Nat /\ b \in Nat /\ (b <= s => b <= a)
  BY Zenon, <1>2, <1>7, <1>10
<1>12. s < b
  BY SMT, <1>10, <1>11
<1> QED
  BY Zenon, <1>7, <1>8, <1>9, <1>12

-----------------------------------------------------------------------------
(* The holders of a sector.                                                *)

LEnd(f, t) == f[t].off + f[t].len

LEMMA ThrIs ==
    ASSUME NEW f \in [Threads -> ThrType], NEW t \in Threads
    PROVE  /\ f[t].off \in Nat /\ f[t].len \in Nat /\ LEnd(f, t) \in Nat /\ f[t].woff \in Nat /\ f[t].n \in Nat
           /\ f[t].op.off \in 0 .. MAXOFFSET /\ f[t].op.len \in Nat /\ f[t].pc \in Pcs
<1>1. f[t] \in ThrType
  BY Zenon
<1>2. f[t].off \in Nat /\ f[t].len \in Nat /\ f[t].woff \in Nat /\ f[t].n \in Nat /\ f[t].pc \in Pcs
  BY SMT, <1>1 DEF ThrType
<1>3. f[t].op.off \in 0 .. MAXOFFSET /\ f[t].op.len \in Nat
  <2>1. f[t].op \in OpType
    BY SMT, <1>1 DEF ThrType
  <2> QED
    BY SMT, <2>1 DEF OpType
<1>4. LEnd(f, t) \in Nat
  BY SMT, <1>2 DEF LEnd
<1> QED
  BY Zenon, <1>2, <1>3, <1>4

LEMMA HoldsIs ==
    ASSUME NEW f \in [Threads -> ThrType], NEW s \in Nat, NEW t \in Holders(f)
    PROVE  t \in HoldersAt(f, s) <=> f[t].off <= s /\ s < LEnd(f, t)
<1>1. t \in Threads
  BY Zenon DEF Holders
<1>2. f[t].off \in Nat /\ f[t].len \in Nat
  BY Zenon, <1>1, ThrIs
<1>3. s \in Sectors(f[t].off, f[t].len) <=> f[t].off <= s /\ s < LEnd(f, t)
  BY SMT, <1>2 DEF Sectors, LEnd
<1> QED
  BY Zenon, <1>3 DEF HoldersAt

LEMMA HoldersFinite ==
    ASSUME NEW f, NEW s
    PROVE  IsFiniteSet(HoldersAt(f, s)) /\ Cardinality(HoldersAt(f, s)) \in Nat
<1>1. HoldersAt(f, s) \in SUBSET Threads
  BY Zenon DEF HoldersAt, Holders
<1>2. IsFiniteSet(HoldersAt(f, s))
  BY Zenon, <1>1, FS_Subset, ThreadsAssumption
<1> QED
  BY Zenon, <1>2, FS_CardinalityType

(* A lock that has one sector of a node has the node.                      *)
LEMMA NodeHolders ==
    ASSUME NEW T, IsTree(T), NEW f \in [Threads -> ThrType], Aligned(T, f),
           NEW o \in DOMAIN T, NEW s \in Nat, o <= s, s < End(T, o)
    PROVE  HoldersAt(f, s) = HoldersAt(f, o)
<1>1. o \in Nat /\ End(T, o) \in Nat /\ o < End(T, o)
  BY Zenon, Ends
<1>2. ASSUME NEW t \in Holders(f)
      PROVE  (f[t].off <= s /\ s < LEnd(f, t)) <=> (f[t].off <= o /\ o < LEnd(f, t))
  <2>1. f[t].off \in Nat /\ LEnd(f, t) \in Nat
    BY Zenon, ThrIs DEF Holders
  <2>2. f[t].off < End(T, o) /\ o < LEnd(f, t) => f[t].off <= o /\ End(T, o) <= LEnd(f, t)
    BY Zenon DEF Aligned, Meet, End, LEnd
  <2> QED
    BY SMT, <1>1, <2>1, <2>2
<1>3. ASSUME NEW t \in Holders(f) PROVE t \in HoldersAt(f, s) <=> t \in HoldersAt(f, o)
  BY Zenon, <1>1, <1>2, HoldsIs
<1>4. HoldersAt(f, s) \subseteq Holders(f) /\ HoldersAt(f, o) \subseteq Holders(f)
  BY Zenon DEF HoldersAt
<1> QED
  BY Zenon, <1>3, <1>4

(* What zfs_range_add_reader counts between two cuts.                      *)
CntAt(T, off, len, a) ==
    (IF a \in Sectors(off, len) THEN 1 ELSE 0)
    + SumSet({T[o].cnt : o \in {b \in Over(T, off, len) : a \in Sectors(b, T[b].len)}})

CntOk(T, f, off, len, a, b) ==
    /\ CntAt(T, off, len, a) \in Nat \ {0}
    /\ off <= a /\ b <= off + len => CntAt(T, off, len, a) = Cardinality(HoldersAt(f, a)) + 1
    /\ ~(off <= a /\ b <= off + len) => CntAt(T, off, len, a) = Cardinality(HoldersAt(f, a))

LEMMA CntIs ==
    ASSUME NEW T, IsTree(T), NEW f \in [Threads -> ThrType], LockInv(T, f),
           NEW off \in Nat, NEW len \in Nat \ {0}, NEW a, NEW b, Piece(T, off, len, a, b)
    PROVE  CntOk(T, f, off, len, a, b)
<1> DEFINE O == Over(T, off, len)
           B == {o \in O : a \in Sectors(o, T[o].len)}
<1>1. a \in Nat /\ b \in Nat /\ a < b
  BY Zenon DEF Piece
<1>2. ASSUME NEW o \in O
      PROVE  o \in DOMAIN T /\ o \in Nat /\ End(T, o) \in Nat /\ (o \in B <=> o <= a /\ a < End(T, o))
  <2>1. o \in DOMAIN T /\ o \in Nat /\ End(T, o) \in Nat /\ T[o].len \in Nat
    BY Zenon, OverIs, Ends
  <2>2. a \in Sectors(o, T[o].len) <=> o <= a /\ a < End(T, o)
    BY SMT, <1>1, <2>1 DEF Sectors, End
  <2> QED
    BY Zenon, <2>1, <2>2
<1>3. a \in Sectors(off, len) <=> off <= a /\ b <= off + len
  <2>1. a < off + len /\ off < b => off <= a /\ b <= off + len
    BY Zenon DEF Piece
  <2> QED
    BY SMT, <1>1, <2>1 DEF Sectors
<1>4. PICK c : c = SumSet({T[o].cnt : o \in B})
  BY Zenon
<1>5. CntAt(T, off, len, a) = (IF a \in Sectors(off, len) THEN 1 ELSE 0) + c
  BY Zenon, <1>4 DEF CntAt
<1> HIDE DEF B
<1>6. CASE B # {}
  <2>1. PICK o : o \in B
    BY Zenon, <1>6
  <2>2. o \in O
    BY Zenon, <2>1 DEF B
  <2>3. B = {o}
    <3>1. ASSUME NEW p \in B PROVE p = o
      <4>1. p \in O
        BY Zenon DEF B
      <4>2. /\ o \in DOMAIN T /\ o \in Nat /\ End(T, o) \in Nat /\ o <= a /\ a < End(T, o)
            /\ p \in DOMAIN T /\ p \in Nat /\ End(T, p) \in Nat /\ p <= a /\ a < End(T, p)
        BY Zenon, <1>2, <2>1, <2>2, <4>1
      <4>3. (o < p => End(T, o) <= p) /\ (p < o => End(T, p) <= o)
        BY Zenon, <4>2 DEF LockInv, Disjoint, End
      <4> QED
        BY SMT, <1>1, <4>2, <4>3
    <3> QED
      BY Zenon, <2>1, <3>1
  <2>4. {T[p].cnt : p \in B} = {T[o].cnt}
    BY Zenon, <2>3
  <2>5. o \in DOMAIN T /\ o <= a /\ a < End(T, o)
    BY Zenon, <1>2, <2>1, <2>2
  <2>6. T[o].cnt \in Nat \ {0}
    <3>1. T[o] \in NodeType
      BY Zenon, <2>5 DEF IsTree
    <3> QED
      BY SMT, <3>1 DEF NodeType
  <2>7. T[o].cnt \in Nat
    BY Zenon, <2>6
  <2>8. c = T[o].cnt
    BY Zenon, <1>4, <2>4, <2>7, SumOne
  <2>9. HoldersAt(f, a) = HoldersAt(f, o) /\ T[o].cnt = Cardinality(HoldersAt(f, o))
    <3>1. Aligned(T, f) /\ Counted(T, f)
      BY Zenon DEF LockInv
    <3>2. T[o].cnt = Cardinality(HoldersAt(f, o))
      BY Zenon, <2>5, <3>1 DEF Counted
    <3>3. HoldersAt(f, a) = HoldersAt(f, o)
      BY Zenon, <1>1, <2>5, <3>1, NodeHolders
    <3> QED
      BY Zenon, <3>2, <3>3
  <2>10. c = Cardinality(HoldersAt(f, a)) /\ c \in Nat \ {0}
    BY Zenon, <2>6, <2>8, <2>9
  <2> QED
    BY SMT, <1>3, <1>5, <2>10 DEF CntOk
<1>7. CASE B = {}
  <2>1. {T[p].cnt : p \in B} = {}
    BY Zenon, <1>7
  <2>2. c = 0
    BY Zenon, <1>4, <2>1, SumNone
  <2>3. HoldersAt(f, a) = {}
    <3>1. ASSUME NEW t \in HoldersAt(f, a) PROVE FALSE
      <4>1. t \in Holders(f) /\ a \in Sectors(f[t].off, f[t].len)
        BY Zenon DEF HoldersAt
      <4>2. PICK p \in DOMAIN T : a \in Sectors(p, T[p].len)
        BY Zenon, <4>1 DEF LockInv, Covered
      <4>3. p \notin O
        BY Zenon, <1>7, <4>2 DEF B
      <4>4. ~(a < End(T, p) /\ p < b)
        BY Zenon, <4>3 DEF Piece
      <4>5. p \in Nat /\ T[p].len \in Nat
        BY Zenon, Ends
      <4> QED
        BY SMT, <1>1, <4>2, <4>4, <4>5 DEF Sectors, End
    <3> QED
      BY Zenon, <3>1
  <2>4. Cardinality(HoldersAt(f, a)) = 0
    BY Zenon, <2>3, FS_EmptySet
  <2>5. off <= a /\ b <= off + len
    <3>1. ASSUME NEW o \in O, o <= a, b <= End(T, o) PROVE FALSE
      <4>1. o \in Nat /\ End(T, o) \in Nat /\ ~(o <= a /\ a < End(T, o))
        BY Zenon, <1>2, <1>7
      <4> QED
        BY SMT, <1>1, <3>1, <4>1
    <3> QED
      BY Zenon, <3>1 DEF Piece
  <2> QED
    BY SMT, <1>3, <1>5, <2>2, <2>4, <2>5 DEF CntOk
<1> QED
  BY Zenon, <1>6, <1>7

-----------------------------------------------------------------------------
(* The tree V that zfs_range_add_reader leaves when the lock met others.   *)

Split(T, off, len) ==
    LET C == CutsOf(T, off, len)
    IN [a \in (DOMAIN T \ Over(T, off, len)) \cup (C \ {Max(C)}) |->
           IF a \in C \ {Max(C)}
           THEN [len |-> After(C, a) - a, cnt |-> CntAt(T, off, len, a), type |-> "reader",
                 owner |-> Proxy, wanted |-> {}]
           ELSE T[a]]

LEMMA AddReaderIs ==
    ASSUME NEW t, NEW off, NEW len
    PROVE  AddReader(t, off, len) = IF Over(tree, off, len) = {} THEN Own(t, off, len, "reader")
                                    ELSE Split(tree, off, len)
BY Zenon DEF AddReader, Overlaps, Over, Split, CutsOf, CntAt, After

Proxied(T, off, len, V, a) ==
    /\ a \notin DOMAIN T \ Over(T, off, len) /\ Piece(T, off, len, a, End(V, a))
    /\ V[a].type = "reader" /\ V[a].owner = Proxy /\ V[a].cnt = CntAt(T, off, len, a)

IsSplit(T, off, len, V) ==
    /\ IsTree(V)
    /\ \A o \in DOMAIN T \ Over(T, off, len) : o \in DOMAIN V /\ V[o] = T[o]
    /\ \A a \in DOMAIN V : a \in DOMAIN T \ Over(T, off, len) \/ Proxied(T, off, len, V, a)
    /\ \A a, b \in DOMAIN V :
          Proxied(T, off, len, V, a) /\ Proxied(T, off, len, V, b) /\ a < b => End(V, a) <= b
    /\ \A s \in Nat : \/ off <= s /\ s < off + len
                      \/ \E o \in Over(T, off, len) : o <= s /\ s < End(T, o)
                      => \E a \in DOMAIN V : a <= s /\ s < End(V, a)

LEMMA SplitIs ==
    ASSUME NEW T, IsTree(T), NEW f \in [Threads -> ThrType], LockInv(T, f),
           NEW off \in Nat, NEW len \in Nat \ {0}
    PROVE  IsSplit(T, off, len, Split(T, off, len))
<1> DEFINE O == Over(T, off, len)
<1>1. PICK C : C = CutsOf(T, off, len)
  BY Zenon
<1>2. PICK V : V = Split(T, off, len)
  BY Zenon
<1>3. PICK P : P = C \ {Max(C)}
  BY Zenon
<1>4. Disjoint(T)
  BY Zenon DEF LockInv
<1>5. C \subseteq Nat /\ Max(C) \in C /\ \A c \in C : c <= Max(C)
  <2>1. HasLast(T, off, len, C)
    BY Zenon, <1>1, <1>4, CutsLast
  <2> QED
    BY Zenon, <2>1 DEF HasLast
<1>6. V = [a \in (DOMAIN T \ O) \cup P |->
             IF a \in P THEN [len |-> After(C, a) - a, cnt |-> CntAt(T, off, len, a), type |-> "reader",
                              owner |-> Proxy, wanted |-> {}]
             ELSE T[a]]
  BY Zenon, <1>1, <1>2, <1>3 DEF Split
<1>7. DOMAIN V = (DOMAIN T \ O) \cup P
  BY Zenon, <1>6
<1>8. ASSUME NEW a \in P
      PROVE  /\ a \in C /\ a # Max(C) /\ After(C, a) \in C /\ a < After(C, a)
             /\ \A c \in C : c > a => After(C, a) <= c
             /\ Piece(T, off, len, a, After(C, a))
  <2>1. a \in C /\ a # Max(C)
    BY Zenon, <1>3
  <2>2. Piece(T, off, len, a, After(C, a))
    BY Zenon, <1>1, <1>4, <2>1, Pieces
  <2>3. After(C, a) \in C /\ a < After(C, a) /\ \A c \in C : c > a => After(C, a) <= c
    BY Zenon, <1>5, <2>1, AfterIs
  <2> QED
    BY Zenon, <2>1, <2>2, <2>3
<1>9. ASSUME NEW a \in P PROVE a \notin DOMAIN T \ O
  <2>1. SUFFICES ASSUME a \in DOMAIN T \ O PROVE FALSE
    BY Zenon
  <2>2. ~(a < End(T, a) /\ a < After(C, a))
    BY Zenon, <1>8, <2>1 DEF Piece
  <2>3. a < End(T, a)
    BY Zenon, <2>1, Ends
  <2> QED
    BY Zenon, <1>8, <2>2, <2>3
<1>10. ASSUME NEW o \in DOMAIN T \ O PROVE o \in DOMAIN V /\ V[o] = T[o]
  <2>1. o \notin P
    BY Zenon, <1>9
  <2> QED
    BY Zenon, <1>6, <1>7, <2>1
<1> HIDE DEF O
<1>11. ASSUME NEW a \in P
       PROVE  V[a] \in NodeType /\ End(V, a) = After(C, a) /\ V[a].type = "reader" /\ V[a].owner = Proxy
              /\ V[a].cnt = CntAt(T, off, len, a)
  <2>1. V[a] = [len |-> After(C, a) - a, cnt |-> CntAt(T, off, len, a), type |-> "reader",
                owner |-> Proxy, wanted |-> {}]
    BY Zenon, <1>6, <1>7
  <2>2. PICK b : b = After(C, a)
    BY Zenon
  <2>3. Piece(T, off, len, a, b) /\ a \in Nat /\ b \in Nat /\ a < b
    BY Zenon, <1>5, <1>8, <2>2
  <2>4. PICK n : n = CntAt(T, off, len, a)
    BY Zenon
  <2>5. n \in Nat \ {0}
    <3>1. CntOk(T, f, off, len, a, b)
      BY Zenon, <2>3, CntIs
    <3> QED
      BY Zenon, <2>4, <3>1 DEF CntOk
  <2>6. b - a \in Nat \ {0} /\ a + (b - a) = b
    BY SMT, <2>3
  <2>7. V[a] = [len |-> b - a, cnt |-> n, type |-> "reader", owner |-> Proxy, wanted |-> {}]
    BY Zenon, <2>1, <2>2, <2>4
  <2>8. V[a].len = b - a /\ V[a].cnt = n /\ V[a].type = "reader" /\ V[a].owner = Proxy
        /\ V[a] \in NodeType
    <3>1. "reader" \in {"reader", "writer"} /\ Proxy \in Threads \cup {Proxy} /\ {} \in SUBSET {"r", "w"}
      BY Zenon
    <3>2. IsNode(V[a], b - a, n, "reader", Proxy, {})
      BY Zenon, <2>5, <2>6, <2>7, <3>1, NodeIs
    <3> QED
      BY Zenon, <3>2 DEF IsNode
  <2> QED
    BY Zenon, <2>2, <2>4, <2>6, <2>8 DEF End
<1>12. IsTree(V)
  <2>1. DOMAIN V \subseteq Nat
    BY Zenon, <1>3, <1>5, <1>7 DEF IsTree
  <2>2. V = [a \in DOMAIN V |-> V[a]]
    BY Zenon, <1>6
  <2>3. ASSUME NEW a \in DOMAIN V PROVE V[a] \in NodeType
    BY Zenon, <1>7, <1>10, <1>11 DEF IsTree
  <2> QED
    BY Zenon, <2>1, <2>2, <2>3 DEF IsTree
<1>13. ASSUME NEW a \in DOMAIN V PROVE a \in DOMAIN T \ O \/ Proxied(T, off, len, V, a)
  <2>1. CASE a \in P
    <3>1. a \notin DOMAIN T \ Over(T, off, len) /\ Piece(T, off, len, a, End(V, a))
      BY Zenon, <1>8, <1>9, <1>11, <2>1 DEF O
    <3> QED
      BY Zenon, <1>11, <2>1, <3>1 DEF Proxied
  <2> QED
    BY Zenon, <1>7, <2>1
<1>14. ASSUME NEW a \in DOMAIN V, NEW b \in DOMAIN V,
              Proxied(T, off, len, V, a), Proxied(T, off, len, V, b), a < b
       PROVE  End(V, a) <= b
  <2>1. a \in P /\ b \in P
    BY Zenon, <1>7, <1>14 DEF Proxied, O
  <2>2. b \in C /\ b \in Nat /\ a \in Nat
    BY Zenon, <1>5, <1>8, <2>1
  <2>3. b > a
    BY SMT, <1>14, <2>2
  <2>4. After(C, a) <= b
    BY Zenon, <1>8, <2>1, <2>2, <2>3
  <2> QED
    BY Zenon, <1>11, <2>1, <2>4
<1>15. ASSUME NEW s \in Nat, \/ off <= s /\ s < off + len
                             \/ \E o \in Over(T, off, len) : o <= s /\ s < End(T, o)
       PROVE  \E a \in DOMAIN V : a <= s /\ s < End(V, a)
  <2>1. \E a \in C : a # Max(C) /\ a <= s /\ s < After(C, a)
    BY Zenon, <1>1, <1>4, <1>15, PieceAt
  <2>2. PICK a \in P : a <= s /\ s < After(C, a)
    BY Zenon, <1>3, <2>1
  <2> QED
    BY Zenon, <1>7, <1>11, <2>2
<1>16. IsSplit(T, off, len, V)
  BY Zenon, <1>10, <1>12, <1>13, <1>14, <1>15 DEF IsSplit, O
<1> QED
  BY Zenon, <1>2, <1>16

-----------------------------------------------------------------------------
(* Thread t takes the lock off, len: the threads f become g.               *)

Joins(f, g, t, off, len) ==
    /\ f \in [Threads -> ThrType] /\ g \in [Threads -> ThrType] /\ t \in Threads
    /\ t \notin Holders(f) /\ t \in Holders(g) /\ \A u \in Threads : u # t => g[u] = f[u]
    /\ off \in Nat /\ len \in Nat \ {0} /\ g[t].off = off /\ g[t].len = len

Joined(f, g, t, off, len) ==
    /\ LEnd(g, t) = off + len /\ off + len \in Nat
    /\ \A u \in Holders(f) : u # t /\ u \in Threads /\ g[u] = f[u] /\ LEnd(g, u) = LEnd(f, u)
    /\ \A u : u \in Holders(g) <=> u = t \/ u \in Holders(f)

LEMMA JoinIs ==
    ASSUME NEW f, NEW g, NEW t, NEW off, NEW len, Joins(f, g, t, off, len)
    PROVE  Joined(f, g, t, off, len)
<1>1. LEnd(g, t) = off + len
  BY Zenon DEF Joins, LEnd
<1>2. off + len \in Nat
  BY SMT DEF Joins
<1>3. ASSUME NEW u \in Holders(f) PROVE u # t /\ u \in Threads /\ g[u] = f[u] /\ LEnd(g, u) = LEnd(f, u)
  BY Zenon DEF Joins, Holders, LEnd
<1>4. \A u : u \in Holders(g) <=> u = t \/ u \in Holders(f)
  BY Zenon DEF Joins, Holders
<1> QED
  BY Zenon, <1>1, <1>2, <1>3, <1>4 DEF Joined

AtOk(f, g, off, len, s) ==
    /\ off <= s /\ s < off + len => Cardinality(HoldersAt(g, s)) = Cardinality(HoldersAt(f, s)) + 1
    /\ ~(off <= s /\ s < off + len) => HoldersAt(g, s) = HoldersAt(f, s)

LEMMA JoinAt ==
    ASSUME NEW f, NEW g, NEW t, NEW off, NEW len, Joins(f, g, t, off, len), NEW s \in Nat
    PROVE  AtOk(f, g, off, len, s)
<1>1. t \notin HoldersAt(f, s)
  BY Zenon DEF Joins, HoldersAt
<1>0. Joined(f, g, t, off, len)
  BY Zenon, JoinIs
<1>2. ASSUME NEW u \in Holders(f) PROVE u \in HoldersAt(g, s) <=> u \in HoldersAt(f, s)
  <2>1. g[u] = f[u] /\ u \in Holders(g)
    BY Zenon, <1>0 DEF Joined
  <2> QED
    BY Zenon, <2>1 DEF HoldersAt
<1>3. t \in HoldersAt(g, s) <=> off <= s /\ s < off + len
  <2>1. t \in Holders(g) /\ g \in [Threads -> ThrType] /\ g[t].off = off /\ LEnd(g, t) = off + len
    BY Zenon, <1>0 DEF Joined, Joins
  <2>2. t \in HoldersAt(g, s) <=> g[t].off <= s /\ s < LEnd(g, t)
    BY Zenon, <2>1, HoldsIs
  <2> QED
    BY Zenon, <2>1, <2>2
<1>4. HoldersAt(f, s) \subseteq Holders(f) /\ HoldersAt(g, s) \subseteq Holders(g)
  BY Zenon DEF HoldersAt
<1>5. ASSUME off <= s /\ s < off + len PROVE HoldersAt(g, s) = HoldersAt(f, s) \cup {t}
  BY Zenon, <1>0, <1>2, <1>3, <1>4, <1>5 DEF Joined
<1>6. ASSUME ~(off <= s /\ s < off + len) PROVE HoldersAt(g, s) = HoldersAt(f, s)
  BY Zenon, <1>0, <1>2, <1>3, <1>4, <1>6 DEF Joined
<1>7. Cardinality(HoldersAt(f, s) \cup {t}) = Cardinality(HoldersAt(f, s)) + 1
  <2>1. IsFiniteSet(HoldersAt(f, s))
    BY Zenon, HoldersFinite
  <2> QED
    BY Zenon, <1>1, <2>1, FS_AddElement
<1> QED
  BY Zenon, <1>5, <1>6, <1>7 DEF AtOk

(* The reader's lock, where it meets other readers' locks.                 *)
LEMMA SplitLock ==
    ASSUME NEW T, IsTree(T), NEW f, NEW g, NEW t, NEW off, NEW len, LockInv(T, f),
           Joins(f, g, t, off, len), ReaderOp(g[t].op), NEW V, IsSplit(T, off, len, V),
           \A o \in Over(T, off, len) : T[o].type # "writer"
    PROVE  LockInv(V, g)
<1> DEFINE O == Over(T, off, len)
           R == DOMAIN T \ O
           Pr(a) == Proxied(T, off, len, V, a)
<1>1. Joined(f, g, t, off, len)
  BY Zenon, JoinIs
<1>2. /\ f \in [Threads -> ThrType] /\ g \in [Threads -> ThrType] /\ off \in Nat /\ len \in Nat \ {0}
      /\ off + len \in Nat /\ g[t].off = off /\ LEnd(g, t) = off + len /\ t \in Holders(g) /\ g[t].len = len
  BY Zenon, <1>1 DEF Joins, Joined
<1>3. ASSUME NEW o \in R
      PROVE  /\ o \in DOMAIN T /\ o \in DOMAIN V /\ V[o] = T[o] /\ End(V, o) = End(T, o)
             /\ o \in Nat /\ End(T, o) \in Nat /\ o < End(T, o) /\ ~(off < End(T, o) /\ o < off + len)
  <2>1. o \in DOMAIN T /\ o \in DOMAIN V /\ V[o] = T[o]
    BY Zenon DEF IsSplit
  <2>2. End(V, o) = End(T, o)
    BY Zenon, <2>1 DEF End
  <2>3. o \in Nat /\ End(T, o) \in Nat /\ o < End(T, o)
    BY Zenon, <2>1, Ends
  <2>4. ~(off < End(T, o) /\ o < off + len)
    BY Zenon, OverIs
  <2> QED
    BY Zenon, <2>1, <2>2, <2>3, <2>4
<1>4. ASSUME NEW a \in DOMAIN V, Pr(a)
      PROVE  /\ Piece(T, off, len, a, End(V, a)) /\ a \in Nat /\ End(V, a) \in Nat /\ a < End(V, a)
             /\ V[a].type = "reader" /\ V[a].owner = Proxy /\ V[a].cnt = CntAt(T, off, len, a)
             /\ \A o \in O : a < End(T, o) /\ o < End(V, a) => o <= a /\ End(V, a) <= End(T, o)
             /\ a < off + len /\ off < End(V, a) => off <= a /\ End(V, a) <= off + len
             /\ \A o \in R : ~(a < End(T, o) /\ o < End(V, a))
             /\ (off <= a /\ End(V, a) <= off + len) \/ \E o \in O : o <= a /\ End(V, a) <= End(T, o)
  BY Zenon, <1>4 DEF Proxied, Piece
<1>5. ASSUME NEW a \in DOMAIN V PROVE a \in R \/ Pr(a)
  BY Zenon DEF IsSplit
<1>6. ASSUME NEW u \in Holders(f)
      PROVE  u # t /\ g[u] = f[u] /\ LEnd(g, u) = LEnd(f, u) /\ f[u].off \in Nat /\ LEnd(f, u) \in Nat
  <2>1. u # t /\ u \in Threads /\ g[u] = f[u] /\ LEnd(g, u) = LEnd(f, u)
    BY Zenon, <1>1 DEF Joined
  <2> QED
    BY Zenon, <1>2, <2>1, ThrIs
<1>7. ASSUME NEW u \in Holders(g) PROVE u = t \/ u \in Holders(f)
  BY Zenon, <1>1 DEF Joined
<1>8. ASSUME NEW u \in Holders(f), NEW o \in DOMAIN T, f[u].off < End(T, o), o < LEnd(f, u)
      PROVE  f[u].off <= o /\ End(T, o) <= LEnd(f, u)
  BY Zenon, <1>8 DEF LockInv, Aligned, Meet, End, LEnd
<1>9. ASSUME NEW u \in Holders(f), NEW s \in Nat, f[u].off <= s, s < LEnd(f, u)
      PROVE  \E o \in DOMAIN T : o <= s /\ s < End(T, o)
  <2>1. s \in Sectors(f[u].off, f[u].len)
    <3>1. f[u].off \in Nat /\ f[u].len \in Nat
      BY Zenon, <1>2, ThrIs DEF Holders
    <3> QED
      BY SMT, <1>9, <3>1 DEF Sectors, LEnd
  <2>2. PICK o \in DOMAIN T : s \in Sectors(o, T[o].len)
    BY Zenon, <2>1 DEF LockInv, Covered
  <2>3. o \in Nat /\ T[o].len \in Nat
    BY Zenon, Ends
  <2>4. o <= s /\ s < End(T, o)
    BY SMT, <2>2, <2>3 DEF Sectors, End
  <2> QED
    BY Zenon, <2>4
<1>o. ASSUME NEW o \in O PROVE o \in DOMAIN T /\ o \in Nat /\ End(T, o) \in Nat /\ o < End(T, o)
  BY Zenon, OverIs, Ends
<1>r. \A o \in DOMAIN T : o \in O \/ o \in R
  BY Zenon
<1>s. \A s \in Nat : (off <= s /\ s < off + len) \/ (\E o \in O : o <= s /\ s < End(T, o))
                        => \E a \in DOMAIN V : a <= s /\ s < End(V, a)
  BY Zenon DEF IsSplit
<1>p. \A a, b \in DOMAIN V : Pr(a) /\ Pr(b) /\ a < b => End(V, a) <= b
  BY Zenon DEF IsSplit
<1>w. \A o \in O : T[o].type # "writer"
  BY Zenon
<1>x. ASSUME NEW a \in DOMAIN V, Pr(a) PROVE a \notin R
  BY Zenon, <1>x DEF Proxied
<1> HIDE DEF O, R, Pr
<1>10. Disjoint(V)
  <2>1. ASSUME NEW a \in DOMAIN V, NEW b \in DOMAIN V, a < b PROVE End(V, a) <= b
    <3>1. CASE Pr(a) /\ Pr(b)
      BY Zenon, <1>p, <2>1, <3>1
    <3>2. CASE a \in R /\ b \in R
      <4>1. a \in DOMAIN T /\ b \in DOMAIN T /\ End(V, a) = End(T, a)
        BY Zenon, <1>3, <3>2
      <4> QED
        BY Zenon, <2>1, <4>1 DEF LockInv, Disjoint, End
    <3>3. CASE Pr(a) /\ b \in R
      <4>1. ~(a < End(T, b) /\ b < End(V, a)) /\ a \in Nat /\ End(V, a) \in Nat
        BY Zenon, <1>4, <3>3
      <4> QED
        BY SMT, <1>3, <2>1, <3>3, <4>1
    <3>4. CASE a \in R /\ Pr(b)
      <4>1. ~(b < End(T, a) /\ a < End(V, b)) /\ b \in Nat /\ End(V, b) \in Nat /\ b < End(V, b)
        BY Zenon, <1>4, <3>4
      <4> QED
        BY SMT, <1>3, <2>1, <3>4, <4>1
    <3> QED
      BY Zenon, <1>5, <3>1, <3>2, <3>3, <3>4
  <2> QED
    BY Zenon, <2>1 DEF Disjoint, End
<1>11. Aligned(V, g)
  <2>1. ASSUME NEW u \in Holders(g), NEW a \in DOMAIN V, g[u].off < End(V, a), a < LEnd(g, u)
        PROVE  g[u].off <= a /\ End(V, a) <= LEnd(g, u)
    <3>1. CASE u = t /\ Pr(a)
      BY Zenon, <1>2, <1>4, <2>1, <3>1
    <3>2. CASE u = t /\ a \in R
      <4>1. off < End(T, a) /\ a < off + len
        BY Zenon, <1>2, <1>3, <2>1, <3>2
      <4> QED
        BY Zenon, <1>3, <3>2, <4>1
    <3>3. CASE u \in Holders(f) /\ a \in R
      <4>1. f[u].off < End(T, a) /\ a < LEnd(f, u) /\ a \in DOMAIN T
        BY Zenon, <1>3, <1>6, <2>1, <3>3
      <4> QED
        BY Zenon, <1>3, <1>6, <1>8, <3>3, <4>1
    <3>4. CASE u \in Holders(f) /\ Pr(a)
      <4>1. g[u].off = f[u].off /\ LEnd(g, u) = LEnd(f, u) /\ f[u].off \in Nat /\ LEnd(f, u) \in Nat
        BY Zenon, <1>6, <3>4
      <4>2. a \in Nat /\ End(V, a) \in Nat /\ a < End(V, a)
        BY Zenon, <1>4, <3>4
      <4>3. PICK s \in Nat : a <= s /\ s < End(V, a) /\ f[u].off <= s /\ s < LEnd(f, u)
        <5>1. CASE f[u].off <= a
          <6>1. a <= a /\ a < End(V, a) /\ f[u].off <= a /\ a < LEnd(f, u)
            BY SMT, <2>1, <4>1, <4>2, <5>1
          <6> QED
            BY Zenon, <4>2, <6>1
        <5>2. CASE a < f[u].off
          <6>1. f[u].off < LEnd(f, u)
            <7>1. f[u].len # 0 /\ f[u].off \in Nat /\ f[u].len \in Nat
              BY Zenon, <1>2, <3>4, ThrIs DEF LockInv, NonEmpty, Holders
            <7> QED
              BY SMT, <7>1 DEF LEnd
          <6>2. a <= f[u].off /\ f[u].off < End(V, a) /\ f[u].off <= f[u].off
            BY SMT, <2>1, <4>1, <4>2, <5>2
          <6> QED
            BY Zenon, <4>1, <6>1, <6>2
        <5> QED
          BY SMT, <4>1, <4>2, <5>1, <5>2
      <4>4. PICK o \in DOMAIN T : o <= s /\ s < End(T, o)
        BY Zenon, <1>9, <3>4, <4>3
      <4>5. o \in Nat /\ End(T, o) \in Nat
        BY Zenon, Ends
      <4>6. a < End(T, o) /\ o < End(V, a)
        BY SMT, <4>2, <4>3, <4>4, <4>5
      <4>7. o \in O
        BY Zenon, <1>r, <1>4, <3>4, <4>6
      <4>8. o <= a /\ End(V, a) <= End(T, o)
        BY Zenon, <1>4, <3>4, <4>6, <4>7
      <4>9. f[u].off < End(T, o) /\ o < LEnd(f, u)
        BY SMT, <4>1, <4>3, <4>4, <4>5
      <4>10. f[u].off <= o /\ End(T, o) <= LEnd(f, u)
        BY Zenon, <1>8, <3>4, <4>9
      <4> QED
        BY SMT, <4>1, <4>2, <4>5, <4>8, <4>10
    <3> QED
      BY Zenon, <1>5, <1>7, <3>1, <3>2, <3>3, <3>4
  <2> QED
    BY Zenon, <2>1 DEF Aligned, Meet, End, LEnd
<1>12. Covered(V, g)
  <2>1. ASSUME NEW u \in Holders(g), NEW s \in Sectors(g[u].off, g[u].len)
        PROVE  \E a \in DOMAIN V : s \in Sectors(a, V[a].len)
    <3>0. g[u].off \in Nat /\ g[u].len \in Nat
      BY Zenon, <1>2, ThrIs DEF Holders
    <3>1. s \in Nat /\ g[u].off <= s /\ s < LEnd(g, u)
      BY SMT, <3>0 DEF Sectors, LEnd
    <3>2. \E a \in DOMAIN V : a <= s /\ s < End(V, a)
      <4>1. CASE u = t
        BY Zenon, <1>2, <1>s, <3>1, <4>1
      <4>2. CASE u \in Holders(f)
        <5>1. f[u].off <= s /\ s < LEnd(f, u)
          BY Zenon, <1>6, <3>1, <4>2
        <5>2. PICK o \in DOMAIN T : o <= s /\ s < End(T, o)
          BY Zenon, <1>9, <3>1, <4>2, <5>1
        <5>3. CASE o \in O
          BY Zenon, <1>s, <3>1, <5>2, <5>3
        <5>4. CASE o \in R
          BY Zenon, <1>3, <5>2, <5>4
        <5> QED
          BY Zenon, <1>r, <5>3, <5>4
      <4> QED
        BY Zenon, <1>7, <4>1, <4>2
    <3>3. PICK a \in DOMAIN V : a <= s /\ s < End(V, a)
      BY Zenon, <3>2
    <3>4. IsTree(V)
      BY Zenon DEF IsSplit
    <3>5. a \in Nat /\ V[a].len \in Nat
      BY Zenon, <3>4, Ends
    <3>6. s \in Sectors(a, V[a].len)
      BY SMT, <3>1, <3>3, <3>5 DEF Sectors, End
    <3> QED
      BY Zenon, <3>6
  <2> QED
    BY Zenon, <2>1 DEF Covered
<1>13. Counted(V, g)
  <2>1. ASSUME NEW a \in DOMAIN V PROVE V[a].cnt = Cardinality(HoldersAt(g, a))
    <3>1. CASE a \in R
      <4>1. a \in Nat /\ ~(off <= a /\ a < off + len)
        BY SMT, <1>2, <1>3, <3>1
      <4>2. HoldersAt(g, a) = HoldersAt(f, a)
        <5>1. AtOk(f, g, off, len, a)
          BY Zenon, <4>1, JoinAt
        <5> QED
          BY Zenon, <4>1, <5>1 DEF AtOk
      <4> QED
        BY Zenon, <1>3, <3>1, <4>2 DEF LockInv, Counted
    <3>2. CASE Pr(a)
      <4>1. Piece(T, off, len, a, End(V, a)) /\ V[a].cnt = CntAt(T, off, len, a) /\ a \in Nat
        BY Zenon, <1>4, <3>2
      <4>2. PICK b : b = End(V, a)
        BY Zenon
      <4>3. b \in Nat /\ a < b /\ (a < off + len /\ off < b => off <= a /\ b <= off + len)
        BY Zenon, <1>4, <3>2, <4>2
      <4>4. off <= a /\ b <= off + len <=> off <= a /\ a < off + len
        BY SMT, <1>2, <4>1, <4>3
      <4>5. Piece(T, off, len, a, b)
        BY Zenon, <4>1, <4>2
      <4>c. CntOk(T, f, off, len, a, b)
        BY Zenon, <1>2, <4>5, CntIs
      <4>6. CASE off <= a /\ b <= off + len
        <5>1. CntAt(T, off, len, a) = Cardinality(HoldersAt(f, a)) + 1
          BY Zenon, <4>6, <4>c DEF CntOk
        <5>2. Cardinality(HoldersAt(g, a)) = Cardinality(HoldersAt(f, a)) + 1
          <6>1. AtOk(f, g, off, len, a)
            BY Zenon, <4>1, JoinAt
          <6> QED
            BY Zenon, <4>4, <4>6, <6>1 DEF AtOk
        <5> QED
          BY Zenon, <4>1, <5>1, <5>2
      <4>7. CASE ~(off <= a /\ b <= off + len)
        <5>1. CntAt(T, off, len, a) = Cardinality(HoldersAt(f, a))
          BY Zenon, <4>7, <4>c DEF CntOk
        <5>2. HoldersAt(g, a) = HoldersAt(f, a)
          <6>1. AtOk(f, g, off, len, a)
            BY Zenon, <4>1, JoinAt
          <6> QED
            BY Zenon, <4>4, <4>7, <6>1 DEF AtOk
        <5> QED
          BY Zenon, <4>1, <5>1, <5>2
      <4> QED
        BY Zenon, <4>6, <4>7
    <3> QED
      BY Zenon, <1>5, <3>1, <3>2
  <2> QED
    BY Zenon, <2>1 DEF Counted
<1>14. Owned(V, g)
  <2>1. ASSUME NEW a \in DOMAIN V, Pr(a) PROVE V[a].owner = Proxy /\ V[a].type = "reader"
    BY Zenon, <1>4, <2>1
  <2>2. ASSUME NEW o \in R, V[o].owner # Proxy
        PROVE  /\ V[o].owner \in Holders(g) /\ g[V[o].owner].off = o /\ g[V[o].owner].len = V[o].len
               /\ V[o].type = "writer" <=> ~ReaderOp(g[V[o].owner].op)
               /\ V[o].cnt = 1
    <3>1. o \in DOMAIN T /\ V[o] = T[o]
      BY Zenon, <1>3
    <3>2. PICK u : u = T[o].owner
      BY Zenon
    <3>o. Owned(T, f) /\ o \in DOMAIN T /\ u # Proxy
      BY Zenon, <2>2, <3>1, <3>2 DEF LockInv
    <3>3. /\ u \in Holders(f) /\ f[u].off = o /\ f[u].len = T[o].len
          /\ T[o].type = "writer" <=> ~ReaderOp(f[u].op)
          /\ T[o].cnt = 1
      BY ONLY Zenon, <3>o, <3>2 DEF Owned
    <3>4. u \in Holders(g) /\ g[u] = f[u]
      BY Zenon, <1>1, <1>6, <3>3 DEF Joined
    <3> QED
      BY Zenon, <3>1, <3>2, <3>3, <3>4
  <2>3. ASSUME NEW o \in R, V[o].owner = Proxy PROVE V[o].type = "reader"
    BY Zenon, <1>3, <2>3 DEF LockInv, Owned
  <2> QED
    BY Zenon, <1>5, <2>1, <2>2, <2>3 DEF Owned
<1>15. WritersOwn(V, g)
  <2>1. ASSUME NEW u \in Holders(g), ~ReaderOp(g[u].op)
        PROVE  g[u].off \in DOMAIN V /\ V[g[u].off].owner = u
    <3>1. u \in Holders(f) /\ g[u] = f[u] /\ u # t
      BY Zenon, <1>6, <1>7, <2>1
    <3>2. PICK o : o = f[u].off
      BY Zenon
    <3>3. o \in DOMAIN T /\ T[o].owner = u
      BY Zenon, <2>1, <3>1, <3>2 DEF LockInv, WritersOwn
    <3>4. u # Proxy
      BY Zenon, <3>1, ThreadsAssumption DEF Holders
    <3>5. T[o].type = "writer"
      BY Zenon, <2>1, <3>1, <3>3, <3>4 DEF LockInv, Owned
    <3>6. o \in R
      BY Zenon, <1>r, <1>w, <3>3, <3>5
    <3> QED
      BY Zenon, <1>3, <3>1, <3>2, <3>3, <3>6
  <2> QED
    BY Zenon, <2>1 DEF WritersOwn
<1>16. NonEmpty(g)
  <2>1. len # 0 /\ NonEmpty(f)
    BY Zenon, <1>2 DEF LockInv
  <2> QED
    BY Zenon, <1>2, <1>6, <1>7, <2>1 DEF NonEmpty
<1> QED
  BY Zenon, <1>10, <1>11, <1>12, <1>13, <1>14, <1>15, <1>16 DEF LockInv

(* Where there is no node there is no lock.                                *)
LEMMA NobodyIn ==
    ASSUME NEW T, IsTree(T), NEW f \in [Threads -> ThrType], LockInv(T, f),
           NEW off \in Nat, NEW len \in Nat \ {0}, Over(T, off, len) = {}, NEW u \in Holders(f)
    PROVE  ~(f[u].off < off + len /\ off < LEnd(f, u))
<1> SUFFICES ASSUME f[u].off < off + len, off < LEnd(f, u) PROVE FALSE
  BY Zenon
<1>1. u \in Threads /\ f[u].len # 0
  BY Zenon DEF LockInv, NonEmpty, Holders
<1>2. f[u].off \in Nat /\ f[u].len \in Nat
  BY Zenon, <1>1, ThrIs
<1>3. PICK s : s = IF f[u].off < off THEN off ELSE f[u].off
  BY Zenon
<1>4. s \in Nat /\ off <= s /\ s < off + len /\ s \in Sectors(f[u].off, f[u].len)
  BY SMT, <1>1, <1>2, <1>3 DEF LEnd, Sectors
<1>5. PICK o \in DOMAIN T : s \in Sectors(o, T[o].len)
  BY Zenon, <1>4 DEF LockInv, Covered
<1>6. o \in Nat /\ T[o].len \in Nat
  BY Zenon, Ends
<1>7. off < End(T, o) /\ o < off + len
  BY SMT, <1>4, <1>5, <1>6 DEF Sectors, End
<1> QED
  BY Zenon, <1>7, OverIs

IsOwn(T, off, len, ty, t, V) ==
    /\ IsTree(V) /\ off \notin DOMAIN T /\ IsNode(V[off], len, 1, ty, t, {})
    /\ \A x : x \in DOMAIN V <=> x = off \/ x \in DOMAIN T
    /\ \A o \in DOMAIN T : V[o] = T[o]

LEMMA OwnIs ==
    ASSUME IsTree(tree), NEW off \in Nat, NEW len \in Nat \ {0}, NEW ty \in {"reader", "writer"},
           NEW t \in Threads, Over(tree, off, len) = {}
    PROVE  IsOwn(tree, off, len, ty, t, Own(t, off, len, ty))
<1>1. PICK y : y = [len |-> len, cnt |-> 1, type |-> ty, owner |-> t, wanted |-> {}]
  BY Zenon
<1>2. PICK V : V = Own(t, off, len, ty)
  BY Zenon
<1>3. V = [x \in DOMAIN tree \cup {off} |-> IF x = off THEN y ELSE tree[x]]
  BY Zenon, <1>1, <1>2 DEF Own
<1>4. IsNode(y, len, 1, ty, t, {})
  <2>1. 1 \in Nat \ {0}
    BY SMT
  <2>2. t \in Threads \cup {Proxy} /\ {} \in SUBSET {"r", "w"}
    BY Zenon
  <2> QED
    BY Zenon, <1>1, <2>1, <2>2, NodeIs
<1>5. off \notin DOMAIN tree
  <2> SUFFICES ASSUME off \in DOMAIN tree PROVE FALSE
    BY Zenon
  <2>1. off < End(tree, off)
    BY Zenon, Ends
  <2>2. off < off + len
    BY SMT
  <2> QED
    BY Zenon, <2>1, <2>2, OverIs
<1>6. \A x : x \in DOMAIN V <=> x = off \/ x \in DOMAIN tree
  BY Zenon, <1>3
<1>7. ASSUME NEW o \in DOMAIN tree PROVE V[o] = tree[o]
  BY Zenon, <1>3, <1>5
<1>8. V[off] = y
  BY Zenon, <1>3
<1>9. IsTree(V)
  <2>1. V = [x \in DOMAIN V |-> V[x]]
    BY Zenon, <1>3
  <2>2. ASSUME NEW x \in DOMAIN V PROVE x \in Nat /\ V[x] \in NodeType
    BY Zenon, <1>4, <1>6, <1>7, <1>8 DEF IsTree, IsNode
  <2> QED
    BY Zenon, <2>1, <2>2 DEF IsTree
<1> QED
  BY Zenon, <1>2, <1>4, <1>5, <1>6, <1>7, <1>8, <1>9 DEF IsOwn

(* A lock that meets no other goes into the tree itself.                   *)
LEMMA OwnLock ==
    ASSUME NEW T, IsTree(T), NEW f, NEW g, NEW t, NEW off, NEW len, LockInv(T, f),
           Joins(f, g, t, off, len), NEW ty, NEW V, IsOwn(T, off, len, ty, t, V),
           Over(T, off, len) = {}, ty = "writer" <=> ~ReaderOp(g[t].op)
    PROVE  LockInv(V, g)
<1>1. Joined(f, g, t, off, len)
  BY Zenon, JoinIs
<1>2. /\ f \in [Threads -> ThrType] /\ g \in [Threads -> ThrType] /\ off \in Nat /\ len \in Nat \ {0}
      /\ off + len \in Nat /\ g[t].off = off /\ LEnd(g, t) = off + len /\ t \in Holders(g) /\ g[t].len = len
      /\ t \in Threads
  BY Zenon, <1>1 DEF Joins, Joined
<1>3. ASSUME NEW o \in DOMAIN T
      PROVE  /\ o \in DOMAIN V /\ V[o] = T[o] /\ End(V, o) = End(T, o) /\ o # off
             /\ o \in Nat /\ End(T, o) \in Nat /\ o < End(T, o) /\ ~(off < End(T, o) /\ o < off + len)
  <2>1. o \in DOMAIN V /\ V[o] = T[o] /\ o # off
    BY Zenon DEF IsOwn
  <2>2. End(V, o) = End(T, o)
    BY Zenon, <2>1 DEF End
  <2>3. o \in Nat /\ End(T, o) \in Nat /\ o < End(T, o)
    BY Zenon, Ends
  <2>4. ~(off < End(T, o) /\ o < off + len)
    BY Zenon, OverIs
  <2> QED
    BY Zenon, <2>1, <2>2, <2>3, <2>4
<1>4. /\ off \in DOMAIN V /\ End(V, off) = off + len /\ V[off].cnt = 1 /\ V[off].type = ty
      /\ V[off].owner = t /\ V[off].len = len
  BY Zenon DEF IsOwn, IsNode, End
<1>5. ASSUME NEW a \in DOMAIN V PROVE a = off \/ a \in DOMAIN T
  BY Zenon DEF IsOwn
<1>6. ASSUME NEW u \in Holders(f)
      PROVE  /\ u # t /\ g[u] = f[u] /\ LEnd(g, u) = LEnd(f, u)
             /\ ~(f[u].off < off + len /\ off < LEnd(f, u))
  BY Zenon, <1>1, <1>2, NobodyIn DEF Joined
<1>7. ASSUME NEW u \in Holders(g) PROVE u = t \/ u \in Holders(f)
  BY Zenon, <1>1 DEF Joined
<1>10. Disjoint(V)
  <2>1. ASSUME NEW a \in DOMAIN V, NEW b \in DOMAIN V, a < b PROVE End(V, a) <= b
    <3>1. CASE a \in DOMAIN T /\ b \in DOMAIN T
      <4>1. End(V, a) = End(T, a)
        BY Zenon, <1>3, <3>1
      <4> QED
        BY Zenon, <2>1, <3>1, <4>1 DEF LockInv, Disjoint, End
    <3>2. CASE a = off /\ b \in DOMAIN T
      BY SMT, <1>2, <1>3, <1>4, <2>1, <3>2
    <3>3. CASE a \in DOMAIN T /\ b = off
      BY SMT, <1>2, <1>3, <1>4, <2>1, <3>3
    <3>4. CASE a = off /\ b = off
      BY SMT, <1>2, <2>1, <3>4
    <3> QED
      BY Zenon, <1>5, <3>1, <3>2, <3>3, <3>4
  <2> QED
    BY Zenon, <2>1 DEF Disjoint, End
<1>11. Aligned(V, g)
  <2>1. ASSUME NEW u \in Holders(g), NEW a \in DOMAIN V, g[u].off < End(V, a), a < LEnd(g, u)
        PROVE  g[u].off <= a /\ End(V, a) <= LEnd(g, u)
    <3>1. CASE u = t /\ a = off
      <4>1. off <= off /\ off + len <= off + len
        BY SMT, <1>2
      <4> QED
        BY Zenon, <1>2, <1>4, <3>1, <4>1
    <3>2. CASE u = t /\ a \in DOMAIN T
      BY Zenon, <1>2, <1>3, <2>1, <3>2
    <3>3. CASE u \in Holders(f) /\ a = off
      BY Zenon, <1>4, <1>6, <2>1, <3>3
    <3>4. CASE u \in Holders(f) /\ a \in DOMAIN T
      <4>1. f[u].off < End(T, a) /\ a < LEnd(f, u)
        BY Zenon, <1>3, <1>6, <2>1, <3>4
      <4>2. f[u].off <= a /\ End(T, a) <= LEnd(f, u)
        BY Zenon, <3>4, <4>1 DEF LockInv, Aligned, Meet, End, LEnd
      <4> QED
        BY Zenon, <1>3, <1>6, <3>4, <4>2
    <3> QED
      BY Zenon, <1>5, <1>7, <3>1, <3>2, <3>3, <3>4
  <2> QED
    BY Zenon, <2>1 DEF Aligned, Meet, End, LEnd
<1>12. Covered(V, g)
  <2>1. ASSUME NEW u \in Holders(g), NEW s \in Sectors(g[u].off, g[u].len)
        PROVE  \E a \in DOMAIN V : s \in Sectors(a, V[a].len)
    <3>1. CASE u = t
      BY Zenon, <1>2, <1>4, <3>1
    <3>2. CASE u \in Holders(f)
      <4>1. s \in Sectors(f[u].off, f[u].len)
        BY Zenon, <1>6, <3>2
      <4>2. PICK o \in DOMAIN T : s \in Sectors(o, T[o].len)
        BY Zenon, <3>2, <4>1 DEF LockInv, Covered
      <4> QED
        BY Zenon, <1>3, <4>2
    <3> QED
      BY Zenon, <1>7, <3>1, <3>2
  <2> QED
    BY Zenon, <2>1 DEF Covered
<1>13. Counted(V, g)
  <2>1. V[off].cnt = Cardinality(HoldersAt(g, off))
    <3>1. HoldersAt(f, off) = {}
      <4>1. ASSUME NEW u \in HoldersAt(f, off) PROVE FALSE
        <5>1. u \in Holders(f)
          BY Zenon DEF HoldersAt
        <5>2. f[u].off <= off /\ off < LEnd(f, u)
          BY Zenon, <1>2, <5>1, HoldsIs
        <5>3. f[u].off \in Nat
          BY Zenon, <1>2, <5>1, ThrIs DEF Holders
        <5>4. f[u].off < off + len
          BY SMT, <1>2, <5>2, <5>3
        <5> QED
          BY Zenon, <1>6, <5>1, <5>2, <5>4
      <4> QED
        BY Zenon, <4>1
    <3>2. Cardinality(HoldersAt(f, off)) = 0
      BY Zenon, <3>1, FS_EmptySet
    <3>3. off <= off /\ off < off + len
      BY SMT, <1>2
    <3>4. Cardinality(HoldersAt(g, off)) = 0 + 1
      <4>1. AtOk(f, g, off, len, off)
        BY Zenon, <1>2, JoinAt
      <4> QED
        BY Zenon, <3>2, <3>3, <4>1 DEF AtOk
    <3> QED
      BY SMT, <1>4, <3>4
  <2>2. ASSUME NEW o \in DOMAIN T PROVE V[o].cnt = Cardinality(HoldersAt(g, o))
    <3>1. o \in Nat /\ ~(off <= o /\ o < off + len)
      BY SMT, <1>2, <1>3
    <3>2. HoldersAt(g, o) = HoldersAt(f, o)
      <4>1. AtOk(f, g, off, len, o)
        BY Zenon, <3>1, JoinAt
      <4> QED
        BY Zenon, <3>1, <4>1 DEF AtOk
    <3> QED
      BY Zenon, <1>3, <3>2 DEF LockInv, Counted
  <2> QED
    BY Zenon, <1>5, <2>1, <2>2 DEF Counted
<1>14. Owned(V, g)
  <2>1. t # Proxy
    BY Zenon, <1>2, ThreadsAssumption
  <2>2. ASSUME NEW o \in DOMAIN T, V[o].owner # Proxy
        PROVE  /\ V[o].owner \in Holders(g) /\ g[V[o].owner].off = o /\ g[V[o].owner].len = V[o].len
               /\ V[o].type = "writer" <=> ~ReaderOp(g[V[o].owner].op)
               /\ V[o].cnt = 1
    <3>1. V[o] = T[o]
      BY Zenon, <1>3
    <3>2. PICK u : u = T[o].owner
      BY Zenon
    <3>o. Owned(T, f) /\ o \in DOMAIN T /\ u # Proxy
      BY Zenon, <2>2, <3>1, <3>2 DEF LockInv
    <3>3. /\ u \in Holders(f) /\ f[u].off = o /\ f[u].len = T[o].len
          /\ T[o].type = "writer" <=> ~ReaderOp(f[u].op)
          /\ T[o].cnt = 1
      BY ONLY Zenon, <3>o, <3>2 DEF Owned
    <3>4. u \in Holders(g) /\ g[u] = f[u]
      BY Zenon, <1>1, <1>6, <3>3 DEF Joined
    <3> QED
      BY Zenon, <3>1, <3>2, <3>3, <3>4
  <2>3. ASSUME NEW o \in DOMAIN T, V[o].owner = Proxy PROVE V[o].type = "reader"
    BY Zenon, <1>3, <2>3 DEF LockInv, Owned
  <2>4. /\ V[off].owner \in Holders(g) /\ g[V[off].owner].off = off
        /\ g[V[off].owner].len = V[off].len /\ V[off].cnt = 1 /\ V[off].owner # Proxy
        /\ V[off].type = "writer" <=> ~ReaderOp(g[V[off].owner].op)
    BY Zenon, <1>2, <1>4, <2>1
  <2>5. ASSUME NEW a \in DOMAIN V
        PROVE  /\ V[a].owner = Proxy => V[a].type = "reader"
               /\ V[a].owner # Proxy =>
                    /\ V[a].owner \in Holders(g) /\ g[V[a].owner].off = a /\ g[V[a].owner].len = V[a].len
                    /\ V[a].type = "writer" <=> ~ReaderOp(g[V[a].owner].op)
                    /\ V[a].cnt = 1
    <3>1. CASE a = off
      BY Zenon, <2>4, <3>1
    <3>2. CASE a \in DOMAIN T
      BY Zenon, <2>2, <2>3, <3>2
    <3> QED
      BY Zenon, <1>5, <3>1, <3>2
  <2> QED
    BY Zenon, <2>5 DEF Owned
<1>15. WritersOwn(V, g)
  <2>1. ASSUME NEW u \in Holders(g), ~ReaderOp(g[u].op)
        PROVE  g[u].off \in DOMAIN V /\ V[g[u].off].owner = u
    <3>1. CASE u = t
      BY Zenon, <1>2, <1>4, <3>1
    <3>2. CASE u \in Holders(f)
      <4>1. g[u] = f[u]
        BY Zenon, <1>6, <3>2
      <4>2. f[u].off \in DOMAIN T /\ T[f[u].off].owner = u
        BY Zenon, <2>1, <3>2, <4>1 DEF LockInv, WritersOwn
      <4> QED
        BY Zenon, <1>3, <4>1, <4>2
    <3> QED
      BY Zenon, <1>7, <3>1, <3>2
  <2> QED
    BY Zenon, <2>1 DEF WritersOwn
<1>16. NonEmpty(g)
  <2>1. len # 0 /\ NonEmpty(f)
    BY Zenon, <1>2 DEF LockInv
  <2> QED
    BY Zenon, <1>2, <1>6, <1>7, <2>1 DEF NonEmpty
<1> QED
  BY Zenon, <1>10, <1>11, <1>12, <1>13, <1>14, <1>15, <1>16 DEF LockInv

-----------------------------------------------------------------------------
(* Thread t gives up its lock: F are the nodes freed, V the tree left.     *)

Leaves(f, g, t) ==
    /\ f \in [Threads -> ThrType] /\ g \in [Threads -> ThrType] /\ t \in Holders(f)
    /\ \A u : u \in Holders(g) <=> u # t /\ u \in Holders(f)
    /\ \A u \in Holders(g) : g[u] = f[u]

IsUnlock(T, f, t, F, V) ==
    /\ IsTree(V) /\ F \subseteq DOMAIN T /\ DOMAIN V = DOMAIN T \ F
    /\ \A o \in F : HoldersAt(f, o) = {t}
    /\ \A o \in DOMAIN V :
          /\ V[o].len = T[o].len /\ V[o].type = T[o].type /\ V[o].owner = T[o].owner
          /\ V[o].wanted = T[o].wanted
          /\ t \in HoldersAt(f, o) => T[o].owner = Proxy /\ V[o].cnt = T[o].cnt - 1
          /\ t \notin HoldersAt(f, o) => V[o].cnt = T[o].cnt

LEMMA NodeFields ==
    ASSUME NEW y \in NodeType
    PROVE  y.len \in Nat \ {0} /\ y.cnt \in Nat \ {0} /\ y.type \in {"reader", "writer"}
           /\ y.owner \in Threads \cup {Proxy} /\ y.wanted \in SUBSET {"r", "w"}
BY SMT DEF NodeType

CountsDown(y, z) ==
    z \in NodeType /\ z.len = y.len /\ z.cnt = y.cnt - 1 /\ z.type = y.type /\ z.owner = y.owner
    /\ z.wanted = y.wanted

LEMMA CntDown ==
    ASSUME NEW y \in NodeType, y.cnt # 1
    PROVE  CountsDown(y, [y EXCEPT !.cnt = @ - 1])
<1>1. y.cnt \in Nat \ {0}
  BY Zenon, NodeFields
<1>2. y.cnt - 1 \in Nat \ {0}
  BY SMT, <1>1
<1>3. PICK n \in Nat \ {0} : n = y.cnt - 1
  BY Zenon, <1>2
<1>4. PICK z : z = [y EXCEPT !.cnt = n]
  BY Zenon
<1>5. z \in NodeType /\ z.len = y.len /\ z.cnt = n /\ z.type = y.type /\ z.owner = y.owner
      /\ z.wanted = y.wanted
  BY SMT, <1>4 DEF NodeType
<1>6. z = [y EXCEPT !.cnt = @ - 1]
  BY Zenon, <1>3, <1>4
<1> QED
  BY Zenon, <1>3, <1>5, <1>6 DEF CountsDown

(* One who has a node alone.                                               *)
LEMMA Alone ==
    ASSUME NEW f, NEW s, NEW t \in HoldersAt(f, s), Cardinality(HoldersAt(f, s)) = 1
    PROVE  HoldersAt(f, s) = {t}
<1>1. IsFiniteSet(HoldersAt(f, s))
  BY Zenon, HoldersFinite
<1>2. PICK x : HoldersAt(f, s) = {x}
  BY Zenon, <1>1, FS_Singleton
<1> QED
  BY Zenon, <1>2

LEMMA OwnerAt ==
    ASSUME NEW T, IsTree(T), NEW f \in [Threads -> ThrType], LockInv(T, f), NEW o \in DOMAIN T,
           T[o].owner # Proxy
    PROVE  T[o].owner \in Threads /\ HoldersAt(f, o) = {T[o].owner}
<1>1. PICK u : u = T[o].owner
  BY Zenon
<1>2. u \in Holders(f) /\ f[u].off = o /\ f[u].len = T[o].len /\ T[o].cnt = 1
  BY Zenon, <1>1 DEF LockInv, Owned
<1>3. u \in Threads
  BY Zenon, <1>2 DEF Holders
<1>4. o \in Nat /\ T[o].len \in Nat /\ o < End(T, o)
  BY Zenon, Ends
<1>5. o <= o /\ LEnd(f, u) = End(T, o)
  BY SMT, <1>2, <1>4 DEF End, LEnd
<1>6. u \in HoldersAt(f, o)
  BY Zenon, <1>2, <1>4, <1>5, HoldsIs
<1>7. Cardinality(HoldersAt(f, o)) = 1
  BY Zenon, <1>2 DEF LockInv, Counted
<1> QED
  BY Zenon, <1>1, <1>3, <1>6, <1>7, Alone

LEMMA UnlockIs ==
    ASSUME IsTree(tree), thr \in [Threads -> ThrType], LockInv(tree, thr), NEW t \in Holders(thr)
    PROVE  IsUnlock(tree, thr, t, Freed(t), Unlocked(t))
<1>1. PICK S : S = Sectors(thr[t].off, thr[t].len)
  BY Zenon
<1>2. PICK F : F = Freed(t)
  BY Zenon
<1>3. PICK V : V = Unlocked(t)
  BY Zenon
<1>4. \A o : t \in HoldersAt(thr, o) <=> o \in S
  BY Zenon, <1>1 DEF HoldersAt
<1>5. t \in Threads /\ t # Proxy
  BY Zenon, ThreadsAssumption DEF Holders
<1>6. ASSUME NEW o \in DOMAIN tree, tree[o].owner = t PROVE HoldersAt(thr, o) = {t} /\ o = thr[t].off
  <2>1. HoldersAt(thr, o) = {t}
    BY Zenon, <1>5, <1>6, OwnerAt
  <2> QED
    BY Zenon, <1>5, <1>6, <2>1 DEF LockInv, Owned
<1>7. ASSUME NEW o \in DOMAIN tree, o \in S, tree[o].owner # Proxy PROVE tree[o].owner = t
  <2>1. HoldersAt(thr, o) = {tree[o].owner}
    BY Zenon, <1>7, OwnerAt
  <2> QED
    BY Zenon, <1>4, <1>7, <2>1
<1>8. ASSUME NEW o \in DOMAIN tree, tree[o].cnt = 1, o \in S PROVE HoldersAt(thr, o) = {t}
  <2>1. Cardinality(HoldersAt(thr, o)) = 1
    BY Zenon, <1>8 DEF LockInv, Counted
  <2> QED
    BY Zenon, <1>4, <1>8, <2>1, Alone
<1>9. F \subseteq DOMAIN tree
  BY Zenon, <1>2 DEF Freed
<1>10. ASSUME NEW o \in F PROVE HoldersAt(thr, o) = {t}
  BY Zenon, <1>1, <1>2, <1>6, <1>8 DEF Freed
<1>11. ASSUME NEW o \in DOMAIN tree, o \notin F, o \in S PROVE tree[o].owner = Proxy /\ tree[o].cnt # 1
  <2>1. CASE \E p \in DOMAIN tree : tree[p].owner = t
    <3>1. PICK p \in DOMAIN tree : tree[p].owner = t
      BY Zenon, <2>1
    <3>2. F = {q \in DOMAIN tree : tree[q].owner = t}
      BY Zenon, <1>2, <2>1 DEF Freed
    <3>3. p = thr[t].off /\ thr[t].len = tree[p].len /\ p # o
      BY Zenon, <1>5, <1>6, <1>11, <3>1, <3>2 DEF LockInv, Owned
    <3>4. (o < p => End(tree, o) <= p) /\ (p < o => End(tree, p) <= o)
      BY Zenon DEF LockInv, Disjoint, End
    <3>5. o \in Nat /\ End(tree, o) \in Nat /\ o < End(tree, o) /\ p \in Nat /\ tree[p].len \in Nat
      BY Zenon, Ends
    <3>6. o \in p .. (p + tree[p].len - 1)
      BY Zenon, <1>1, <1>11, <3>3 DEF Sectors
    <3> QED
      BY SMT, <3>3, <3>4, <3>5, <3>6 DEF End
  <2>2. CASE ~\E p \in DOMAIN tree : tree[p].owner = t
    <3>1. F = {q \in DOMAIN tree \cap S : tree[q].cnt = 1}
      BY Zenon, <1>1, <1>2, <2>2 DEF Freed
    <3> QED
      BY Zenon, <1>7, <1>11, <2>2, <3>1
  <2> QED
    BY Zenon, <2>1, <2>2
<1>12. V = [o \in DOMAIN tree \ F |-> IF o \in S /\ tree[o].owner = Proxy
                                      THEN [tree[o] EXCEPT !.cnt = @ - 1] ELSE tree[o]]
  BY Zenon, <1>1, <1>2, <1>3 DEF Unlocked
<1>13. DOMAIN V = DOMAIN tree \ F
  BY Zenon, <1>12
<1>14. ASSUME NEW o \in DOMAIN V
       PROVE  /\ V[o] \in NodeType
              /\ V[o].len = tree[o].len /\ V[o].type = tree[o].type /\ V[o].owner = tree[o].owner
              /\ V[o].wanted = tree[o].wanted
              /\ o \in S => tree[o].owner = Proxy /\ V[o].cnt = tree[o].cnt - 1
              /\ o \notin S => V[o].cnt = tree[o].cnt
  <2>1. o \in DOMAIN tree /\ o \notin F
    BY Zenon, <1>13
  <2>2. tree[o] \in NodeType
    BY Zenon, <2>1 DEF IsTree
  <2>3. CASE o \in S
    <3>1. tree[o].owner = Proxy /\ tree[o].cnt # 1
      BY Zenon, <1>11, <2>1, <2>3
    <3>2. V[o] = [tree[o] EXCEPT !.cnt = @ - 1]
      BY Zenon, <1>12, <1>13, <2>3, <3>1
    <3>3. CountsDown(tree[o], V[o])
      BY Zenon, <2>2, <3>1, <3>2, CntDown
    <3> QED
      BY Zenon, <2>3, <3>1, <3>3 DEF CountsDown
  <2>4. CASE o \notin S
    <3>1. V[o] = tree[o]
      BY Zenon, <1>12, <1>13, <2>4
    <3> QED
      BY Zenon, <2>2, <2>4, <3>1
  <2> QED
    BY Zenon, <2>3, <2>4
<1>15. IsTree(V)
  <2>1. V = [o \in DOMAIN V |-> V[o]]
    BY Zenon, <1>12
  <2>2. DOMAIN V \subseteq Nat
    BY Zenon, <1>13 DEF IsTree
  <2> QED
    BY Zenon, <1>14, <2>1, <2>2 DEF IsTree
<1>16. IsUnlock(tree, thr, t, F, V)
  BY Zenon, <1>4, <1>9, <1>10, <1>13, <1>14, <1>15 DEF IsUnlock
<1> QED
  BY Zenon, <1>2, <1>3, <1>16

LEMMA UnlockLock ==
    ASSUME NEW T, IsTree(T), NEW f, NEW g, NEW t, Leaves(f, g, t), LockInv(T, f),
           NEW F, NEW V, IsUnlock(T, f, t, F, V)
    PROVE  LockInv(V, g)
<1>1. f \in [Threads -> ThrType] /\ g \in [Threads -> ThrType] /\ t \in Holders(f) /\ t \notin Holders(g)
  BY Zenon DEF Leaves
<1>2. ASSUME NEW u \in Holders(g)
      PROVE  u \in Holders(f) /\ u # t /\ g[u] = f[u] /\ LEnd(g, u) = LEnd(f, u)
  <2>1. u \in Holders(f) /\ u # t /\ g[u] = f[u]
    BY Zenon DEF Leaves
  <2> QED
    BY Zenon, <2>1 DEF LEnd
<1>3. ASSUME NEW o \in DOMAIN V
      PROVE  /\ o \in DOMAIN T /\ o \notin F /\ o \in Nat /\ End(V, o) = End(T, o)
             /\ V[o].len = T[o].len /\ V[o].type = T[o].type /\ V[o].owner = T[o].owner
             /\ t \in HoldersAt(f, o) => T[o].owner = Proxy /\ V[o].cnt = T[o].cnt - 1
             /\ t \notin HoldersAt(f, o) => V[o].cnt = T[o].cnt
  <2>1. o \in DOMAIN T /\ o \notin F /\ V[o].len = T[o].len
    BY Zenon DEF IsUnlock
  <2>2. o \in Nat
    BY Zenon, <2>1, Ends
  <2>3. End(V, o) = End(T, o)
    BY Zenon, <2>1 DEF End
  <2> QED
    BY Zenon, <2>1, <2>2, <2>3 DEF IsUnlock
<1>4. ASSUME NEW s PROVE HoldersAt(g, s) = HoldersAt(f, s) \ {t}
  <2>1. ASSUME NEW u \in HoldersAt(g, s) PROVE u \in HoldersAt(f, s) \ {t}
    BY Zenon, <1>2 DEF HoldersAt
  <2>2. ASSUME NEW u \in HoldersAt(f, s), u # t PROVE u \in HoldersAt(g, s)
    <3>1. u \in Holders(f)
      BY Zenon DEF HoldersAt
    <3>2. u \in Holders(g)
      BY Zenon, <2>2, <3>1 DEF Leaves
    <3> QED
      BY Zenon, <1>2, <3>2 DEF HoldersAt
  <2> QED
    BY Zenon, <2>1, <2>2
<1>5. Disjoint(V)
  <2>1. ASSUME NEW a \in DOMAIN V, NEW b \in DOMAIN V, a < b PROVE End(V, a) <= b
    <3>1. a \in DOMAIN T /\ b \in DOMAIN T /\ End(V, a) = End(T, a)
      BY Zenon, <1>3
    <3> QED
      BY Zenon, <2>1, <3>1 DEF LockInv, Disjoint, End
  <2> QED
    BY Zenon, <2>1 DEF Disjoint, End
<1>6. Aligned(V, g)
  <2>1. ASSUME NEW u \in Holders(g), NEW a \in DOMAIN V, g[u].off < End(V, a), a < LEnd(g, u)
        PROVE  g[u].off <= a /\ End(V, a) <= LEnd(g, u)
    <3>1. f[u].off < End(T, a) /\ a < LEnd(f, u) /\ u \in Holders(f) /\ a \in DOMAIN T
      BY Zenon, <1>2, <1>3, <2>1
    <3>2. f[u].off <= a /\ End(T, a) <= LEnd(f, u)
      BY Zenon, <3>1 DEF LockInv, Aligned, Meet, End, LEnd
    <3> QED
      BY Zenon, <1>2, <1>3, <3>2
  <2> QED
    BY Zenon, <2>1 DEF Aligned, Meet, End, LEnd
<1>7. Covered(V, g)
  <2>1. ASSUME NEW u \in Holders(g), NEW s \in Sectors(g[u].off, g[u].len)
        PROVE  \E a \in DOMAIN V : s \in Sectors(a, V[a].len)
    <3>1. u \in Holders(f) /\ s \in Sectors(f[u].off, f[u].len) /\ u # t
      BY Zenon, <1>2
    <3>2. PICK o \in DOMAIN T : s \in Sectors(o, T[o].len)
      BY Zenon, <3>1 DEF LockInv, Covered
    <3>3. o \in Nat /\ T[o].len \in Nat
      BY Zenon, Ends
    <3>4. s \in Nat /\ o <= s /\ s < End(T, o)
      BY SMT, <3>2, <3>3 DEF Sectors, End
    <3>5. HoldersAt(f, s) = HoldersAt(f, o)
      BY Zenon, <1>1, <3>4, NodeHolders DEF LockInv
    <3>6. u \in HoldersAt(f, o)
      BY Zenon, <3>1, <3>5 DEF HoldersAt
    <3>7. o \in DOMAIN V
      BY Zenon, <3>1, <3>6 DEF IsUnlock
    <3> QED
      BY Zenon, <1>3, <3>2, <3>7
  <2> QED
    BY Zenon, <2>1 DEF Covered
<1>8. Counted(V, g)
  <2>1. ASSUME NEW o \in DOMAIN V PROVE V[o].cnt = Cardinality(HoldersAt(g, o))
    <3>1. IsFiniteSet(HoldersAt(f, o)) /\ HoldersAt(g, o) = HoldersAt(f, o) \ {t}
      BY Zenon, <1>4, HoldersFinite
    <3>2. T[o].cnt = Cardinality(HoldersAt(f, o))
      BY Zenon, <1>3 DEF LockInv, Counted
    <3>3. CASE t \in HoldersAt(f, o)
      <4>1. Cardinality(HoldersAt(f, o) \ {t}) = Cardinality(HoldersAt(f, o)) - 1
        BY Zenon, <3>1, <3>3, FS_RemoveElement
      <4>2. V[o].cnt = T[o].cnt - 1
        BY Zenon, <1>3, <3>3
      <4> QED
        BY Zenon, <3>1, <3>2, <4>1, <4>2
    <3>4. CASE t \notin HoldersAt(f, o)
      <4>1. HoldersAt(f, o) \ {t} = HoldersAt(f, o)
        BY Zenon, <3>4
      <4>2. V[o].cnt = T[o].cnt
        BY Zenon, <1>3, <3>4
      <4> QED
        BY Zenon, <3>1, <3>2, <4>1, <4>2
    <3> QED
      BY Zenon, <3>3, <3>4
  <2> QED
    BY Zenon, <2>1 DEF Counted
<1>9. Owned(V, g)
  <2>1. ASSUME NEW o \in DOMAIN V
        PROVE  /\ V[o].owner = Proxy => V[o].type = "reader"
               /\ V[o].owner # Proxy =>
                    /\ V[o].owner \in Holders(g) /\ g[V[o].owner].off = o /\ g[V[o].owner].len = V[o].len
                    /\ V[o].type = "writer" <=> ~ReaderOp(g[V[o].owner].op)
                    /\ V[o].cnt = 1
    <3>0. o \in DOMAIN T /\ V[o].owner = T[o].owner /\ V[o].type = T[o].type
      BY Zenon, <1>3
    <3>1. CASE V[o].owner = Proxy
      <4>1. T[o].type = "reader"
        BY Zenon, <3>0, <3>1 DEF LockInv, Owned
      <4> QED
        BY Zenon, <3>0, <3>1, <4>1
    <3>2. CASE V[o].owner # Proxy
      <4>1. PICK u : u = T[o].owner
        BY Zenon
      <4>2. /\ u \in Holders(f) /\ f[u].off = o /\ f[u].len = T[o].len
            /\ T[o].type = "writer" <=> ~ReaderOp(f[u].op)
            /\ T[o].cnt = 1
        BY Zenon, <3>0, <3>2, <4>1 DEF LockInv, Owned
      <4>3. HoldersAt(f, o) = {u}
        BY Zenon, <1>1, <3>0, <3>2, <4>1, OwnerAt
      <4>4. t \notin HoldersAt(f, o)
        <5>1. t \in HoldersAt(f, o) => T[o].owner = Proxy
          BY Zenon, <1>3
        <5> QED
          BY Zenon, <3>0, <3>2, <5>1
      <4>5. u \in Holders(g)
        BY Zenon, <4>2, <4>3, <4>4 DEF Leaves
      <4> QED
        BY Zenon, <1>2, <1>3, <3>2, <4>1, <4>2, <4>4, <4>5
    <3> QED
      BY Zenon, <3>1, <3>2
  <2> QED
    BY Zenon, <2>1 DEF Owned
<1>10. WritersOwn(V, g)
  <2>1. ASSUME NEW u \in Holders(g), ~ReaderOp(g[u].op)
        PROVE  g[u].off \in DOMAIN V /\ V[g[u].off].owner = u
    <3>1. PICK o : o = f[u].off
      BY Zenon
    <3>2. o \in DOMAIN T /\ T[o].owner = u /\ u # t
      BY Zenon, <1>2, <2>1, <3>1 DEF LockInv, WritersOwn
    <3>3. u # Proxy
      BY Zenon, ThreadsAssumption DEF Holders
    <3>4. HoldersAt(f, o) = {u}
      BY Zenon, <1>1, <3>2, <3>3, OwnerAt
    <3>5. o \in DOMAIN V
      BY Zenon, <3>2, <3>4 DEF IsUnlock
    <3> QED
      BY Zenon, <1>2, <1>3, <3>1, <3>2, <3>5
  <2> QED
    BY Zenon, <2>1 DEF WritersOwn
<1>11. NonEmpty(g)
  BY Zenon, <1>2 DEF LockInv, NonEmpty
<1> QED
  BY Zenon, <1>5, <1>6, <1>7, <1>8, <1>9, <1>10, <1>11 DEF LockInv

-----------------------------------------------------------------------------
(* A step that leaves the nodes, but for who waits, and the locks.         *)

SameTree(T, V) ==
    /\ DOMAIN V = DOMAIN T
    /\ \A o \in DOMAIN T : V[o].len = T[o].len /\ V[o].cnt = T[o].cnt /\ V[o].type = T[o].type
                           /\ V[o].owner = T[o].owner
SameLocks(f, g) ==
    /\ Holders(g) = Holders(f)
    /\ \A u \in Holders(f) : g[u].off = f[u].off /\ g[u].len = f[u].len /\ g[u].op = f[u].op

LEMMA LockSame ==
    ASSUME NEW T, NEW V, NEW f, NEW g, LockInv(T, f), SameTree(T, V), SameLocks(f, g)
    PROVE  LockInv(V, g)
<1>1. Holders(g) = Holders(f) /\ DOMAIN V = DOMAIN T
  BY Zenon DEF SameTree, SameLocks
<1>2. ASSUME NEW o \in DOMAIN T
      PROVE  V[o].len = T[o].len /\ V[o].cnt = T[o].cnt /\ V[o].type = T[o].type
             /\ V[o].owner = T[o].owner
  BY Zenon DEF SameTree
<1>3. ASSUME NEW u \in Holders(f) PROVE g[u].off = f[u].off /\ g[u].len = f[u].len /\ g[u].op = f[u].op
  BY Zenon DEF SameLocks
<1>4. ASSUME NEW s PROVE HoldersAt(g, s) = HoldersAt(f, s)
  BY Zenon, <1>1, <1>3 DEF HoldersAt
<1>5. Disjoint(V)
  BY Zenon, <1>1, <1>2 DEF LockInv, Disjoint
<1>6. Aligned(V, g)
  <2>1. ASSUME NEW t \in Holders(f), NEW o \in DOMAIN T, Meet(g[t].off, g[t].len, o, V[o].len)
        PROVE  g[t].off <= o /\ o + V[o].len <= g[t].off + g[t].len
    <3>1. Meet(f[t].off, f[t].len, o, T[o].len)
      BY Zenon, <1>2, <1>3, <2>1
    <3>2. f[t].off <= o /\ o + T[o].len <= f[t].off + f[t].len
      BY Zenon, <3>1 DEF LockInv, Aligned
    <3> QED
      BY Zenon, <1>2, <1>3, <3>2
  <2> QED
    BY Zenon, <1>1, <2>1 DEF Aligned
<1>7. Covered(V, g)
  <2>1. ASSUME NEW t \in Holders(f), NEW s \in Sectors(g[t].off, g[t].len)
        PROVE  \E o \in DOMAIN T : s \in Sectors(o, V[o].len)
    <3>1. s \in Sectors(f[t].off, f[t].len)
      BY Zenon, <1>3
    <3>2. PICK o \in DOMAIN T : s \in Sectors(o, T[o].len)
      BY Zenon, <3>1 DEF LockInv, Covered
    <3> QED
      BY Zenon, <1>2, <3>2
  <2> QED
    BY Zenon, <1>1, <2>1 DEF Covered
<1>8. Counted(V, g)
  BY Zenon, <1>1, <1>2, <1>4 DEF LockInv, Counted
<1>9. Owned(V, g)
  <2>1. ASSUME NEW o \in DOMAIN T
        PROVE  /\ V[o].owner = Proxy => V[o].type = "reader"
               /\ V[o].owner # Proxy =>
                    /\ V[o].owner \in Holders(g) /\ g[V[o].owner].off = o /\ g[V[o].owner].len = V[o].len
                    /\ V[o].type = "writer" <=> ~ReaderOp(g[V[o].owner].op)
                    /\ V[o].cnt = 1
    <3>1. CASE T[o].owner = Proxy
      <4>1. T[o].type = "reader"
        BY Zenon, <3>1 DEF LockInv, Owned
      <4> QED
        BY Zenon, <1>2, <3>1, <4>1
    <3>2. CASE T[o].owner # Proxy
      <4>1. PICK u : u = T[o].owner
        BY Zenon
      <4>2. /\ u \in Holders(f) /\ f[u].off = o /\ f[u].len = T[o].len
            /\ T[o].type = "writer" <=> ~ReaderOp(f[u].op)
            /\ T[o].cnt = 1
        BY Zenon, <3>2, <4>1 DEF LockInv, Owned
      <4>3. g[u].off = o /\ g[u].len = T[o].len /\ g[u].op = f[u].op
        BY Zenon, <1>3, <4>2
      <4> QED
        BY Zenon, <1>1, <1>2, <3>2, <4>1, <4>2, <4>3
    <3> QED
      BY Zenon, <3>1, <3>2
  <2> QED
    BY Zenon, <1>1, <2>1 DEF Owned
<1>10. WritersOwn(V, g)
  <2>1. ASSUME NEW u \in Holders(f), ~ReaderOp(g[u].op)
        PROVE  g[u].off \in DOMAIN V /\ V[g[u].off].owner = u
    <3>1. f[u].off \in DOMAIN T /\ T[f[u].off].owner = u
      BY Zenon, <1>3, <2>1 DEF LockInv, WritersOwn
    <3> QED
      BY Zenon, <1>1, <1>2, <1>3, <3>1
  <2> QED
    BY Zenon, <1>1, <2>1 DEF WritersOwn
<1>11. NonEmpty(g)
  BY Zenon, <1>1, <1>3 DEF LockInv, NonEmpty
<1> QED
  BY Zenon, <1>5, <1>6, <1>7, <1>8, <1>9, <1>10, <1>11 DEF LockInv

-----------------------------------------------------------------------------
(* What the tree says of two locks that meet, and of a lock of all.        *)

LEMMA Excludes ==
    ASSUME NEW T, IsTree(T), NEW f \in [Threads -> ThrType], LockInv(T, f),
           NEW t \in Holders(f), NEW u \in Holders(f), t # u, ~ReaderOp(f[t].op)
    PROVE  ~(f[t].off < LEnd(f, u) /\ f[u].off < LEnd(f, t))
<1> SUFFICES ASSUME f[t].off < LEnd(f, u), f[u].off < LEnd(f, t) PROVE FALSE
  BY Zenon
<1>1. PICK o : o = f[t].off
  BY Zenon
<1>2. o \in DOMAIN T /\ T[o].owner = t
  BY Zenon, <1>1 DEF LockInv, WritersOwn
<1>3. t # Proxy
  BY Zenon, ThreadsAssumption DEF Holders
<1>4. HoldersAt(f, o) = {t}
  BY Zenon, <1>2, <1>3, OwnerAt
<1>5. f[t].len = T[o].len
  BY Zenon, <1>2, <1>3 DEF LockInv, Owned
<1>6. LEnd(f, t) = End(T, o)
  BY Zenon, <1>1, <1>5 DEF LEnd, End
<1>7. f[u].off <= o /\ End(T, o) <= LEnd(f, u)
  <2>1. f[u].off < End(T, o) /\ o < LEnd(f, u)
    BY Zenon, <1>1, <1>6
  <2> QED
    BY Zenon, <1>2, <2>1 DEF LockInv, Aligned, Meet, End, LEnd
<1>8. o \in Nat /\ o < LEnd(f, u)
  BY Zenon, <1>1, <1>2, Ends
<1>9. u \in HoldersAt(f, o)
  BY Zenon, <1>7, <1>8, HoldsIs
<1> QED
  BY Zenon, <1>4, <1>9

LEMMA WholeAlone ==
    ASSUME NEW T, IsTree(T), NEW f \in [Threads -> ThrType], LockInv(T, f), NEW e \in Nat,
           \A u \in Holders(f) : f[u].off < e,
           NEW t \in Holders(f), ~ReaderOp(f[t].op), f[t].off = 0, f[t].len = e
    PROVE  DOMAIN T = {0} /\ Holders(f) = {t} /\ T[0].owner = t
<1>1. ASSUME NEW u \in Holders(f), u # t PROVE FALSE
  <2>1. ~(f[t].off < LEnd(f, u) /\ f[u].off < LEnd(f, t))
    BY Zenon, <1>1, Excludes
  <2>2. u \in Threads /\ f[u].len # 0 /\ f[u].off < e
    BY Zenon DEF LockInv, NonEmpty, Holders
  <2>3. f[u].off \in Nat /\ f[u].len \in Nat
    BY Zenon, <2>2, ThrIs
  <2> QED
    BY SMT, <2>1, <2>2, <2>3 DEF LEnd
<1>2. Holders(f) = {t}
  BY Zenon, <1>1
<1>3. 0 \in DOMAIN T /\ T[0].owner = t
  BY Zenon DEF LockInv, WritersOwn
<1>4. ASSUME NEW o \in DOMAIN T PROVE o = 0
  <2>1. o \in Nat
    BY Zenon, Ends
  <2>2. HoldersAt(f, o) # {}
    <3>1. T[o].cnt \in Nat \ {0}
      BY Zenon, NodeFields DEF IsTree
    <3>2. T[o].cnt = Cardinality(HoldersAt(f, o))
      BY Zenon DEF LockInv, Counted
    <3>3. Cardinality(HoldersAt(f, o)) # 0
      BY Zenon, <3>1, <3>2
    <3> QED
      BY Zenon, <3>3, FS_EmptySet
  <2>3. t \in HoldersAt(f, o)
    BY Zenon, <1>2, <2>2 DEF HoldersAt
  <2>4. o < LEnd(f, t)
    BY Zenon, <2>1, <2>3, HoldsIs
  <2>5. t # Proxy
    BY Zenon, ThreadsAssumption DEF Holders
  <2>6. T[0].len = e
    <3>1. Owned(T, f)
      BY Zenon DEF LockInv
    <3>2. f[t].len = T[0].len
      BY ONLY Zenon, <1>3, <2>5, <3>1 DEF Owned
    <3> QED
      BY Zenon, <3>2
  <2>7. 0 < o => 0 + T[0].len <= o
    BY Zenon, <1>3 DEF LockInv, Disjoint
  <2> QED
    BY SMT, <2>1, <2>4, <2>6, <2>7 DEF LEnd
<1> QED
  BY Zenon, <1>2, <1>3, <1>4

NodesAt(T, s) == {o \in DOMAIN T : s \in Sectors(o, T[o].len)}

LEMMA ExactAt ==
    ASSUME NEW T, IsTree(T), NEW f \in [Threads -> ThrType], LockInv(T, f), NEW s \in Nat
    PROVE  /\ Cardinality(NodesAt(T, s)) <= 1
           /\ Cardinality(HoldersAt(f, s)) = SumSet({T[o].cnt : o \in NodesAt(T, s)})
<1> DEFINE N == NodesAt(T, s)
<1>1. ASSUME NEW o \in N PROVE o \in DOMAIN T /\ o \in Nat /\ End(T, o) \in Nat /\ o <= s /\ s < End(T, o)
  <2>1. o \in DOMAIN T /\ s \in Sectors(o, T[o].len)
    BY Zenon DEF NodesAt
  <2>2. o \in Nat /\ T[o].len \in Nat
    BY Zenon, <2>1, Ends
  <2> QED
    BY SMT, <2>1, <2>2 DEF Sectors, End
<1>2. ASSUME NEW t \in HoldersAt(f, s) PROVE N # {}
  BY Zenon DEF NodesAt, HoldersAt, LockInv, Covered
<1> HIDE DEF N
<1>3. CASE N = {}
  <2>1. HoldersAt(f, s) = {} /\ {T[o].cnt : o \in N} = {}
    BY Zenon, <1>2, <1>3
  <2>2. Cardinality(HoldersAt(f, s)) = 0 /\ Cardinality(N) = 0
    BY Zenon, <1>3, <2>1, FS_EmptySet
  <2>3. 0 <= 1
    BY SMT
  <2> QED
    BY Zenon, <2>1, <2>2, <2>3, SumNone DEF N
<1>4. CASE N # {}
  <2>1. PICK o : o \in N
    BY Zenon, <1>4
  <2>2. ASSUME NEW p \in N PROVE p = o
    <3>1. (o < p => End(T, o) <= p) /\ (p < o => End(T, p) <= o)
      BY Zenon, <1>1, <2>1 DEF LockInv, Disjoint, End
    <3>2. /\ o \in Nat /\ End(T, o) \in Nat /\ o <= s /\ s < End(T, o)
          /\ p \in Nat /\ End(T, p) \in Nat /\ p <= s /\ s < End(T, p)
      BY Zenon, <1>1, <2>1
    <3> QED
      BY SMT, <3>1, <3>2
  <2>3. N = {o}
    BY Zenon, <2>1, <2>2
  <2>4. {T[p].cnt : p \in N} = {T[o].cnt}
    BY Zenon, <2>3
  <2>5. Cardinality(N) = 1
    BY Zenon, <2>3, FS_Singleton
  <2>6. o \in DOMAIN T /\ o <= s /\ s < End(T, o)
    BY Zenon, <1>1, <2>1
  <2>7. T[o].cnt \in Nat
    BY Zenon, <2>6, NodeFields DEF IsTree
  <2>8. HoldersAt(f, s) = HoldersAt(f, o) /\ T[o].cnt = Cardinality(HoldersAt(f, o))
    BY Zenon, <2>6, NodeHolders DEF LockInv, Counted
  <2>9. SumSet({T[o].cnt}) = T[o].cnt
    BY Zenon, <2>7, SumOne
  <2>10. 1 <= 1
    BY SMT
  <2> QED
    BY Zenon, <2>4, <2>5, <2>8, <2>9, <2>10 DEF N
<1> QED
  BY Zenon, <1>3, <1>4

(* The lock of all that zfs_range_reduce narrows.                          *)
Reduced(T, w, n, V) == V = [o \in {w} |-> [T[0] EXCEPT !.len = n]]

LEMMA ReduceLock ==
    ASSUME NEW T, IsTree(T), NEW f \in [Threads -> ThrType], LockInv(T, f), NEW t \in Threads,
           DOMAIN T = {0}, Holders(f) = {t}, T[0].owner = t, ~ReaderOp(f[t].op),
           NEW g \in [Threads -> ThrType], Holders(g) = {t}, g[t].op = f[t].op,
           NEW w \in Nat, NEW n \in Nat \ {0}, g[t].off = w, g[t].len = n,
           NEW V, Reduced(T, w, n, V)
    PROVE  IsTree(V) /\ LockInv(V, g)
<1>0. V = [o \in {w} |-> [T[0] EXCEPT !.len = n]]
  BY Zenon DEF Reduced
<1>1. PICK y : y = [T[0] EXCEPT !.len = n]
  BY Zenon
<1>2. T[0] \in NodeType
  BY Zenon DEF IsTree
<1>3. y \in NodeType /\ y.len = n /\ y.cnt = T[0].cnt /\ y.type = T[0].type /\ y.owner = t
  BY SMT, <1>1, <1>2 DEF NodeType
<1>4. DOMAIN V = {w} /\ V[w] = y /\ V = [o \in {w} |-> y]
  BY Zenon, <1>0, <1>1
<1>5. IsTree(V)
  BY Zenon, <1>3, <1>4 DEF IsTree
<1>6. t # Proxy
  BY Zenon, ThreadsAssumption
<1>7. y.cnt = 1 /\ y.type = "writer"
  BY Zenon, <1>3, <1>6 DEF LockInv, Owned
<1>8. End(V, w) = w + n /\ LEnd(g, t) = w + n
  BY Zenon, <1>3, <1>4 DEF End, LEnd
<1>9. Disjoint(V)
  <2>1. ~(w < w)
    BY SMT
  <2> QED
    BY Zenon, <1>4, <2>1 DEF Disjoint
<1>10. Aligned(V, g)
  <2>1. w <= w /\ w + n <= w + n
    BY SMT
  <2> QED
    BY Zenon, <1>4, <1>8, <2>1 DEF Aligned, End, LEnd
<1>11. Covered(V, g)
  BY Zenon, <1>3, <1>4 DEF Covered
<1>12. Counted(V, g)
  <2>1. w \in Nat /\ w <= w /\ w < w + n
    BY SMT
  <2>2. t \in HoldersAt(g, w)
    BY Zenon, <1>8, <2>1, HoldsIs
  <2>3. HoldersAt(g, w) = {t}
    BY Zenon, <2>2 DEF HoldersAt
  <2>4. Cardinality(HoldersAt(g, w)) = 1
    BY Zenon, <2>3, FS_Singleton
  <2> QED
    BY Zenon, <1>4, <1>7, <2>4 DEF Counted
<1>13. Owned(V, g)
  BY Zenon, <1>3, <1>4, <1>6, <1>7 DEF Owned
<1>14. WritersOwn(V, g)
  BY Zenon, <1>3, <1>4 DEF WritersOwn
<1>15. NonEmpty(g)
  <2>1. n # 0
    BY Zenon
  <2> QED
    BY Zenon, <2>1 DEF NonEmpty
<1> QED
  BY Zenon, <1>5, <1>9, <1>10, <1>11, <1>12, <1>13, <1>14, <1>15 DEF LockInv

-----------------------------------------------------------------------------
(* The steps: thread t becomes y, and of the others those that slept may be *)
(* woken.                                                                   *)

GoneTo(x, y, p) ==
    /\ y \in ThrType /\ y.pc = p /\ y.op = x.op /\ y.off = x.off /\ y.len = x.len
    /\ y.woff = x.woff /\ y.n = x.n /\ y.on = x.on

LEMMA GotoIs ==
    ASSUME NEW x \in ThrType, NEW p \in Pcs
    PROVE  GoneTo(x, [x EXCEPT !.pc = p], p)
<1>1. PICK y : y = [x EXCEPT !.pc = p]
  BY Zenon
<1>2. y \in ThrType /\ y.pc = p /\ y.op = x.op /\ y.off = x.off /\ y.len = x.len
      /\ y.woff = x.woff /\ y.n = x.n /\ y.on = x.on
  BY SMT, <1>1 DEF ThrType
<1> QED
  BY Zenon, <1>1, <1>2 DEF GoneTo

Moves(f, g, t, y) ==
    /\ f \in [Threads -> ThrType] /\ g \in [Threads -> ThrType] /\ t \in Threads /\ g[t] = y
    /\ \A u \in Threads :
          u # t => g[u] = f[u] \/ (f[u].pc = "asleep" /\ GoneTo(f[u], g[u], "lock"))

LEMMA SetMoves ==
    ASSUME thr \in [Threads -> ThrType], NEW t \in Threads, NEW y \in ThrType, Set(t, y)
    PROVE  Moves(thr, thr', t, y)
BY Zenon DEF Set, Moves

LEMMA WakeMoves ==
    ASSUME thr \in [Threads -> ThrType], NEW t \in Threads, NEW y \in ThrType, NEW N, WakeAnd(t, y, N)
    PROVE  Moves(thr, thr', t, y)
<1>1. ASSUME NEW u \in Threads, u # t
      PROVE  /\ thr'[u] \in ThrType
             /\ thr'[u] = thr[u] \/ (thr[u].pc = "asleep" /\ GoneTo(thr[u], thr'[u], "lock"))
  <2>1. CASE u \in Woken(N)
    <3>1. thr'[u] = [thr[u] EXCEPT !.pc = "lock"] /\ thr[u].pc = "asleep" /\ thr[u] \in ThrType
      BY Zenon, <1>1, <2>1 DEF WakeAnd, Woken, At
    <3>2. "lock" \in Pcs
      BY Zenon DEF Pcs, Free
    <3>3. GoneTo(thr[u], thr'[u], "lock")
      BY Zenon, <3>1, <3>2, GotoIs
    <3> QED
      BY Zenon, <3>1, <3>3 DEF GoneTo
  <2>2. CASE u \notin Woken(N)
    BY Zenon, <1>1, <2>2 DEF WakeAnd
  <2> QED
    BY Zenon, <2>1, <2>2
<1>2. thr'[t] = y
  BY Zenon DEF WakeAnd
<1>3. thr' \in [Threads -> ThrType]
  <2>1. thr' = [u \in Threads |-> thr'[u]]
    BY Zenon DEF WakeAnd
  <2>2. ASSUME NEW u \in Threads PROVE thr'[u] \in ThrType
    BY Zenon, <1>1, <1>2
  <2> QED
    BY Zenon, <2>1, <2>2
<1> QED
  BY Zenon, <1>1, <1>2, <1>3 DEF Moves

OthersHold(f, g, t) ==
    \A u : u # t => (u \in Holders(g) <=> u \in Holders(f)) /\ (u \in Holders(f) => g[u] = f[u])

LEMMA MoveHolders ==
    ASSUME NEW f, NEW g, NEW t, NEW y, Moves(f, g, t, y)
    PROVE  OthersHold(f, g, t)
<1>1. ASSUME NEW u \in Threads, f[u].pc = "asleep", GoneTo(f[u], g[u], "lock")
      PROVE  u \notin Holders(f) /\ u \notin Holders(g)
  BY Zenon, <1>1 DEF Holders, GoneTo, Free
<1> QED
  BY Zenon, <1>1 DEF Moves, Holders, OthersHold

(* The tree stays, and so does the lock of t, if it has one.               *)
LEMMA QuietLock ==
    ASSUME NEW T, NEW f, NEW g, NEW t, NEW y, LockInv(T, f), SleepInv(T, f), Moves(f, g, t, y),
           y.pc # "asleep", y.pc \in Free <=> f[t].pc \in Free,
           y.pc \notin Free => y.off = f[t].off /\ y.len = f[t].len /\ y.op = f[t].op
    PROVE  LockInv(T, g) /\ SleepInv(T, g)
<1>1. g[t] = y /\ t \in Threads
  BY Zenon DEF Moves
<1>2. t \in Holders(g) <=> t \in Holders(f)
  BY Zenon, <1>1 DEF Holders
<1>0. OthersHold(f, g, t)
  BY Zenon, MoveHolders
<1>3. Holders(g) = Holders(f)
  <2>1. ASSUME NEW u PROVE u \in Holders(g) <=> u \in Holders(f)
    BY Zenon, <1>0, <1>2 DEF OthersHold
  <2> QED
    BY Zenon, <2>1
<1>4. ASSUME NEW u \in Holders(f)
      PROVE  g[u].off = f[u].off /\ g[u].len = f[u].len /\ g[u].op = f[u].op
  <2>1. CASE u = t
    BY Zenon, <1>1, <2>1 DEF Holders
  <2>2. CASE u # t
    BY Zenon, <1>0, <2>2 DEF OthersHold
  <2> QED
    BY Zenon, <2>1, <2>2
<1>5. SameLocks(f, g) /\ SameTree(T, T)
  BY Zenon, <1>3, <1>4 DEF SameLocks, SameTree
<1>6. ASSUME NEW u \in Threads PROVE SleepOk(T, g[u])
  <2>1. CASE g[u].pc # "asleep"
    BY Zenon, <2>1 DEF SleepOk
  <2>2. CASE g[u].pc = "asleep"
    <3>1. u # t
      BY Zenon, <1>1, <2>2
    <3>2. g[u] = f[u]
      BY Zenon, <2>2, <3>1 DEF Moves, GoneTo
    <3> QED
      BY Zenon, <3>2 DEF SleepInv
  <2> QED
    BY Zenon, <2>1, <2>2
<1> QED
  BY Zenon, <1>5, <1>6, LockSame DEF SleepInv

(* A thread without a lock does not depend on the file.                    *)
LEMMA PlaceFree ==
    ASSUME NEW x \in ThrType, x.pc \in Free, NEW b, NEW c, PlaceOk(x, b), NEW D
    PROVE  PlaceOk(x, c) /\ AppendOk(x, D)
<1>1. x.pc \notin Writing /\ x.pc # "held" /\ x.pc # "sync" /\ x.pc # "reduce" /\ x.pc # "size" /\ x.pc # "chunk"
  BY Zenon DEF Free, Writing
<1>2. AppendOk(x, D)
  BY Zenon, <1>1 DEF AppendOk
<1>3. PlaceOk(x, c)
  BY Zenon, <1>1 DEF PlaceOk
<1> QED
  BY Zenon, <1>2, <1>3

LEMMA PlaceWoken ==
    ASSUME NEW x, x.pc = "asleep", NEW y, GoneTo(x, y, "lock"), NEW b, PlaceOk(x, b), NEW c, NEW D
    PROVE  PlaceOk(y, c) /\ AppendOk(y, D)
<1>1. y.pc = "lock" /\ y.op = x.op /\ y.off = x.off /\ y.len = x.len
  BY Zenon DEF GoneTo
<1>2. AppendOk(y, D)
  BY Zenon, <1>1 DEF AppendOk
<1>3. PlaceOk(y, c)
  BY Zenon, <1>1 DEF PlaceOk, Free, Writing
<1> QED
  BY Zenon, <1>2, <1>3

LEMMA LessData ==
    ASSUME NEW x, NEW D, NEW E, E \subseteq D, AppendOk(x, D)
    PROVE  AppendOk(x, E)
BY Zenon DEF AppendOk

(* The size and the block size stay, and there is no new data.             *)
LEMMA FileQuiet ==
    ASSUME NEW f, NEW g, NEW t, NEW y, NEW z, NEW b, NEW D, NEW E, Moves(f, g, t, y),
           FileInv(f, z, b, D), E \subseteq D, f[t].pc # "size", PlaceOk(y, b), AppendOk(y, E)
    PROVE  FileInv(g, z, b, E)
<1>1. ASSUME NEW u \in Threads PROVE PlaceOk(g[u], b) /\ AppendOk(g[u], E)
  <2>0. PlaceOk(f[u], b) /\ AppendOk(f[u], D)
    BY Zenon DEF FileInv
  <2>1. CASE u = t
    BY Zenon, <2>1 DEF Moves
  <2>2. CASE u # t /\ g[u] = f[u]
    BY Zenon, <2>0, <2>2, LessData
  <2>3. CASE f[u].pc = "asleep" /\ GoneTo(f[u], g[u], "lock")
    BY Zenon, <2>0, <2>3, PlaceWoken
  <2> QED
    BY Zenon, <2>1, <2>2, <2>3 DEF Moves
<1>2. ASSUME NEW s \in E PROVE InSize(g, z, s)
  <2>1. InSize(f, z, s)
    BY Zenon DEF FileInv
  <2>2. ASSUME NEW u \in Threads, f[u].pc = "size" PROVE g[u] = f[u]
    BY Zenon, <2>2 DEF Moves
  <2> QED
    BY Zenon, <2>1, <2>2 DEF InSize
<1> QED
  BY Zenon, <1>1, <1>2 DEF FileInv

LEMMA Consts ==
    /\ MAXOFFSET \in Nat /\ UINT64_MAX \in Nat /\ MAXOFFSET < UINT64_MAX
    /\ z_max_blksz \in Nat \ {0} /\ SPA_MAXBLOCKSIZE \in Nat
BY SMT, BlocksAssumption DEF UINT64_MAX

LEMMA QuietStep ==
    ASSUME Inv, NEW t, NEW y, Moves(thr, thr', t, y), tree' = tree, size' = size, blksz' = blksz,
           data' \subseteq data, thr[t].pc # "size", y.pc # "asleep", y.pc \in Free <=> thr[t].pc \in Free,
           y.pc \notin Free => y.off = thr[t].off /\ y.len = thr[t].len /\ y.op = thr[t].op,
           PlaceOk(y, blksz), AppendOk(y, data')
    PROVE  Inv'
<1>1. TypeInv'
  BY Zenon DEF Inv, TypeInv, Moves
<1>2. LockInv(tree, thr') /\ SleepInv(tree, thr')
  BY Zenon, QuietLock DEF Inv
<1>3. FileInv(thr', size, blksz, data')
  BY Zenon, FileQuiet DEF Inv
<1> QED
  BY Zenon, <1>1, <1>2, <1>3 DEF Inv

LEMMA PlaceUnlock ==
    ASSUME NEW x, NEW y, NEW b, NEW D, x.pc \notin Free, PlaceOk(x, b), GoneTo(x, y, "unlock")
    PROVE  PlaceOk(y, b) /\ AppendOk(y, D)
<1>1. y.pc = "unlock" /\ y.op = x.op /\ y.off = x.off /\ y.len = x.len
  BY Zenon DEF GoneTo
<1>2. AppendOk(y, D)
  BY Zenon, <1>1 DEF AppendOk
<1>3. PlaceOk(y, b)
  BY Zenon, <1>1 DEF PlaceOk, Free, Writing
<1> QED
  BY Zenon, <1>2, <1>3

(* t is done: it goes to give up its lock.                                 *)
LEMMA DoneStep ==
    ASSUME Inv, NEW t \in Threads, Goto(t, "unlock"), thr[t].pc \notin Free, thr[t].pc # "size",
           tree' = tree, size' = size, blksz' = blksz, data' \subseteq data
    PROVE  Inv'
<1>1. PICK y : y = [thr[t] EXCEPT !.pc = "unlock"]
  BY Zenon
<1>2. thr[t] \in ThrType /\ thr \in [Threads -> ThrType] /\ "unlock" \in Pcs /\ PlaceOk(thr[t], blksz)
  BY Zenon DEF Inv, TypeInv, FileInv, Pcs
<1>3. GoneTo(thr[t], y, "unlock")
  BY Zenon, <1>1, <1>2, GotoIs
<1>4. y \in ThrType /\ y.pc = "unlock" /\ y.op = thr[t].op /\ y.off = thr[t].off /\ y.len = thr[t].len
  BY Zenon, <1>3 DEF GoneTo
<1>5. Moves(thr, thr', t, y)
  BY Zenon, <1>1, <1>2, <1>4, SetMoves DEF Goto
<1>6. PlaceOk(y, blksz) /\ AppendOk(y, data')
  BY Zenon, <1>2, <1>3, PlaceUnlock
<1>7. y.pc # "asleep" /\ y.pc \notin Free
  BY Zenon, <1>4 DEF Free
<1> QED
  BY Zenon, <1>4, <1>5, <1>6, <1>7, QuietStep

LEMMA EasySteps ==
    ASSUME Inv, NEW t \in Threads, ReadDone(t) \/ WriteFail(t) \/ FreeRange(t)
    PROVE  Inv'
<1>1. Goto(t, "unlock") /\ thr[t].pc \in {"held", "sync", "chunk"}
      /\ tree' = tree /\ size' = size /\ blksz' = blksz
  BY Zenon DEF ReadDone, WriteFail, FreeRange, At, file
<1>2. data' \subseteq data
  BY Zenon DEF ReadDone, WriteFail, FreeRange, file
<1>3. thr[t].pc \notin Free /\ thr[t].pc # "size"
  BY Zenon, <1>1 DEF Free
<1> QED
  BY Zenon, <1>1, <1>2, <1>3, DoneStep

LEMMA IdleType == Idle \in ThrType
<1>1. "idle" \in Pcs /\ "none" \in Dos \cup {"none"}
  BY Zenon DEF Pcs, Free
<1>2. 0 \in Nat /\ 0 \in 0 .. MAXOFFSET
  BY SMT, Consts
<1> QED
  BY SMT, <1>1, <1>2 DEF Idle, ThrType, OpType

LEMMA BeginStep ==
    ASSUME Inv, NEW t \in Threads, Begin(t)
    PROVE  Inv'
<1>1. PICK op \in Ops : Set(t, [Idle EXCEPT !.pc = IF op.do = "get" THEN "again" ELSE "lock", !.op = op,
                                  !.off = Asked(op).off, !.len = Asked(op).len])
  BY Zenon DEF Begin
<1>2. PICK y : y = [Idle EXCEPT !.pc = IF op.do = "get" THEN "again" ELSE "lock", !.op = op,
                      !.off = Asked(op).off, !.len = Asked(op).len]
  BY Zenon
<1>3. thr[t].pc = "idle" /\ tree' = tree /\ size' = size /\ blksz' = blksz /\ data' = data
  BY Zenon DEF Begin, At, file
<1>4. op \in [do : Dos, off : 0 .. MAXOFFSET, len : 1 .. (UINT64_MAX - 1)]
  BY Zenon, OpsAssumption DEF Dos
<1>5. op.do \in Dos /\ op.off \in 0 .. MAXOFFSET /\ op.len \in 1 .. (UINT64_MAX - 1)
      /\ op \in OpType
  BY SMT, <1>4, Consts DEF OpType
<1>6. PICK a : a = Asked(op)
  BY Zenon
<1>7. a.off \in Nat /\ a.len \in Nat /\ a.off <= MAXOFFSET /\ a.len >= 1
  <2>1. CASE op.do \in {"extend", "trunc"}
    <3>1. a = [off |-> 0, len |-> UINT64_MAX]
      BY Zenon, <1>6, <2>1 DEF Asked
    <3> QED
      BY SMT, <3>1, Consts
  <2>2. CASE op.do \notin {"extend", "trunc"}
    <3>1. a = [off |-> op.off, len |-> op.len]
      BY Zenon, <1>6, <2>2 DEF Asked
    <3> QED
      BY SMT, <1>5, <3>1, Consts
  <2> QED
    BY Zenon, <2>1, <2>2
<1>8. PICK p \in {"again", "lock"} : p = IF op.do = "get" THEN "again" ELSE "lock"
  BY Zenon
<1>9. y = [Idle EXCEPT !.pc = p, !.op = op, !.off = a.off, !.len = a.len]
  BY Zenon, <1>2, <1>6, <1>8
<1>10. y \in ThrType /\ y.pc = p /\ y.op = op /\ y.off = a.off /\ y.len = a.len
  <2>1. p \in Pcs
    BY Zenon DEF Pcs, Free
  <2>2. PICK c, d : c = a.off /\ d = a.len
    BY Zenon
  <2>3. y = [Idle EXCEPT !.pc = p, !.op = op, !.off = c, !.len = d] /\ c \in Nat /\ d \in Nat
    BY Zenon, <1>7, <1>9, <2>2
  <2>4. Idle \in ThrType
    BY Zenon, IdleType
  <2>5. y \in ThrType /\ y.pc = p /\ y.op = op /\ y.off = c /\ y.len = d
    BY Zenon, <1>5, <2>1, <2>3, <2>4 DEF ThrType
  <2> QED
    BY Zenon, <2>2, <2>5
<1>11. Moves(thr, thr', t, y)
  BY Zenon, <1>1, <1>2, <1>10, SetMoves DEF Inv, TypeInv
<1>12. y.pc # "asleep" /\ y.pc \in Free /\ thr[t].pc \in Free /\ thr[t].pc # "size"
  BY Zenon, <1>3, <1>8, <1>10 DEF Free
<1>13. AppendOk(y, data')
  BY Zenon, <1>8, <1>10 DEF AppendOk
<1>14. PlaceOk(y, blksz)
  <2>1. op.do # "none" /\ (p = "again" <=> op.do = "get")
    BY Zenon, <1>5, <1>8 DEF Dos
  <2> QED
    BY Zenon, <1>5, <1>7, <1>8, <1>10, <2>1 DEF PlaceOk, Free, Writing
<1> QED
  BY Zenon, <1>3, <1>11, <1>12, <1>13, <1>14, QuietStep

LEMMA BlockOfIs ==
    ASSUME NEW o \in Nat, NEW b \in Nat \ {0}
    PROVE  BlockOf(o, b) \in Nat /\ BlockOf(o, b) <= o /\ (Fits(b, o + 1) => o \in Sectors(BlockOf(o, b), b))
<1>1. o % b \in 0 .. (b - 1)
  BY SMT
<1>2. o % b <= o
  BY SMT
<1>3. PICK m : m = o % b
  BY Zenon
<1>4. m \in Nat /\ m <= o /\ m < b
  BY SMT, <1>1, <1>2, <1>3
<1>5. CASE ISP2(b)
  <2>1. BlockOf(o, b) = o - m
    BY Zenon, <1>3, <1>5 DEF BlockOf
  <2> QED
    BY SMT, <1>4, <2>1 DEF Sectors
<1>6. CASE ~ISP2(b)
  <2>1. BlockOf(o, b) = 0 /\ (Fits(b, o + 1) => o + 1 <= b)
    BY Zenon, <1>6 DEF BlockOf, Fits
  <2> QED
    BY SMT, <2>1 DEF Sectors
<1> QED
  BY Zenon, <1>5, <1>6

LEMMA GetBlockStep ==
    ASSUME Inv, NEW t \in Threads, GetBlock(t)
    PROVE  Inv'
<1>1. PICK x \in ThrType : x = thr[t]
  BY Zenon DEF Inv, TypeInv
<1>2. x.pc = "again" /\ tree' = tree /\ size' = size /\ blksz' = blksz /\ data' = data
      /\ PlaceOk(x, blksz) /\ blksz \in 1 .. SPA_MAXBLOCKSIZE
  BY Zenon, <1>1 DEF GetBlock, At, file, Inv, FileInv, TypeInv
<1>3. PICK o : o = BlockOff(x.op.off)
  BY Zenon
<1>4. x.op.off \in 0 .. MAXOFFSET
  BY Zenon, <1>1, ThrIs DEF Inv, TypeInv
<1>5. x.op.off \in Nat /\ x.op.off <= MAXOFFSET /\ blksz \in Nat \ {0} /\ blksz >= 1
  BY SMT, <1>2, <1>4, Consts
<1>6. o = BlockOf(x.op.off, blksz)
  BY Zenon, <1>3 DEF BlockOff, BlockOf
<1>7. o \in Nat /\ o <= x.op.off
  BY Zenon, <1>5, <1>6, BlockOfIs
<1>8. o <= MAXOFFSET
  BY SMT, <1>5, <1>7, Consts
<1>9. PICK y : y = [x EXCEPT !.pc = "lock", !.off = o, !.len = blksz]
  BY Zenon
<1>10. y \in ThrType /\ y.pc = "lock" /\ y.op = x.op /\ y.off = o /\ y.len = blksz
  <2>1. "lock" \in Pcs /\ blksz \in Nat
    BY Zenon, <1>5 DEF Pcs, Free
  <2> QED
    BY Zenon, <1>7, <1>9, <2>1 DEF ThrType
<1>11. Moves(thr, thr', t, y)
  <2>1. Set(t, y)
    BY Zenon, <1>1, <1>3, <1>9 DEF GetBlock
  <2> QED
    BY Zenon, <1>10, <2>1, SetMoves DEF Inv, TypeInv
<1>12. y.pc # "asleep" /\ y.pc \in Free /\ thr[t].pc \in Free /\ thr[t].pc # "size"
  BY Zenon, <1>1, <1>2, <1>10 DEF Free
<1>13. AppendOk(y, data')
  BY Zenon, <1>10 DEF AppendOk
<1>14. PlaceOk(y, blksz)
  BY Zenon, <1>2, <1>5, <1>6, <1>8, <1>10 DEF PlaceOk, Free, Writing
<1> QED
  BY Zenon, <1>2, <1>11, <1>12, <1>13, <1>14, QuietStep

(* zfs_get_data finds the block it locked.                                 *)
LEMMA GetDataStep ==
    ASSUME Inv, NEW t \in Threads, GetData(t), BlockAsLocked(t)
    PROVE  Inv'
<1>1. PICK x \in ThrType : x = thr[t]
  BY Zenon DEF Inv, TypeInv
<1>2. x.pc = "held" /\ x.op.do = "get" /\ x.len = blksz /\ tree' = tree /\ size' = size
      /\ blksz' = blksz /\ data' = data /\ PlaceOk(x, blksz) /\ Fits(blksz, size)
  BY Zenon, <1>1 DEF GetData, BlockAsLocked, At, Does, file, Inv, FileInv
<1>3. CASE x.op.off >= size
  <2>1. Goto(t, "unlock") /\ thr[t].pc \notin Free /\ thr[t].pc # "size" /\ data' \subseteq data
    BY Zenon, <1>1, <1>2, <1>3 DEF GetData, Free
  <2> QED
    BY Zenon, <1>2, <2>1, DoneStep
<1>4. CASE ~(x.op.off >= size)
  <2>1. PICK y : y = [x EXCEPT !.pc = "sync"]
    BY Zenon
  <2>2. GoneTo(x, y, "sync")
    <3>1. "sync" \in Pcs
      BY Zenon DEF Pcs
    <3> QED
      BY Zenon, <2>1, <3>1, GotoIs
  <2>3. y \in ThrType /\ y.pc = "sync" /\ y.op = x.op /\ y.off = x.off /\ y.len = x.len
    BY Zenon, <2>2 DEF GoneTo
  <2>4. Moves(thr, thr', t, y)
    <3>1. Set(t, y)
      BY Zenon, <1>1, <1>4, <2>1 DEF GetData, Goto
    <3> QED
      BY Zenon, <2>3, <3>1, SetMoves DEF Inv, TypeInv
  <2>5. Fits(blksz, x.op.off + 1)
    <3>1. x.op.off \in 0 .. MAXOFFSET /\ size \in 0 .. MAXOFFSET /\ blksz \in 1 .. SPA_MAXBLOCKSIZE
      BY Zenon, <1>1, ThrIs DEF Inv, TypeInv
    <3> QED
      BY SMT, <1>2, <1>4, <3>1, Consts DEF Fits
  <2>6. y.pc # "asleep" /\ y.pc \notin Free /\ thr[t].pc \notin Free /\ thr[t].pc # "size"
    BY Zenon, <1>1, <1>2, <2>3 DEF Free
  <2>7. AppendOk(y, data')
    BY Zenon, <1>2, <2>3 DEF AppendOk
  <2>8. PlaceOk(y, blksz)
    BY Zenon, <1>2, <2>3, <2>5 DEF PlaceOk, Free, Writing, ReaderOp
  <2>9. data' \subseteq data
    BY Zenon, <1>2
  <2> QED
    BY Zenon, <1>1, <1>2, <2>3, <2>4, <2>6, <2>7, <2>8, <2>9, QuietStep
<1> QED
  BY Zenon, <1>3, <1>4

(* A writer that has locked the whole file is alone.                       *)
LEMMA WholeLock ==
    ASSUME Inv, NEW t \in Threads, thr[t].pc \notin Free, ~ReaderOp(thr[t].op), thr[t].len = UINT64_MAX
    PROVE  DOMAIN tree = {0} /\ Holders(thr) = {t} /\ tree[0].owner = t /\ thr[t].off = 0
<1>1. ASSUME NEW u \in Holders(thr) PROVE thr[u].off < UINT64_MAX
  <2>1. u \in Threads /\ thr[u].pc \notin {"idle", "again"} /\ PlaceOk(thr[u], blksz)
    BY Zenon DEF Holders, Free, Inv, FileInv
  <2>2. thr[u].off <= MAXOFFSET /\ thr[u].off \in Nat
    BY Zenon, <2>1, ThrIs DEF PlaceOk, Inv, TypeInv
  <2> QED
    BY SMT, <2>2, Consts
<1>2. thr[t].off = 0
  BY Zenon DEF PlaceOk, Inv, FileInv
<1>3. t \in Holders(thr) /\ UINT64_MAX \in Nat
  BY Zenon, Consts DEF Holders
<1> QED
  BY Zenon, <1>1, <1>2, <1>3, WholeAlone DEF Inv, TypeInv

LEMMA NothingBeyond ==
    ASSUME Inv, NEW t, Holders(thr) = {t}, thr[t].pc # "size", NEW s \in data
    PROVE  s < size
<1>1. InSize(thr, size, s)
  BY Zenon DEF Inv, FileInv
<1>2. ASSUME NEW u \in Threads, thr[u].pc = "size" PROVE FALSE
  BY Zenon, <1>2 DEF Holders, Free
<1> QED
  BY Zenon, <1>1, <1>2 DEF InSize

LEMMA WriteBeginStep ==
    ASSUME Inv, NEW t \in Threads, WriteBegin(t)
    PROVE  Inv'
<1>1. PICK x \in ThrType : x = thr[t]
  BY Zenon DEF Inv, TypeInv
<1>2. x.pc = "held" /\ x.op.do \in {"write", "append"} /\ tree' = tree /\ size' = size
      /\ blksz' = blksz /\ data' = data /\ PlaceOk(x, blksz) /\ AppendOk(x, data)
  BY Zenon, <1>1 DEF WriteBegin, At, Does, file, Inv, FileInv
<1>3. PICK w : w = IF x.op.do = "write" THEN x.op.off ELSE IF x.len = UINT64_MAX THEN size ELSE x.off
  BY Zenon
<1>4. w = IF Does(t, {"write"}) THEN thr[t].op.off ELSE AppendOff(t)
  BY Zenon, <1>1, <1>3 DEF Does, AppendOff
<1>5. thr[t].pc \notin Free /\ thr[t].pc # "size" /\ data' \subseteq data /\ ~ReaderOp(x.op) /\ x.pc # "idle"
  BY Zenon, <1>1, <1>2 DEF Free, ReaderOp
<1>6. CASE w >= MAXOFFSET
  <2>1. Goto(t, "unlock")
    BY Zenon, <1>4, <1>6 DEF WriteBegin
  <2> QED
    BY Zenon, <1>2, <1>5, <2>1, DoneStep
<1>7. CASE ~(w >= MAXOFFSET)
  <2>1. x.op.len \in 1 .. (UINT64_MAX - 1)
    BY Zenon, <1>2, <1>5 DEF PlaceOk
  <2>2. x.op.off \in 0 .. MAXOFFSET /\ x.off \in Nat /\ x.len \in Nat /\ size \in 0 .. MAXOFFSET
        /\ blksz \in 1 .. SPA_MAXBLOCKSIZE /\ data \subseteq Nat
    BY Zenon, <1>1, ThrIs DEF Inv, TypeInv
  <2>3. w \in Nat /\ w < MAXOFFSET /\ x.op.len \in Nat \ {0} /\ MAXOFFSET - w \in Nat \ {0} /\ size \in Nat
        /\ blksz \in Nat
    BY SMT, <1>3, <1>7, <2>1, <2>2, Consts
  <2>4. PICK n : n = Min({x.op.len, MAXOFFSET - w})
    BY Zenon
  <2>5. n = IF x.op.len <= MAXOFFSET - w THEN x.op.len ELSE MAXOFFSET - w
    BY Zenon, <2>3, <2>4, MinTwo
  <2>6. n \in Nat /\ n \in 1 .. x.op.len /\ w + n <= MAXOFFSET
    BY SMT, <2>3, <2>5, Consts
  <2>7. PICK y : y = [x EXCEPT !.pc = "chunk", !.woff = w, !.n = n]
    BY Zenon
  <2>8. y \in ThrType /\ y.pc = "chunk" /\ y.op = x.op /\ y.off = x.off /\ y.len = x.len
        /\ y.woff = w /\ y.n = n
    <3>1. "chunk" \in Pcs
      BY Zenon DEF Pcs, Writing
    <3> QED
      BY Zenon, <2>3, <2>6, <2>7, <3>1 DEF ThrType
  <2>9. Moves(thr, thr', t, y)
    <3>1. Set(t, y)
      BY Zenon, <1>1, <1>4, <1>7, <2>4, <2>7 DEF WriteBegin
    <3> QED
      BY Zenon, <2>8, <3>1, SetMoves DEF Inv, TypeInv
  <2>10. ASSUME x.len # UINT64_MAX
         PROVE  x.off <= w /\ w + n <= x.off + x.len /\ Fits(blksz, w + n) /\ x.off = w /\ n <= x.len
    <3>1. w = x.off /\ x.len = x.op.len /\ Fits(blksz, x.off + x.len)
      BY Zenon, <1>2, <1>3, <2>10 DEF PlaceOk
    <3> QED
      BY SMT, <2>2, <2>3, <2>6, <3>1 DEF Fits
  <2>11. PlaceOk(y, blksz)
    BY Zenon, <1>2, <2>6, <2>8, <2>10 DEF PlaceOk, Free, Writing, ReaderOp
  <2>12. ASSUME x.op.do = "append", NEW s \in data, s \in Sectors(w, n) PROVE FALSE
    <3>1. CASE x.len = UINT64_MAX
      <4>1. w = size /\ Holders(thr) = {t}
        BY Zenon, <1>1, <1>3, <1>5, <2>12, <3>1, WholeLock
      <4>2. s < size /\ s \in Nat
        BY Zenon, <1>5, <2>2, <4>1, NothingBeyond
      <4> QED
        BY SMT, <2>3, <2>6, <2>12, <4>1, <4>2 DEF Sectors
    <3>2. CASE x.len # UINT64_MAX
      <4>1. Sectors(x.off, x.len) \cap data = {}
        BY Zenon, <1>2, <2>12, <3>2 DEF AppendOk
      <4>2. s \in Sectors(x.off, x.len)
        BY SMT, <2>2, <2>3, <2>6, <2>10, <2>12, <3>2 DEF Sectors
      <4> QED
        BY Zenon, <4>1, <4>2
    <3> QED
      BY Zenon, <3>1, <3>2
  <2>13. AppendOk(y, data')
    BY Zenon, <1>2, <2>8, <2>12 DEF AppendOk
  <2>14. y.pc # "asleep" /\ y.pc \notin Free
    BY Zenon, <2>8 DEF Free
  <2> QED
    BY Zenon, <1>1, <1>2, <1>5, <2>8, <2>9, <2>11, <2>13, <2>14, QuietStep
<1> QED
  BY Zenon, <1>6, <1>7

(* The file changes under a lock of all.                                   *)
LEMMA AloneStep ==
    ASSUME Inv, NEW t, Holders(thr) = {t}, NEW y, Moves(thr, thr', t, y), tree' = tree,
           size' \in 0 .. MAXOFFSET, blksz' \in 1 .. SPA_MAXBLOCKSIZE, Fits(blksz', size'),
           data' \subseteq data, \A s \in data' : s < size',
           y.pc \notin Free, y.off = thr[t].off, y.len = thr[t].len, y.op = thr[t].op,
           PlaceOk(y, blksz'), AppendOk(y, data')
    PROVE  Inv'
<1>1. TypeInv'
  BY Zenon DEF Inv, TypeInv, Moves
<1>2. LockInv(tree, thr') /\ SleepInv(tree, thr')
  <2>1. thr[t].pc \notin Free /\ y.pc # "asleep"
    BY Zenon DEF Holders, Free
  <2> QED
    BY Zenon, <2>1, QuietLock DEF Inv
<1>3. ASSUME NEW u \in Threads PROVE PlaceOk(thr'[u], blksz') /\ AppendOk(thr'[u], data')
  <2>1. CASE u = t
    BY Zenon, <2>1 DEF Moves
  <2>2. CASE u # t
    <3>0. thr \in [Threads -> ThrType] /\ PlaceOk(thr[u], blksz)
      BY Zenon DEF Inv, TypeInv, FileInv
    <3>1. thr[u].pc \in Free /\ thr[u] \in ThrType /\ PlaceOk(thr[u], blksz)
      <4>1. u \notin Holders(thr)
        BY Zenon, <2>2
      <4>2. thr[u].pc \in Free
        BY ONLY Zenon, <1>3, <4>1 DEF Holders
      <4> QED
        BY Zenon, <1>3, <3>0, <4>2
    <3>2. CASE thr'[u] = thr[u]
      BY Zenon, <3>1, <3>2, PlaceFree
    <3>3. CASE thr[u].pc = "asleep" /\ GoneTo(thr[u], thr'[u], "lock")
      BY Zenon, <3>1, <3>3, PlaceWoken
    <3> QED
      BY Zenon, <2>2, <3>2, <3>3 DEF Moves
  <2> QED
    BY Zenon, <2>1, <2>2
<1>4. FileInv(thr', size', blksz', data')
  BY Zenon, <1>3 DEF FileInv, InSize
<1> QED
  BY Zenon, <1>1, <1>2, <1>4 DEF Inv

LEMMA NextP2Is ==
    ASSUME NEW b \in 1 .. SPA_MAXBLOCKSIZE
    PROVE  NextP2(b) \in b .. SPA_MAXBLOCKSIZE /\ ISP2(NextP2(b))
<1> DEFINE S == {p \in b .. SPA_MAXBLOCKSIZE : ISP2(p)}
<1>1. b .. SPA_MAXBLOCKSIZE \subseteq Nat /\ SPA_MAXBLOCKSIZE \in b .. SPA_MAXBLOCKSIZE
  BY SMT, Consts
<1>2. S \subseteq Nat /\ S # {}
  BY Zenon, <1>1, BlocksAssumption
<1>3. Min(S) \in S
  <2> HIDE DEF S
  <2> QED
    BY Zenon, <1>2, Minimum
<1> QED
  BY Zenon, <1>3 DEF NextP2

(* zfs_grow_blocksize leaves a power of two or a block that holds the file. *)
LEMMA GrownFits ==
    ASSUME Inv, NEW end \in Nat, size <= end, NEW b \in Grown(NewBlksz(end))
    PROVE  b \in 1 .. SPA_MAXBLOCKSIZE /\ Fits(b, end)
<1>1. size \in 0 .. MAXOFFSET /\ blksz \in 1 .. SPA_MAXBLOCKSIZE /\ Fits(blksz, size)
  BY Zenon DEF Inv, TypeInv, FileInv
<1>2. PICK lim : lim = IF blksz > z_max_blksz THEN NextP2(blksz) ELSE z_max_blksz
  BY Zenon
<1>3. lim \in Nat /\ lim <= SPA_MAXBLOCKSIZE /\ ISP2(lim) /\ blksz <= lim
  <2>1. CASE blksz > z_max_blksz
    <3>1. lim \in blksz .. SPA_MAXBLOCKSIZE /\ ISP2(lim)
      BY Zenon, <1>1, <1>2, <2>1, NextP2Is
    <3> QED
      BY SMT, <1>1, <3>1, Consts
  <2>2. CASE ~(blksz > z_max_blksz)
    <3>1. lim = z_max_blksz /\ z_max_blksz \in 1 .. SPA_MAXBLOCKSIZE /\ ISP2(lim)
      BY Zenon, <1>2, <2>2, BlocksAssumption
    <3> QED
      BY SMT, <1>1, <2>2, <3>1, Consts
  <2> QED
    BY Zenon, <2>1, <2>2
<1>4. PICK new : new = NewBlksz(end)
  BY Zenon
<1>5. new = IF end <= lim THEN end ELSE lim
  <2>1. new = Min({end, lim})
    BY Zenon, <1>2, <1>4 DEF NewBlksz
  <2> QED
    BY Zenon, <1>3, <2>1, MinTwo
<1>6. CASE new <= blksz \/ size > blksz
  <2>1. b = blksz
    BY Zenon, <1>4, <1>6 DEF Grown
  <2>2. ASSUME ~ISP2(blksz) PROVE end <= blksz
    <3>1. size <= blksz /\ lim # blksz
      BY Zenon, <1>1, <1>3, <2>2 DEF Fits
    <3> QED
      BY SMT, <1>1, <1>3, <1>5, <1>6, <3>1, Consts
  <2> QED
    BY Zenon, <1>1, <2>1, <2>2 DEF Fits
<1>7. CASE ~(new <= blksz \/ size > blksz)
  <2>1. b = new \/ (b = blksz /\ ISP2(b))
    BY Zenon, <1>4, <1>7 DEF Grown
  <2>2. CASE b = blksz /\ ISP2(b)
    BY Zenon, <1>1, <2>2 DEF Fits
  <2>3. CASE b = new
    <3>1. b \in 1 .. SPA_MAXBLOCKSIZE /\ (b = lim \/ end <= b)
      BY SMT, <1>1, <1>3, <1>5, <1>7, <2>3, Consts
    <3> QED
      BY Zenon, <1>3, <3>1 DEF Fits
  <2> QED
    BY Zenon, <2>1, <2>2, <2>3
<1> QED
  BY Zenon, <1>6, <1>7

LEMMA WriteGrowStep ==
    ASSUME Inv, NEW t \in Threads, WriteGrow(t)
    PROVE  Inv'
<1>1. PICK x \in ThrType : x = thr[t]
  BY Zenon DEF Inv, TypeInv
<1>2. x.pc = "chunk" /\ x.len = UINT64_MAX /\ tree' = tree /\ size' = size /\ data' = data
      /\ PlaceOk(x, blksz) /\ AppendOk(x, data) /\ Goto(t, "reduce")
  BY Zenon, <1>1 DEF WriteGrow, At, Inv, FileInv
<1>3. x.pc \notin Free /\ ~ReaderOp(x.op) /\ x.op.do \in {"write", "append"} /\ x.pc # "size"
  BY Zenon, <1>2 DEF PlaceOk, Free, Writing, ReaderOp
<1>4. Holders(thr) = {t}
  BY Zenon, <1>1, <1>2, <1>3, WholeLock
<1>5. size \in 0 .. MAXOFFSET /\ x.woff \in Nat /\ x.n \in Nat /\ data \subseteq Nat
  BY Zenon, <1>1, ThrIs DEF Inv, TypeInv
<1>6. size \in Nat /\ x.woff + x.n \in Nat
  BY SMT, <1>5, Consts
<1>7. PICK end : end = Max({size, x.woff + x.n})
  BY Zenon
<1>8. end = IF size >= x.woff + x.n THEN size ELSE x.woff + x.n
  BY Zenon, <1>6, <1>7, MaxTwo
<1>9. end \in Nat /\ size <= end /\ x.woff + x.n <= end
  BY SMT, <1>6, <1>8
<1>10. blksz' \in Grown(NewBlksz(end))
  BY Zenon, <1>1, <1>7 DEF WriteGrow
<1>11. blksz' \in 1 .. SPA_MAXBLOCKSIZE /\ Fits(blksz', end)
  BY Zenon, <1>9, <1>10, GrownFits
<1>12. Fits(blksz', size) /\ Fits(blksz', x.woff + x.n)
  BY SMT, <1>6, <1>9, <1>11, Consts DEF Fits
<1>13. PICK y : y = [x EXCEPT !.pc = "reduce"]
  BY Zenon
<1>14. GoneTo(x, y, "reduce")
  <2>1. "reduce" \in Pcs
    BY Zenon DEF Pcs, Writing
  <2> QED
    BY Zenon, <1>13, <2>1, GotoIs
<1>15. y \in ThrType /\ y.pc = "reduce" /\ y.op = x.op /\ y.off = x.off /\ y.len = x.len
       /\ y.woff = x.woff /\ y.n = x.n
  BY Zenon, <1>14 DEF GoneTo
<1>16. Moves(thr, thr', t, y)
  BY Zenon, <1>1, <1>2, <1>13, <1>15, SetMoves DEF Goto, Inv, TypeInv
<1>17. PlaceOk(y, blksz')
  BY Zenon, <1>2, <1>3, <1>12, <1>15 DEF PlaceOk, Free, Writing, ReaderOp
<1>18. AppendOk(y, data')
  BY Zenon, <1>2, <1>15 DEF AppendOk
<1>19. \A s \in data' : s < size'
  BY Zenon, <1>1, <1>2, <1>3, <1>4, NothingBeyond
<1>20. y.pc \notin Free /\ data' \subseteq data
  BY Zenon, <1>2, <1>15 DEF Free
<1> QED
  BY Zenon, <1>1, <1>2, <1>4, <1>5, <1>11, <1>12, <1>15, <1>16, <1>17, <1>18, <1>19, <1>20, AloneStep

(* zfs_extend and zfs_trunc are done, under their lock of all.             *)
LEMMA WholeDone ==
    ASSUME Inv, NEW t \in Threads, Holders(thr) = {t}, Goto(t, "unlock"), tree' = tree,
           size' \in 0 .. MAXOFFSET, blksz' \in 1 .. SPA_MAXBLOCKSIZE, Fits(blksz', size'),
           data' \subseteq data, \A s \in data' : s < size'
    PROVE  Inv'
<1>1. PICK y : y = [thr[t] EXCEPT !.pc = "unlock"]
  BY Zenon
<1>2. thr[t] \in ThrType /\ thr \in [Threads -> ThrType] /\ "unlock" \in Pcs /\ PlaceOk(thr[t], blksz)
      /\ thr[t].pc \notin Free
  BY Zenon DEF Inv, TypeInv, FileInv, Pcs, Holders
<1>3. GoneTo(thr[t], y, "unlock")
  BY Zenon, <1>1, <1>2, GotoIs
<1>4. y \in ThrType /\ y.pc = "unlock" /\ y.op = thr[t].op /\ y.off = thr[t].off /\ y.len = thr[t].len
  BY Zenon, <1>3 DEF GoneTo
<1>5. Moves(thr, thr', t, y)
  BY Zenon, <1>1, <1>2, <1>4, SetMoves DEF Goto
<1>6. AppendOk(y, data')
  BY Zenon, <1>4 DEF AppendOk
<1>7. PlaceOk(y, blksz')
  BY Zenon, <1>2, <1>4 DEF PlaceOk, Free, Writing
<1>8. y.pc \notin Free
  BY Zenon, <1>4 DEF Free
<1> QED
  BY Zenon, <1>4, <1>5, <1>6, <1>7, <1>8, AloneStep

LEMMA ExtendTruncSteps ==
    ASSUME Inv, NEW t \in Threads, Extend(t) \/ Trunc(t)
    PROVE  Inv'
<1>1. thr[t].pc = "held" /\ thr[t].op.do \in {"extend", "trunc"} /\ tree' = tree /\ Goto(t, "unlock")
  BY Zenon DEF Extend, Trunc, At, Does
<1>2. thr[t].pc \notin Free /\ ~ReaderOp(thr[t].op) /\ thr[t].len = UINT64_MAX /\ thr[t].pc # "size"
  BY Zenon, <1>1 DEF Inv, FileInv, PlaceOk, Free, ReaderOp
<1>3. Holders(thr) = {t}
  BY Zenon, <1>2, WholeLock
<1>4. PICK end : end = thr[t].op.off
  BY Zenon
<1>5. end \in 0 .. MAXOFFSET /\ size \in 0 .. MAXOFFSET /\ blksz \in 1 .. SPA_MAXBLOCKSIZE
      /\ Fits(blksz, size) /\ data \subseteq Nat
  BY Zenon, <1>4, ThrIs DEF Inv, TypeInv, FileInv
<1>6. ASSUME NEW s \in data PROVE s < size /\ s \in Nat
  BY Zenon, <1>2, <1>3, <1>5, NothingBeyond
<1>7. CASE size' = size /\ blksz' = blksz /\ data' = data
  <2>1. data' \subseteq data /\ \A s \in data' : s < size'
    BY Zenon, <1>6, <1>7
  <2> QED
    BY Zenon, <1>1, <1>3, <1>5, <1>7, <2>1, WholeDone
<1>8. CASE Extend(t) /\ end > size /\ size' = end /\ data' = data
           /\ blksz' \in IF end > blksz /\ (~ISP2(blksz) \/ blksz < z_max_blksz)
                         THEN Grown(NewBlksz(end)) ELSE {blksz}
  <2>1. end \in Nat /\ size <= end
    BY SMT, <1>5, <1>8, Consts
  <2>2. blksz' \in 1 .. SPA_MAXBLOCKSIZE /\ Fits(blksz', end)
    <3>1. CASE end > blksz /\ (~ISP2(blksz) \/ blksz < z_max_blksz)
      BY Zenon, <1>8, <2>1, <3>1, GrownFits
    <3>2. CASE ~(end > blksz /\ (~ISP2(blksz) \/ blksz < z_max_blksz))
      <4>1. blksz' = blksz
        BY Zenon, <1>8, <3>2
      <4>2. ISP2(blksz) \/ end <= blksz
        BY SMT, <1>5, <3>2, Consts
      <4> QED
        BY Zenon, <1>5, <4>1, <4>2 DEF Fits
    <3> QED
      BY Zenon, <3>1, <3>2
  <2>3. ASSUME NEW s \in data PROVE s < end
    <3>1. s < size /\ s \in Nat
      BY Zenon, <1>6
    <3> QED
      BY SMT, <1>5, <2>1, <3>1, Consts
  <2>4. data' \subseteq data /\ \A s \in data' : s < size'
    BY Zenon, <1>8, <2>3
  <2> QED
    BY Zenon, <1>1, <1>3, <1>5, <1>8, <2>2, <2>4, WholeDone
<1>9. CASE Trunc(t) /\ end < size /\ data' = {s \in data : s < end} /\ size' \in {size, end} /\ blksz' = blksz
  <2>1. ASSUME NEW s \in data' PROVE s \in data /\ s < size'
    <3>1. s \in data /\ s < end /\ s < size
      BY Zenon, <1>6, <1>9
    <3> QED
      BY Zenon, <1>9, <3>1
  <2>2. Fits(blksz, size')
    BY SMT, <1>5, <1>9, Consts DEF Fits
  <2>3. data' \subseteq data /\ size' \in 0 .. MAXOFFSET
    BY Zenon, <1>5, <1>9, <2>1
  <2> QED
    BY Zenon, <1>1, <1>3, <1>5, <1>9, <2>1, <2>2, <2>3, WholeDone
<1>10. CASE Extend(t)
  BY Zenon, <1>4, <1>7, <1>8, <1>10 DEF Extend, file
<1>11. CASE Trunc(t)
  BY Zenon, <1>4, <1>7, <1>9, <1>11 DEF Trunc
<1> QED
  BY Zenon, <1>10, <1>11
=============================================================================
