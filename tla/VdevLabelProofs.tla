-------------------------- MODULE VdevLabelProofs --------------------------
(***************************************************************************)
(* Proofs about vdev_config_sync and the choice of an uberblock and of a   *)
(* label, for every set of leaves, number of labels and of uberblocks in a *)
(* ring, and every scenario.                                               *)
(***************************************************************************)
EXTENDS VdevLabel, FiniteSetTheorems, WellFoundedInduction, TLAPS

-----------------------------------------------------------------------------
(* The inductive invariants.                                               *)

Ub == [txg : Nat, ts : Nat]
RingSlots == 0 .. (VDEV_UBERBLOCK_COUNT - 1)
Flushing == {"evenflush", "ubflush", "oddflush"}
Syncing == {"data", "even", "ub", "odd", "suspended"} \cup Flushing

SpaType == [pc : Syncing \cup {"idle", "down", "load"}, txg : Nat, boot : Nat, ub : Ub,
            dirty : SUBSET Tops, svd : SUBSET Tops, tryhard : BOOLEAN, error : BOOLEAN]
HistType == [synced : Ub, base : Ub, cfg : [Tops -> Ub], lost : SUBSET Ub]

TypeInv ==
    /\ spa \in SpaType
    /\ label \in [Leaves -> [Labels -> Ub]]
    /\ ring \in [Leaves -> [Labels -> [RingSlots -> Ub]]]
    /\ cache \subseteq Leaves \X Labels /\ data \subseteq Leaves
    /\ present \subseteq Leaves /\ present # {}
    /\ hist \in HistType
    /\ pool \in ScenarioType /\ budget \in ScenarioType

(* What a sync writes, and when something is not flushed.                  *)
SyncInv ==
    /\ spa.boot > 0
    /\ spa.pc \in Syncing => spa.ub = [txg |-> spa.txg, ts |-> spa.boot]
    /\ data # {} => spa.pc = "data"
    /\ cache # {} => spa.pc \in Flushing
    /\ spa.txg <= InitTxg + pool.last

(* The rings have no uberblock of the future and none whose blocks were    *)
(* lost, and each is in its slot.                                          *)
Sound(u, n) ==
    /\ u.ts <= spa.boot /\ u.txg <= InitTxg + pool.last
    /\ u.ts = spa.boot => u.txg <= spa.txg
    /\ u \notin hist.lost
    /\ data # {} => u # spa.ub
    /\ u = None \/ n = Slot(u)

RingInv == \A v \in Leaves, l \in Labels, n \in RingSlots : Sound(ring[v][l][n], n)

LostInv ==
    \A u \in hist.lost : /\ u.ts > 0 /\ u.ts <= spa.boot
                         /\ u.ts = spa.boot => spa.pc \in {"down", "load"}

DataInv == TypeInv /\ SyncInv /\ RingInv /\ LostInv

(* If the ring has room for the txgs without an uberblock, and no leaf is  *)
(* missing: the last uberblock committed or chosen is in its slot of some  *)
(* ring, and only the one that is being written is newer.                  *)
Roomy == pool.noop + 2 <= VDEV_UBERBLOCK_COUNT
Covered == pool.missing = 0 /\ Roomy
OnRing(ub) == \E v \in Leaves, l \in Labels : ring[v][l][Slot(ub)] = ub

NoneNewer(ub) == \A v \in Leaves, l \in Labels, n \in RingSlots :
                    ring[v][l][n] = spa.ub \/ ~Newer(ring[v][l][n], ub)

Base ==
    /\ budget.noop <= pool.noop
    /\ OnRing(hist.base) /\ NoneNewer(hist.base)
    /\ spa.pc = "idle" => spa.ub = hist.base
    /\ \/ spa.ub = hist.base /\ spa.pc \notin Syncing
       \/ /\ hist.base.txg < spa.ub.txg
          /\ spa.ub.txg < hist.base.txg + VDEV_UBERBLOCK_COUNT
    /\ spa.ub.txg <= spa.txg
    /\ spa.txg + budget.noop <= hist.base.txg + pool.noop + IF spa.pc = "idle" THEN 0 ELSE 1
    /\ spa.pc = "ubflush" /\ ~spa.error => cache # {}
    /\ spa.pc \in {"odd", "oddflush"} => OnRing(spa.ub)

Full == present = Leaves /\ budget.missing = 0

BaseInv == Covered => Base /\ Full

-----------------------------------------------------------------------------
(* Arithmetic                                                              *)

LEMMA NoMultipleBetween ==
    ASSUME NEW N \in Nat \ {0}, NEW p \in Int, NEW q \in Int,
           0 < N * p - N * q, N * p - N * q < N
    PROVE  FALSE
<1>1. N * p - N * q = N * (p - q)
  BY SMTT(10)
<1>2. p - q >= 1 \/ p - q <= 0
  BY SMT
<1>3. p - q >= 1 => N * (p - q) >= N
  BY SMTT(10)
<1>4. p - q <= 0 => N * (p - q) <= 0
  BY SMTT(10)
<1> QED
  BY SMT, <1>1, <1>2, <1>3, <1>4

LEMMA DivMod ==
    ASSUME NEW N \in Nat \ {0}, NEW a \in Nat
    PROVE  /\ a % N \in 0 .. (N - 1) /\ a \div N \in Nat
           /\ a = N * (a \div N) + (a % N)
BY SMTT(10)

LEMMA SameRemainder ==
    ASSUME NEW N \in Nat \ {0}, NEW a \in Nat, NEW b \in Nat, a < b, b < a + N,
           NEW p \in Nat, NEW q \in Nat, NEW r \in Nat, a = N * p + r, b = N * q + r
    PROVE  FALSE
<1>1. N * p \in Int /\ N * q \in Int
  BY SMT
<1>2. 0 < N * q - N * p /\ N * q - N * p < N
  BY SMT, <1>1
<1> QED
  BY SMT, <1>2, NoMultipleBetween

(* Uberblocks less than a ring apart have different slots.                 *)
LEMMA SlotsDiffer ==
    ASSUME NEW N \in Nat \ {0}, NEW a \in Nat, NEW b \in Nat, a < b, b < a + N
    PROVE  a % N # b % N
<1> SUFFICES ASSUME a % N = b % N PROVE FALSE
  OBVIOUS
<1>1. a = N * (a \div N) + (a % N) /\ a \div N \in Nat /\ a % N \in 0 .. (N - 1)
  BY Zenon, DivMod
<1>2. b = N * (b \div N) + (a % N) /\ b \div N \in Nat
  BY Zenon, DivMod
<1>3. a % N \in Nat
  BY SMT, <1>1
<1> QED
  BY Zenon, <1>1, <1>2, <1>3, SameRemainder

(* The least and the greatest of a set of numbers.                         *)
LEMMA LeastExists ==
    ASSUME NEW S \in SUBSET Nat, S # {}
    PROVE  \E x \in S : \A y \in S : x <= y
<1>1. PICK x \in S : \A y \in S : ~(<<y, x>> \in OpToRel(<, Nat))
  BY Zenon, WFMin, NatLessThanWellFounded
<1>2. ASSUME NEW y \in S PROVE x <= y
  <2>1. ~(<<y, x>> \in OpToRel(<, Nat))
    BY Zenon, <1>1
  <2>2. ~(y < x)
    BY SMT, <2>1 DEF OpToRel
  <2> QED
    BY SMT, <2>2
<1> QED
  BY Zenon, <1>2

LEMMA GreatestExists ==
    ASSUME NEW S \in SUBSET Nat, S # {}, NEW n \in Nat, \A x \in S : x <= n
    PROVE  \E x \in S : \A y \in S : y <= x
<1> DEFINE D == {d \in Nat : \E x \in S : d = n - x}
<1>1. \A x \in S : n - x \in D
  BY SMT
<1>2. PICK d \in D : \A e \in D : d <= e
  BY Zenon, <1>1, LeastExists
<1>3. PICK x \in S : d = n - x
  BY Zenon
<1>4. ASSUME NEW y \in S PROVE y <= x
  <2>1. n - x <= n - y
    BY Zenon, <1>1, <1>2, <1>3
  <2> QED
    BY SMT, <2>1
<1> QED
  BY Zenon, <1>4

-----------------------------------------------------------------------------
(* DataInv is inductive.                                                   *)

LEMMA Bounded ==
    ASSUME TypeInv
    PROVE  /\ spa.txg \in Nat /\ spa.boot \in Nat /\ spa.ub \in Ub
           /\ spa.ub.txg \in Nat /\ spa.ub.ts \in Nat
           /\ pool.last \in Nat /\ pool.missing \in Nat /\ pool.noop \in Nat
           /\ budget.missing \in Nat /\ budget.noop \in Nat
           /\ hist.base \in Ub /\ hist.base.txg \in Nat /\ hist.base.ts \in Nat
           /\ hist.lost \subseteq Ub /\ InitTxg \in Nat /\ None \in Ub
           /\ \A u \in Ub : u.txg \in Nat /\ u.ts \in Nat
<1>1. /\ spa.txg \in Nat /\ spa.boot \in Nat /\ spa.ub \in Ub
      /\ hist.base \in Ub /\ hist.lost \subseteq Ub
  BY Zenon DEF TypeInv, SpaType, HistType
<1>2. pool.last \in Nat /\ pool.missing \in Nat /\ pool.noop \in Nat
      /\ budget.missing \in Nat /\ budget.noop \in Nat
  BY Zenon DEF TypeInv, ScenarioType
<1>3. \A u \in Ub : u.txg \in Nat /\ u.ts \in Nat
  BY Zenon DEF Ub
<1>4. None \in Ub
  BY SMT DEF None, Ub
<1> QED
  BY Zenon, <1>1, <1>2, <1>3, <1>4, PoolAssumption

LEMMA RingEntry ==
    ASSUME TypeInv, NEW v \in Leaves, NEW l \in Labels
    PROVE  ring[v] \in [Labels -> [RingSlots -> Ub]] /\ ring[v][l] \in [RingSlots -> Ub]
           /\ \A n \in RingSlots : ring[v][l][n] \in Ub
<1>1. ring[v] \in [Labels -> [RingSlots -> Ub]]
  BY Zenon DEF TypeInv
<1>2. ring[v][l] \in [RingSlots -> Ub]
  BY Zenon, <1>1
<1> QED
  BY Zenon, <1>1, <1>2

LEMMA RingSame ==
    ASSUME TypeInv, RingInv, ring' = ring,
           \A u \in Ub, n \in RingSlots : Sound(u, n) => Sound(u, n)'
    PROVE  RingInv'
<1>1. ASSUME NEW v \in Leaves, NEW l \in Labels, NEW n \in RingSlots
      PROVE  Sound(ring[v][l][n], n)'
  <2>1. Sound(ring[v][l][n], n) /\ ring[v][l][n] \in Ub
    BY Zenon, RingEntry DEF RingInv
  <2> QED
    BY Zenon, <2>1 DEF Sound
<1> QED
  BY Zenon, <1>1 DEF RingInv

LEMMA DataInit == Init => DataInv
<1> SUFFICES ASSUME Init PROVE DataInv
  OBVIOUS
<1> DEFINE ub == [txg |-> InitTxg, ts |-> 1]
           m == InitTxg % VDEV_UBERBLOCK_COUNT
<1>1. ub \in Ub /\ None \in Ub /\ InitTxg \in Nat
  BY SMT, PoolAssumption DEF Ub, None
<1>2. m \in RingSlots
  BY Zenon, PoolAssumption, DivMod DEF RingSlots
<1>3. pool \in ScenarioType /\ budget \in ScenarioType
  BY Zenon, PoolAssumption DEF Init
<1>4. label \in [Leaves -> [Labels -> Ub]]
  BY Zenon, <1>1 DEF Init
<1>5. \A v \in Leaves, l \in Labels : ring[v][l] = [n \in RingSlots |-> IF n = m THEN ub ELSE None]
  BY Zenon DEF Init, RingSlots
<1>6. ring \in [Leaves -> [Labels -> [RingSlots -> Ub]]]
  <2>1. [n \in RingSlots |-> IF n = m THEN ub ELSE None] \in [RingSlots -> Ub]
    BY Zenon, <1>1
  <2>2. ring = [v \in Leaves |-> [l \in Labels |->
                  [n \in RingSlots |-> IF n = m THEN ub ELSE None]]]
    BY Zenon DEF Init, RingSlots
  <2> QED
    BY Zenon, <2>1, <2>2
<1>7. /\ spa = [pc |-> "idle", txg |-> InitTxg, boot |-> 1, ub |-> ub, dirty |-> {},
                svd |-> {}, tryhard |-> FALSE, error |-> FALSE]
      /\ hist = [synced |-> ub, base |-> ub, cfg |-> [t \in Tops |-> ub], lost |-> {}]
      /\ cache = {} /\ data = {} /\ present = Leaves
  BY Zenon DEF Init
<1>8. TypeInv
  <2>1. spa \in SpaType
    <3>1. 1 \in Nat
      BY SMT
    <3> QED
      BY Zenon, <1>1, <1>7, <3>1 DEF SpaType
  <2>2. hist \in HistType
    BY Zenon, <1>1, <1>7 DEF HistType
  <2> QED
    BY Zenon, <1>3, <1>4, <1>6, <1>7, <2>1, <2>2, PoolAssumption DEF TypeInv
<1>9. spa.txg = InitTxg /\ spa.boot = 1 /\ spa.pc = "idle" /\ hist.lost = {}
  BY Zenon, <1>7
<1>10. pool.last \in Nat
  BY Zenon, <1>3 DEF ScenarioType
<1>11. SyncInv
  <2>1. spa.boot > 0 /\ spa.txg <= InitTxg + pool.last
    BY SMT, <1>1, <1>9, <1>10
  <2> QED
    BY Zenon, <1>7, <1>9, <2>1 DEF SyncInv, Syncing, Flushing
<1>12. RingInv
  <2>1. ASSUME NEW v \in Leaves, NEW l \in Labels, NEW n \in RingSlots
        PROVE  Sound(ring[v][l][n], n)
    <3>1. ring[v][l][n] = IF n = m THEN ub ELSE None
      BY Zenon, <1>5
    <3>2. Sound(None, n)
      <4>1. None.ts = 0 /\ None.txg = 0
        BY Zenon DEF None
      <4>2. None.ts <= spa.boot /\ None.txg <= InitTxg + pool.last /\ None.ts # spa.boot
        BY SMT, <4>1, <1>1, <1>9, <1>10
      <4> QED
        BY Zenon, <4>2, <1>7, <1>9 DEF Sound
    <3>3. Sound(ub, m)
      <4>1. ub.ts = 1 /\ ub.txg = InitTxg
        OBVIOUS
      <4>2. ub.ts <= spa.boot /\ ub.txg <= InitTxg + pool.last /\ ub.txg <= spa.txg
        BY SMT, <4>1, <1>1, <1>9, <1>10
      <4>3. Slot(ub) = m
        BY Zenon, <4>1 DEF Slot
      <4> QED
        BY Zenon, <4>2, <4>3, <1>7, <1>9 DEF Sound
    <3> QED
      BY Zenon, <3>1, <3>2, <3>3
  <2> QED
    BY Zenon, <2>1 DEF RingInv
<1>13. LostInv
  BY Zenon, <1>9 DEF LostInv
<1> QED
  BY Zenon, <1>8, <1>11, <1>12, <1>13 DEF DataInv

LEMMA SyncTxgData == DataInv /\ SyncTxg => DataInv'
<1> SUFFICES ASSUME DataInv, SyncTxg PROVE DataInv'
  OBVIOUS
<1>i. TypeInv /\ SyncInv /\ RingInv /\ LostInv
  BY Zenon DEF DataInv
<1>b. /\ spa.txg \in Nat /\ spa.boot \in Nat /\ pool.last \in Nat /\ InitTxg \in Nat
      /\ \A u \in Ub : u.txg \in Nat /\ u.ts \in Nat
  BY Zenon, <1>i, Bounded
<1>0. PICK dirty \in SUBSET Tops : \E svd \in SyncVdevs(dirty) :
          spa' = [spa EXCEPT !.pc = "data", !.txg = @ + 1, !.dirty = dirty, !.svd = svd,
                    !.ub = [txg |-> spa.txg + 1, ts |-> spa.boot],
                    !.tryhard = FALSE, !.error = FALSE]
  BY Zenon DEF SyncTxg
<1>1. PICK svd \in SyncVdevs(dirty) :
          spa' = [spa EXCEPT !.pc = "data", !.txg = @ + 1, !.dirty = dirty, !.svd = svd,
                    !.ub = [txg |-> spa.txg + 1, ts |-> spa.boot],
                    !.tryhard = FALSE, !.error = FALSE]
  BY Zenon, <1>0
<1>2. /\ spa.pc = "idle" /\ spa.txg < pool.last /\ data' = present /\ label' = label
      /\ ring' = ring /\ cache' = cache /\ present' = present /\ hist' = hist
      /\ pool' = pool /\ budget' = budget
  BY Zenon DEF SyncTxg, bounds, At
<1>3. spa.txg + 1 \in Nat /\ [txg |-> spa.txg + 1, ts |-> spa.boot] \in Ub
  BY SMT, <1>b DEF Ub
<1>4. svd \in SUBSET Tops
  BY Zenon DEF SyncVdevs
<1>5. Tops' = Tops
  BY Zenon, <1>2 DEF Tops, Top
<1>6. TypeInv'
  <2>1. spa' \in SpaType
    BY Zenon, <1>i, <1>1, <1>3, <1>4 DEF TypeInv, SpaType, Syncing
  <2> QED
    BY Zenon, <1>i, <1>2, <1>5, <2>1 DEF TypeInv, SpaType, HistType
<1>7. /\ spa'.pc = "data" /\ spa'.txg = spa.txg + 1 /\ spa'.boot = spa.boot
      /\ spa'.ub = [txg |-> spa.txg + 1, ts |-> spa.boot]
  BY Zenon, <1>i, <1>1 DEF TypeInv, SpaType
<1>8. SyncInv'
  <2>1. spa'.txg <= InitTxg + pool.last
    BY SMT, <1>b, <1>2, <1>7
  <2> QED
    BY Zenon, <1>i, <1>2, <1>7, <2>1 DEF SyncInv, Syncing, Flushing
<1>9. RingInv'
  <2>1. ASSUME NEW u \in Ub, NEW n \in RingSlots, Sound(u, n) PROVE Sound(u, n)'
    <3>1. /\ u.ts <= spa.boot /\ u.txg <= InitTxg + pool.last
          /\ u.ts = spa.boot => u.txg <= spa.txg
          /\ u \notin hist.lost /\ (u = None \/ n = Slot(u))
      BY Zenon, <2>1 DEF Sound
    <3>2. u.ts = spa.boot => u.txg <= spa.txg + 1 /\ u.txg # spa.txg + 1
      BY SMT, <1>b, <3>1
    <3>3. u # [txg |-> spa.txg + 1, ts |-> spa.boot]
      BY SMT, <3>2
    <3> QED
      BY Zenon, <3>1, <3>2, <3>3, <1>2, <1>7 DEF Sound
  <2> QED
    BY Zenon, <2>1, <1>i, <1>2, RingSame
<1>10. LostInv'
  BY Zenon, <1>i, <1>2, <1>7 DEF LostInv
<1> QED
  BY Zenon, <1>6, <1>8, <1>9, <1>10 DEF DataInv

(* A step that changes neither the rings nor what they may hold.           *)
LEMMA QuietStep ==
    ASSUME TypeInv, RingInv, LostInv, ring' = ring, hist'.lost = hist.lost,
           spa'.boot = spa.boot, spa'.txg = spa.txg, spa'.ub = spa.ub, pool' = pool,
           data' \subseteq data,
           spa.pc \in {"down", "load"} => spa'.pc \in {"down", "load"}
    PROVE  RingInv' /\ LostInv'
<1>1. \A u \in Ub, n \in RingSlots : Sound(u, n) => Sound(u, n)'
  BY Zenon DEF Sound
<1>2. LostInv'
  BY Zenon DEF LostInv
<1> QED
  BY Zenon, <1>1, <1>2, RingSame

LEMMA SpendType ==
    ASSUME TypeInv, NEW n \in Nat,
           \E f \in {"werr", "crash", "missing", "noop"} : Spend(f, n)
    PROVE  /\ pool' = pool /\ budget' \in ScenarioType
           /\ budget'.missing <= budget.missing /\ budget'.noop <= budget.noop
           /\ budget'.werr <= budget.werr
<1>0. /\ budget \in ScenarioType /\ budget.werr \in Nat /\ budget.crash \in Nat
      /\ budget.missing \in Nat /\ budget.noop \in Nat
  BY Zenon DEF TypeInv, ScenarioType
<1>1. PICK f \in {"werr", "crash", "missing", "noop"} : Spend(f, n)
  BY Zenon
<1>2. pool' = pool /\ n <= budget[f] /\ budget' = [budget EXCEPT ![f] = budget[f] - n]
  BY Zenon, <1>1 DEF Spend
<1>3. budget[f] \in Nat
  BY Zenon, <1>0
<1>4. budget[f] - n \in Nat /\ budget[f] - n <= budget[f]
  BY SMT, <1>2, <1>3
<1>5. budget' \in ScenarioType
  BY Zenon, <1>0, <1>2, <1>4 DEF ScenarioType
<1>6. /\ \/ budget'.missing = budget.missing
         \/ budget'.missing = budget[f] - n /\ budget[f] = budget.missing
      /\ \/ budget'.noop = budget.noop
         \/ budget'.noop = budget[f] - n /\ budget[f] = budget.noop
      /\ \/ budget'.werr = budget.werr
         \/ budget'.werr = budget[f] - n /\ budget[f] = budget.werr
  BY Zenon, <1>0, <1>2 DEF ScenarioType
<1>7. /\ budget'.missing <= budget.missing /\ budget'.noop <= budget.noop
      /\ budget'.werr <= budget.werr
  BY SMT, <1>0, <1>4, <1>6
<1> QED
  BY Zenon, <1>2, <1>5, <1>7

LEMMA NoopTxgData == DataInv /\ NoopTxg => DataInv'
<1> SUFFICES ASSUME DataInv, NoopTxg PROVE DataInv'
  OBVIOUS
<1>i. TypeInv /\ SyncInv /\ RingInv /\ LostInv
  BY Zenon DEF DataInv
<1>b. /\ spa.txg \in Nat /\ spa.boot \in Nat /\ pool.last \in Nat /\ InitTxg \in Nat
      /\ \A u \in Ub : u.txg \in Nat /\ u.ts \in Nat
  BY Zenon, <1>i, Bounded
<1>1. /\ spa.pc = "idle" /\ spa.txg < pool.last /\ spa' = [spa EXCEPT !.txg = spa.txg + 1]
      /\ label' = label /\ ring' = ring /\ cache' = cache /\ data' = data
      /\ present' = present /\ hist' = hist /\ Spend("noop", 1)
  BY Zenon DEF NoopTxg, disk, At
<1>2. spa.txg + 1 \in Nat /\ 1 \in Nat
  BY SMT, <1>b
<1>3. pool' = pool /\ budget' \in ScenarioType
  BY Zenon, <1>i, <1>1, <1>2, SpendType
<1>4. Tops' = Tops
  BY Zenon, <1>3 DEF Tops, Top
<1>5. TypeInv'
  <2>1. spa' \in SpaType
    BY Zenon, <1>i, <1>1, <1>2 DEF TypeInv, SpaType
  <2> QED
    BY Zenon, <1>i, <1>1, <1>3, <1>4, <2>1 DEF TypeInv, SpaType, HistType
<1>6. spa'.pc = "idle" /\ spa'.txg = spa.txg + 1 /\ spa'.boot = spa.boot /\ spa'.ub = spa.ub
  BY Zenon, <1>i, <1>1 DEF TypeInv, SpaType
<1>7. SyncInv'
  <2>1. spa'.txg <= InitTxg + pool.last
    BY SMT, <1>b, <1>1, <1>6
  <2> QED
    BY Zenon, <1>i, <1>1, <1>3, <1>6, <2>1 DEF SyncInv, Syncing, Flushing
<1>8. ASSUME NEW u \in Ub, NEW n \in RingSlots, Sound(u, n) PROVE Sound(u, n)'
  <2>1. u.ts = spa.boot => u.txg <= spa.txg
    BY Zenon, <1>8 DEF Sound
  <2>2. u.ts = spa.boot => u.txg <= spa.txg + 1
    BY SMT, <1>b, <2>1
  <2> QED
    BY Zenon, <2>2, <1>8, <1>1, <1>3, <1>6 DEF Sound
<1>9. RingInv' /\ LostInv'
  BY Zenon, <1>8, <1>i, <1>1, <1>6, RingSame DEF LostInv
<1> QED
  BY Zenon, <1>5, <1>7, <1>9 DEF DataInv

LEMMA DataPhaseData == DataInv /\ DataPhase => DataInv'
<1> SUFFICES ASSUME DataInv, DataPhase PROVE DataInv'
  OBVIOUS
<1>i. TypeInv /\ SyncInv /\ RingInv /\ LostInv
  BY Zenon DEF DataInv
<1>1. /\ spa.pc = "data" /\ spa' = [spa EXCEPT !.pc = "even"] /\ data' = {}
      /\ label' = label /\ ring' = ring /\ cache' = cache
      /\ present' = present /\ hist' = hist /\ pool' = pool /\ budget' = budget
  BY Zenon DEF DataPhase, At, Goto, FlushData, bounds
<1>2. Tops' = Tops
  BY Zenon, <1>1 DEF Tops, Top
<1>3. TypeInv'
  <2>1. spa' \in SpaType
    BY Zenon, <1>i, <1>1 DEF TypeInv, SpaType, Syncing
  <2> QED
    BY Zenon, <1>i, <1>1, <1>2, <2>1 DEF TypeInv, SpaType, HistType
<1>4. spa'.pc = "even" /\ spa'.txg = spa.txg /\ spa'.boot = spa.boot /\ spa'.ub = spa.ub
  BY Zenon, <1>i, <1>1 DEF TypeInv, SpaType
<1>5. SyncInv'
  BY Zenon, <1>i, <1>1, <1>4 DEF SyncInv, Syncing, Flushing
<1>6. RingInv' /\ LostInv'
  BY Zenon, <1>i, <1>1, <1>4, QuietStep
<1> QED
  BY Zenon, <1>3, <1>5, <1>6 DEF DataInv

LEMMA ResumeData == DataInv /\ Resume => DataInv'
<1> SUFFICES ASSUME DataInv, Resume PROVE DataInv'
  OBVIOUS
<1>i. TypeInv /\ SyncInv /\ RingInv /\ LostInv
  BY Zenon DEF DataInv
<1>1. PICK svd \in SyncVdevs(spa.dirty) : spa' = [CallAgain EXCEPT !.svd = svd]
  BY Zenon DEF Resume
<1>2. /\ spa.pc = "suspended" /\ label' = label /\ ring' = ring /\ cache' = cache
      /\ data' = data /\ present' = present /\ hist' = hist /\ pool' = pool /\ budget' = budget
  BY Zenon DEF Resume, At, disk, bounds
<1>3. Tops' = Tops
  BY Zenon, <1>2 DEF Tops, Top
<1>4. svd \in SUBSET Tops
  BY Zenon DEF SyncVdevs
<1>5. CallAgain \in SpaType
      /\ CallAgain.pc = "data" /\ CallAgain.txg = spa.txg /\ CallAgain.boot = spa.boot
      /\ CallAgain.ub = spa.ub
  BY Zenon, <1>i DEF TypeInv, SpaType, Syncing, CallAgain
<1>6. TypeInv'
  <2>1. spa' \in SpaType
    BY Zenon, <1>1, <1>4, <1>5 DEF SpaType
  <2> QED
    BY Zenon, <1>i, <1>2, <1>3, <2>1 DEF TypeInv, SpaType, HistType
<1>7. spa'.pc = "data" /\ spa'.txg = spa.txg /\ spa'.boot = spa.boot /\ spa'.ub = spa.ub
  BY Zenon, <1>1, <1>5 DEF SpaType
<1>8. SyncInv'
  BY Zenon, <1>i, <1>2, <1>7 DEF SyncInv, Syncing, Flushing
<1>9. RingInv' /\ LostInv'
  BY Zenon, <1>i, <1>2, <1>7, QuietStep
<1> QED
  BY Zenon, <1>6, <1>8, <1>9 DEF DataInv

LEMMA OnlineData == DataInv /\ Online => DataInv'
<1> SUFFICES ASSUME DataInv, Online PROVE DataInv'
  OBVIOUS
<1>i. TypeInv /\ SyncInv /\ RingInv /\ LostInv
  BY Zenon DEF DataInv
<1>1. /\ present' = Leaves /\ spa' = spa /\ label' = label /\ ring' = ring /\ cache' = cache
      /\ data' = data /\ hist' = hist /\ pool' = pool /\ budget' = budget
  BY Zenon DEF Online, disk, bounds
<1>2. Tops' = Tops
  BY Zenon, <1>1 DEF Tops, Top
<1>3. TypeInv'
  BY Zenon, <1>i, <1>1, <1>2, PoolAssumption DEF TypeInv, SpaType, HistType
<1>4. SyncInv'
  BY Zenon, <1>i, <1>1 DEF SyncInv
<1>5. RingInv' /\ LostInv'
  BY Zenon, <1>i, <1>1, QuietStep
<1> QED
  BY Zenon, <1>3, <1>4, <1>5 DEF DataInv

LEMMA OpenData == DataInv /\ Open => DataInv'
<1> SUFFICES ASSUME DataInv, Open PROVE DataInv'
  OBVIOUS
<1>i. TypeInv /\ SyncInv /\ RingInv /\ LostInv
  BY Zenon DEF DataInv
<1>1. PICK here \in SUBSET Leaves :
          /\ \A t \in Tops : \E v \in here : Top[v] = t
          /\ Spend("missing", Cardinality(Leaves \ here))
          /\ present' = here
  BY Zenon DEF Open
<1>2. /\ spa.pc = "down" /\ spa' = [spa EXCEPT !.pc = "load"] /\ label' = label
      /\ ring' = ring /\ cache' = cache /\ data' = data /\ hist' = hist
  BY Zenon DEF Open, disk, At, Goto
<1>3. here # {}
  BY Zenon, <1>1, PoolAssumption DEF Tops
<1>4. Cardinality(Leaves \ here) \in Nat
  BY Zenon, PoolAssumption, FS_Difference, FS_CardinalityType
<1>5. pool' = pool /\ budget' \in ScenarioType
  BY Zenon, <1>i, <1>1, <1>4, SpendType
<1>6. Tops' = Tops
  BY Zenon, <1>5 DEF Tops, Top
<1>7. TypeInv'
  <2>1. spa' \in SpaType
    BY Zenon, <1>i, <1>2 DEF TypeInv, SpaType
  <2> QED
    BY Zenon, <1>i, <1>1, <1>2, <1>3, <1>5, <1>6, <2>1 DEF TypeInv, SpaType, HistType
<1>8. spa'.pc = "load" /\ spa'.txg = spa.txg /\ spa'.boot = spa.boot /\ spa'.ub = spa.ub
  BY Zenon, <1>i, <1>2 DEF TypeInv, SpaType
<1>9. SyncInv'
  BY Zenon, <1>i, <1>2, <1>5, <1>8 DEF SyncInv, Syncing, Flushing
<1>10. RingInv' /\ LostInv'
  BY Zenon, <1>i, <1>2, <1>5, <1>8, QuietStep
<1> QED
  BY Zenon, <1>7, <1>9, <1>10 DEF DataInv

LEMMA WritesFinite ==
    ASSUME NEW writes \in SUBSET (Leaves \X Labels)
    PROVE  IsFiniteSet(writes) /\ Cardinality(writes) \in Nat
<1>1. 0 \in Int /\ VDEV_LABELS - 1 \in Int
  BY SMT, PoolAssumption
<1>2. IsFiniteSet(Labels)
  BY Zenon, <1>1, FS_Interval DEF Labels
<1>3. IsFiniteSet(Leaves \X Labels)
  BY Zenon, <1>2, PoolAssumption, FS_Product
<1> QED
  BY Zenon, <1>3, FS_Subset, FS_CardinalityType

LEMMA IssueData ==
    ASSUME DataInv, spa.pc \in {"even", "ub", "odd"}, NEW pc \in Flushing,
           NEW writes \in SUBSET (Leaves \X Labels), Issue(writes, pc)
    PROVE  DataInv'
<1>i. TypeInv /\ SyncInv /\ RingInv /\ LostInv
  BY Zenon DEF DataInv
<1> DEFINE bad(good) == IF At("ub") THEN NoUberblock(good) ELSE NoLabel(good)
<1>1. PICK failed \in SUBSET writes :
          /\ Spend("werr", Cardinality(failed))
          /\ cache' = writes \ failed
          /\ spa' = [spa EXCEPT !.pc = pc, !.error = bad(writes \ failed)]
          /\ UNCHANGED <<label, ring, data, present, hist>>
  BY Zenon DEF Issue
<1>2. /\ label' = label /\ ring' = ring /\ data' = data /\ present' = present /\ hist' = hist
      /\ cache' \subseteq Leaves \X Labels
  BY Zenon, <1>1
<1>3. Cardinality(failed) \in Nat
  BY Zenon, WritesFinite
<1>4. pool' = pool /\ budget' \in ScenarioType
  BY Zenon, <1>i, <1>1, <1>3, SpendType
<1>5. Tops' = Tops
  BY Zenon, <1>4 DEF Tops, Top
<1>6. bad(writes \ failed) \in BOOLEAN
  BY Zenon DEF NoUberblock, NoLabel
<1>7. spa' \in SpaType /\ spa'.pc = pc /\ spa'.txg = spa.txg /\ spa'.boot = spa.boot
      /\ spa'.ub = spa.ub
  <2> HIDE DEF bad
  <2> QED
    BY Zenon, <1>i, <1>1, <1>6 DEF TypeInv, SpaType, Syncing, Flushing
<1>8. TypeInv'
  BY Zenon, <1>i, <1>2, <1>4, <1>5, <1>7 DEF TypeInv, SpaType, HistType
<1>9. SyncInv'
  BY Zenon, <1>i, <1>2, <1>4, <1>7 DEF SyncInv, Syncing, Flushing
<1>10. RingInv' /\ LostInv'
  BY Zenon, <1>i, <1>2, <1>4, <1>7, QuietStep
<1> QED
  BY Zenon, <1>8, <1>9, <1>10 DEF DataInv

LEMMA WritesType ==
    ASSUME TypeInv
    PROVE  /\ \A parity \in {0, 1} : LabelWrites(parity) \in SUBSET (Leaves \X Labels)
           /\ Under(spa.svd) \X Labels \in SUBSET (Leaves \X Labels)
BY Zenon DEF TypeInv, LabelWrites, Under

LEMMA LabelsData == DataInv /\ (EvenLabels \/ Uberblocks \/ OddLabels) => DataInv'
<1> SUFFICES ASSUME DataInv, EvenLabels \/ Uberblocks \/ OddLabels PROVE DataInv'
  OBVIOUS
<1>1. PICK writes \in SUBSET (Leaves \X Labels), pc \in Flushing : Issue(writes, pc)
  BY Zenon, WritesType DEF DataInv, EvenLabels, Uberblocks, OddLabels, Flushing
<1>2. spa.pc \in {"even", "ub", "odd"}
  BY Zenon DEF EvenLabels, Uberblocks, OddLabels, At
<1> QED
  BY Zenon, <1>1, <1>2, IssueData

(* BestUberblock is defined: it is in a ring, and none there is newer.     *)
LEMMA BestExists ==
    ASSUME DataInv
    PROVE  /\ BestUberblock \in Ub
           /\ \E v \in present, l \in Labels, n \in RingSlots : BestUberblock = ring[v][l][n]
           /\ \A v \in present, l \in Labels, n \in RingSlots :
                ~Newer(ring[v][l][n], BestUberblock)
<1>i. TypeInv /\ SyncInv /\ RingInv /\ LostInv
  BY Zenon DEF DataInv
<1>b. /\ spa.boot \in Nat /\ pool.last \in Nat /\ InitTxg \in Nat
      /\ \A u \in Ub : u.txg \in Nat /\ u.ts \in Nat
  BY Zenon, <1>i, Bounded
<1> DEFINE all == UNION {UberblocksOn(v) : v \in present}
<1>1. \A v \in Leaves, l \in Labels :
         DOMAIN ring[v][l] = RingSlots /\ \A n \in RingSlots : ring[v][l][n] \in Ub
  BY Zenon, <1>i, RingEntry
<1>2. present \subseteq Leaves /\ present # {}
  BY Zenon, <1>i DEF TypeInv
<1>3. \A u : u \in all <=> \E v \in present, l \in Labels, n \in RingSlots : u = ring[v][l][n]
  <2>1. ASSUME NEW v \in present, NEW u
        PROVE  u \in UberblocksOn(v) <=> \E l \in Labels, n \in RingSlots : u = ring[v][l][n]
    <3>1. \A l \in Labels : DOMAIN ring[v][l] = RingSlots
      BY Zenon, <1>1, <1>2
    <3>2. u \in UberblocksOn(v) <=> \E l \in Labels : u \in {ring[v][l][n] : n \in DOMAIN ring[v][l]}
      BY Zenon DEF UberblocksOn
    <3>3. ASSUME NEW l \in Labels
          PROVE  u \in {ring[v][l][n] : n \in DOMAIN ring[v][l]}
                    <=> \E n \in RingSlots : u = ring[v][l][n]
      BY Zenon, <3>1
    <3> QED
      BY Zenon, <3>2, <3>3
  <2>2. ASSUME NEW u PROVE u \in all <=> \E v \in present : u \in UberblocksOn(v)
    BY Zenon
  <2>3. ASSUME NEW u, u \in all
        PROVE  \E v \in present, l \in Labels, n \in RingSlots : u = ring[v][l][n]
    <3>1. PICK v \in present : u \in UberblocksOn(v)
      BY Zenon, <2>3
    <3>2. PICK l \in Labels, n \in RingSlots : u = ring[v][l][n]
      BY SMT, <2>1, <3>1
    <3> QED
      BY Zenon, <3>2
  <2>4. ASSUME NEW u, NEW v \in present, NEW l \in Labels, NEW n \in RingSlots, u = ring[v][l][n]
        PROVE  u \in all
    BY Zenon, <2>1, <2>2, <2>4
  <2> HIDE DEF all
  <2> QED
    BY Zenon, <2>3, <2>4
<1>4. ASSUME NEW u \in all PROVE u \in Ub /\ u.ts <= spa.boot /\ u.txg <= InitTxg + pool.last
  <2>1. PICK v \in present, l \in Labels, n \in RingSlots : u = ring[v][l][n]
    BY Zenon, <1>3
  <2>2. Sound(ring[v][l][n], n)
    BY Zenon, <1>i, <1>2 DEF RingInv
  <2> QED
    BY Zenon, <1>1, <1>2, <2>1, <2>2 DEF Sound
<1>5. all # {}
  <2>1. 0 \in Labels /\ 0 \in RingSlots
    BY SMT, PoolAssumption DEF Labels, RingSlots
  <2>2. PICK v : v \in present
    BY Zenon, <1>2
  <2>3. ring[v][0][0] \in all
    <3> HIDE DEF all
    <3> QED
      BY Zenon, <1>3, <2>1, <2>2
  <2> QED
    BY Zenon, <2>3
<1> HIDE DEF all
<1> DEFINE T == {u.txg : u \in all}
<1>6. T \in SUBSET Nat /\ T # {} /\ \A x \in T : x <= InitTxg + pool.last
  BY Zenon, <1>b, <1>4, <1>5
<1>7. InitTxg + pool.last \in Nat
  BY SMT, <1>b
<1>8. PICK t \in T : \A x \in T : x <= t
  <2> HIDE DEF T
  <2> QED
    BY Zenon, <1>6, <1>7, GreatestExists
<1> DEFINE S == {u.ts : u \in {w \in all : w.txg = t}}
<1>9. S \in SUBSET Nat /\ S # {} /\ \A x \in S : x <= spa.boot
  BY Zenon, <1>b, <1>4
<1>10. PICK s \in S : \A x \in S : x <= s
  <2> HIDE DEF S
  <2> QED
    BY Zenon, <1>9, <1>b, GreatestExists
<1>11. PICK ub \in all : ub.txg = t /\ ub.ts = s
  BY Zenon, <1>10
<1>12. ASSUME NEW u \in all PROVE ~Newer(u, ub)
  <2>1. u.txg \in Nat /\ u.ts \in Nat /\ t \in Nat /\ s \in Nat
    BY Zenon, <1>4, <1>b, <1>11
  <2>2. u.txg <= t /\ (u.txg = t => u.ts <= s)
    BY Zenon, <1>8, <1>10
  <2>3. ~(u.txg > t) /\ ~(u.txg = t /\ u.ts > s)
    BY SMT, <2>1, <2>2
  <2> QED
    BY Zenon, <2>3, <1>11 DEF Newer
<1>13. BestUberblock = CHOOSE u \in all : \A other \in all : ~Newer(other, u)
  BY Zenon DEF BestUberblock, all
<1>14. BestUberblock \in all /\ \A other \in all : ~Newer(other, BestUberblock)
  BY Zenon, <1>11, <1>12, <1>13
<1> QED
  BY Zenon, <1>3, <1>4, <1>14

LEMMA BestSound ==
    ASSUME DataInv
    PROVE  \E n \in RingSlots : Sound(BestUberblock, n)
<1>1. PICK v \in present, l \in Labels, n \in RingSlots : BestUberblock = ring[v][l][n]
  BY Zenon, BestExists
<1>2. Sound(ring[v][l][n], n)
  BY Zenon DEF DataInv, TypeInv, RingInv
<1> QED
  BY Zenon, <1>1, <1>2

LEMMA LoadFacts ==
    ASSUME TypeInv, Load
    PROVE  /\ spa.pc = "load" /\ spa'.pc = "idle" /\ spa'.txg = BestUberblock.txg
           /\ spa'.ub = BestUberblock /\ spa'.boot = spa.boot + 1
           /\ hist'.base = BestUberblock /\ hist'.lost = hist.lost
           /\ label' = label /\ ring' = ring /\ cache' = cache /\ data' = data
           /\ present' = present /\ pool' = pool /\ budget' = budget
<1>1. /\ spa.pc = "load"
      /\ spa' = [spa EXCEPT !.pc = "idle", !.txg = BestUberblock.txg, !.ub = BestUberblock,
                   !.boot = spa.boot + 1, !.dirty = {}]
      /\ hist' = [hist EXCEPT !.base = BestUberblock, !.cfg = [t \in Tops |->
                   IF BestUberblock = spa.ub /\ t \in spa.dirty THEN BestUberblock
                   ELSE hist.cfg[t]]]
      /\ label' = label /\ ring' = ring /\ cache' = cache /\ data' = data
      /\ present' = present /\ pool' = pool /\ budget' = budget
  BY Zenon DEF Load, At, disk, bounds
<1> QED
  BY Zenon, <1>1 DEF TypeInv, SpaType, HistType

LEMMA LoadData == DataInv /\ Load => DataInv'
<1> SUFFICES ASSUME DataInv, Load PROVE DataInv'
  OBVIOUS
<1>i. TypeInv /\ SyncInv /\ RingInv /\ LostInv
  BY Zenon DEF DataInv
<1>b. /\ spa.boot \in Nat /\ pool.last \in Nat /\ InitTxg \in Nat
      /\ hist.lost \subseteq Ub
      /\ \A u \in Ub : u.txg \in Nat /\ u.ts \in Nat
  BY Zenon, <1>i, Bounded
<1> DEFINE best == BestUberblock
           cfg == [t \in Tops |-> IF best = spa.ub /\ t \in spa.dirty THEN best ELSE hist.cfg[t]]
<1>1. /\ spa' = [spa EXCEPT !.pc = "idle", !.txg = best.txg, !.ub = best,
                   !.boot = spa.boot + 1, !.dirty = {}]
      /\ hist' = [hist EXCEPT !.base = best, !.cfg = cfg]
  BY Zenon DEF Load
<1>2. best \in Ub /\ best.txg \in Nat /\ best.txg <= InitTxg + pool.last
  BY Zenon, <1>b, BestExists, BestSound DEF Sound
<1>3. cfg \in [Tops -> Ub]
  BY Zenon, <1>i, <1>2 DEF TypeInv, HistType
<1> HIDE DEF best, cfg
<1>4. spa.boot + 1 \in Nat
  BY SMT, <1>b
<1>f. /\ spa.pc = "load" /\ spa'.pc = "idle" /\ spa'.txg = best.txg
      /\ spa'.ub = best /\ spa'.boot = spa.boot + 1 /\ hist'.lost = hist.lost
      /\ label' = label /\ ring' = ring /\ cache' = cache /\ data' = data
      /\ present' = present /\ pool' = pool /\ budget' = budget
  BY Zenon, <1>i, LoadFacts DEF best
<1>5. Tops' = Tops
  BY Zenon, <1>f DEF Tops, Top
<1>6. TypeInv'
  <2>1. spa' \in SpaType /\ hist' \in HistType
    BY Zenon, <1>i, <1>1, <1>2, <1>3, <1>4 DEF TypeInv, SpaType, HistType
  <2> QED
    BY Zenon, <1>i, <1>f, <1>5, <2>1 DEF TypeInv, SpaType, HistType
<1>7. data = {} /\ cache = {}
  BY Zenon, <1>i, <1>f DEF SyncInv, Flushing
<1>8. SyncInv'
  <2>1. spa'.boot > 0
    BY SMT, <1>b, <1>f
  <2> QED
    BY Zenon, <1>2, <1>f, <1>7, <2>1 DEF SyncInv, Syncing, Flushing
<1>9. ASSUME NEW u \in Ub, u.ts <= spa.boot
      PROVE  u.ts <= spa.boot + 1 /\ u.ts # spa.boot + 1
  BY SMT, <1>9, <1>b
<1>10. ASSUME NEW u \in Ub, NEW n \in RingSlots, Sound(u, n) PROVE Sound(u, n)'
  BY Zenon, <1>9, <1>10, <1>f, <1>7 DEF Sound
<1>11. RingInv'
  BY Zenon, <1>10, <1>i, <1>f, RingSame
<1>12. LostInv'
  BY Zenon, <1>9, <1>b, <1>i, <1>f DEF LostInv
<1> QED
  BY Zenon, <1>6, <1>8, <1>11, <1>12 DEF DataInv

(* What PlatterRings has in a slot.                                        *)
LEMMA PlatterRow ==
    ASSUME TypeInv, NEW kept, NEW torn, NEW v \in Leaves, NEW l \in Labels
    PROVE  /\ PlatterRings(kept, torn)[v][l] =
                IF spa.pc = "ubflush"
                THEN [ring[v][l] EXCEPT ![Slot(spa.ub)] =
                        Landed(<<v, l>>, ring[v][l][Slot(spa.ub)], kept, torn)]
                ELSE ring[v][l]
           /\ Slot(spa.ub) \in RingSlots
           /\ PlatterRings(kept, torn)[v][l] \in [RingSlots -> Ub]
<1>1. PlatterRings(kept, torn)[v][l] =
                IF spa.pc = "ubflush"
                THEN [ring[v][l] EXCEPT ![Slot(spa.ub)] =
                        Landed(<<v, l>>, ring[v][l][Slot(spa.ub)], kept, torn)]
                ELSE ring[v][l]
  BY Zenon DEF PlatterRings
<1>2. ring[v][l] \in [RingSlots -> Ub] /\ None \in Ub /\ spa.ub \in Ub /\ spa.ub.txg \in Nat
  BY Zenon, RingEntry, Bounded
<1>3. Slot(spa.ub) \in RingSlots
  BY Zenon, <1>2, DivMod, PoolAssumption DEF Slot, RingSlots
<1>4. ring[v][l][Slot(spa.ub)] \in Ub
  BY Zenon, <1>2, <1>3
<1>5. Landed(<<v, l>>, ring[v][l][Slot(spa.ub)], kept, torn) \in Ub
  BY SMT, <1>2, <1>4 DEF Landed
<1> QED
  BY Zenon, <1>1, <1>2, <1>3, <1>5

LEMMA LandedOne ==
    ASSUME NEW w, NEW old, NEW kept, NEW torn, kept \cap torn = {}
    PROVE  /\ Landed(w, old, kept, torn) \in {spa.ub, None, old}
           /\ w \in kept => Landed(w, old, kept, torn) = spa.ub
           /\ torn = {} => Landed(w, old, kept, torn) \in {spa.ub, old}
<1>1. CASE w \in kept
  <2>1. Landed(w, old, kept, torn) = spa.ub
    BY Zenon, <1>1 DEF Landed
  <2> QED
    BY Zenon, <1>1, <2>1
<1>2. CASE w \notin kept /\ w \in torn
  <2>1. Landed(w, old, kept, torn) = None
    BY Zenon, <1>2 DEF Landed
  <2> QED
    BY Zenon, <1>2, <2>1
<1>3. CASE w \notin kept /\ w \notin torn
  <2>1. Landed(w, old, kept, torn) = old
    BY Zenon, <1>3 DEF Landed
  <2> QED
    BY Zenon, <1>3, <2>1
<1> QED
  BY Zenon, <1>1, <1>2, <1>3

Written(w, n, old, new, kept, torn) ==
    /\ \/ new = old
       \/ new = None /\ torn # {}
       \/ new = spa.ub /\ spa.pc = "ubflush" /\ n = Slot(spa.ub)
    /\ ~(spa.pc = "ubflush" /\ n = Slot(spa.ub)) => new = old
    /\ spa.pc = "ubflush" /\ n = Slot(spa.ub) /\ w \in kept => new = spa.ub

LEMMA PlatterEntry ==
    ASSUME TypeInv, NEW kept, NEW torn, kept \cap torn = {},
           NEW v \in Leaves, NEW l \in Labels, NEW n \in RingSlots
    PROVE  Written(<<v, l>>, n, ring[v][l][n], PlatterRings(kept, torn)[v][l][n], kept, torn)
<1>1. PICK old : old = ring[v][l]
  OBVIOUS
<1>2. PICK new : new = PlatterRings(kept, torn)[v][l]
  OBVIOUS
<1>3. PICK ub : ub = Landed(<<v, l>>, old[Slot(spa.ub)], kept, torn)
  OBVIOUS
<1>4. old \in [RingSlots -> Ub]
  BY Zenon, <1>1, RingEntry
<1>5. new = IF spa.pc = "ubflush" THEN [old EXCEPT ![Slot(spa.ub)] = ub] ELSE old
  BY Zenon, <1>1, <1>2, <1>3 DEF PlatterRings
<1>6. /\ spa.pc = "ubflush" /\ n = Slot(spa.ub) => new[n] = ub
      /\ ~(spa.pc = "ubflush" /\ n = Slot(spa.ub)) => new[n] = old[n]
  BY Zenon, <1>4, <1>5
<1>7. ub \in {spa.ub, None, old[Slot(spa.ub)]}
      /\ (<<v, l>> \in kept => ub = spa.ub)
      /\ (torn = {} => ub \in {spa.ub, old[Slot(spa.ub)]})
  BY Zenon, <1>3, LandedOne
<1>8. Written(<<v, l>>, n, old[n], new[n], kept, torn)
  BY Zenon, <1>6, <1>7 DEF Written
<1> QED
  BY Zenon, <1>1, <1>2, <1>8

LEMMA PlatterType ==
    ASSUME TypeInv, NEW kept, NEW torn
    PROVE  PlatterRings(kept, torn) \in [Leaves -> [Labels -> [RingSlots -> Ub]]]
<1> DEFINE P == PlatterRings(kept, torn)
<1>1. ASSUME NEW v \in Leaves PROVE P[v] \in [Labels -> [RingSlots -> Ub]]
  <2>1. P[v] = [l \in Labels |-> P[v][l]]
    BY Zenon DEF PlatterRings
  <2>2. \A l \in Labels : P[v][l] \in [RingSlots -> Ub]
    BY Zenon, PlatterRow
  <2> HIDE DEF P
  <2> QED
    BY Zenon, <2>1, <2>2
<1>2. P = [v \in Leaves |-> P[v]]
  BY Zenon DEF PlatterRings
<1> HIDE DEF P
<1>3. P \in [Leaves -> [Labels -> [RingSlots -> Ub]]]
  BY Zenon, <1>1, <1>2
<1> QED
  BY Zenon, <1>3 DEF P

LEMMA LabelsType ==
    ASSUME TypeInv, NEW kept, NEW torn, kept \cap torn = {}
    PROVE  PlatterLabels(kept, torn) \in [Leaves -> [Labels -> Ub]]
<1> DEFINE new(v, l) == IF spa.pc \in {"evenflush", "oddflush"}
                        THEN Landed(<<v, l>>, label[v][l], kept, torn) ELSE label[v][l]
<1>1. ASSUME NEW v \in Leaves, NEW l \in Labels PROVE new(v, l) \in Ub
  <2>1. label[v] \in [Labels -> Ub]
    BY Zenon DEF TypeInv
  <2>2. label[v][l] \in Ub /\ None \in Ub /\ spa.ub \in Ub
    BY Zenon, <2>1, Bounded
  <2> QED
    BY Zenon, <2>2, LandedOne
<1>2. PlatterLabels(kept, torn) = [v \in Leaves |-> [l \in Labels |-> new(v, l)]]
  BY Zenon DEF PlatterLabels
<1> HIDE DEF new
<1>3. ASSUME NEW v \in Leaves PROVE [l \in Labels |-> new(v, l)] \in [Labels -> Ub]
  BY Zenon, <1>1
<1> QED
  BY Zenon, <1>2, <1>3

(* The rings after some of the uberblock writes have reached the platter.  *)
LEMMA RingStep ==
    ASSUME TypeInv, RingInv, NEW kept, NEW torn, kept \cap torn = {},
           ring' = PlatterRings(kept, torn),
           \A u \in Ub, n \in RingSlots : Sound(u, n) => Sound(u, n)',
           \A n \in RingSlots : Sound(None, n)',
           spa.pc = "ubflush" => \A n \in RingSlots : n = Slot(spa.ub) =>
                                   \A u : u = spa.ub => Sound(u, n)'
    PROVE  RingInv'
<1>1. ASSUME NEW v \in Leaves, NEW l \in Labels, NEW n \in RingSlots
      PROVE  Sound(ring[v][l][n], n)'
  <2>1. Sound(ring[v][l][n], n) /\ ring[v][l][n] \in Ub
    BY Zenon, RingEntry DEF RingInv
  <2>2. PICK u : u = ring'[v][l][n]
    OBVIOUS
  <2>3. Written(<<v, l>>, n, ring[v][l][n], u, kept, torn)
    <3>1. Written(<<v, l>>, n, ring[v][l][n], PlatterRings(kept, torn)[v][l][n], kept, torn)
      BY Zenon, PlatterEntry
    <3> QED
      BY Zenon, <2>2, <3>1
  <2>5. \/ u = ring[v][l][n]
        \/ u = None
        \/ u = spa.ub /\ spa.pc = "ubflush" /\ n = Slot(spa.ub)
    BY Zenon, <2>3 DEF Written
  <2>4. Sound(u, n)'
    BY Zenon, <2>1, <2>5
  <2> QED
    BY Zenon, <2>2, <2>4 DEF Sound
<1> QED
  BY Zenon, <1>1 DEF RingInv

LEMMA FlushFacts ==
    ASSUME TypeInv, FlushPhase
    PROVE  /\ spa.pc \in Flushing /\ ring' = PlatterRings(cache, {})
           /\ spa'.pc \in {"suspended", "data", "ub", "odd", "idle"}
           /\ spa'.txg = spa.txg /\ spa'.boot = spa.boot /\ spa'.ub = spa.ub
           /\ hist'.lost = hist.lost
           /\ cache' = {} /\ data' = data /\ present' = present
           /\ pool' = pool /\ budget' = budget
           /\ spa'.pc = "idle" => spa.pc = "oddflush"
           /\ spa'.pc = "odd" => spa.pc = "ubflush" /\ ~spa.error
           /\ spa'.pc = "idle" => hist'.base = spa.ub
           /\ spa'.pc # "idle" => hist' = hist
           /\ spa' \in SpaType /\ hist' \in HistType
<1>t. spa \in SpaType /\ hist \in HistType /\ spa.ub \in Ub
  BY Zenon, Bounded DEF TypeInv
<1>1. /\ spa.pc \in Flushing /\ ring' = PlatterRings(cache, {})
      /\ cache' = {} /\ data' = data /\ present' = present
      /\ pool' = pool /\ budget' = budget
  BY Zenon DEF FlushPhase, Flushing, bounds
<1>2. CASE spa.error
  <2>1. spa' = Retry /\ hist' = hist
    BY Zenon, <1>2 DEF FlushPhase
  <2>2. /\ spa' \in SpaType /\ spa'.pc \in {"suspended", "data"}
        /\ spa'.txg = spa.txg /\ spa'.boot = spa.boot /\ spa'.ub = spa.ub
    BY Zenon, <1>t, <2>1 DEF Retry, SpaType, Syncing
  <2> QED
    BY Zenon, <1>t, <1>1, <1>2, <2>1, <2>2
<1>3. CASE ~spa.error
  <2> DEFINE pc == NextPhase(spa.pc)
             cfg == [t \in Tops |-> IF t \in spa.dirty THEN spa.ub ELSE hist.cfg[t]]
  <2>1. /\ spa' = [spa EXCEPT !.pc = pc, !.dirty = IF pc = "idle" THEN {} ELSE spa.dirty]
        /\ hist' = IF pc # "idle" THEN hist
                   ELSE [hist EXCEPT !.synced = spa.ub, !.base = spa.ub, !.cfg = cfg]
    BY Zenon, <1>3 DEF FlushPhase
  <2>2. /\ pc \in {"ub", "odd", "idle"}
        /\ (pc = "idle" => spa.pc = "oddflush") /\ (pc = "odd" => spa.pc = "ubflush")
    BY SMT, <1>1 DEF NextPhase, Flushing
  <2>3. cfg \in [Tops -> Ub]
    BY Zenon, <1>t DEF HistType
  <2> HIDE DEF pc, cfg
  <2>4. /\ spa' \in SpaType /\ spa'.pc = pc
        /\ spa'.txg = spa.txg /\ spa'.boot = spa.boot /\ spa'.ub = spa.ub
    BY Zenon, <1>t, <2>1, <2>2 DEF SpaType, Syncing
  <2>5. /\ hist' \in HistType /\ hist'.lost = hist.lost
        /\ (pc = "idle" => hist'.base = spa.ub) /\ (pc # "idle" => hist' = hist)
    BY Zenon, <1>t, <2>1, <2>3 DEF HistType
  <2> QED
    BY Zenon, <1>1, <1>3, <2>2, <2>4, <2>5 DEF pc
<1> QED
  BY Zenon, <1>2, <1>3

LEMMA FlushPhaseData == DataInv /\ FlushPhase => DataInv'
<1> SUFFICES ASSUME DataInv, FlushPhase PROVE DataInv'
  OBVIOUS
<1>i. TypeInv /\ SyncInv /\ RingInv /\ LostInv
  BY Zenon DEF DataInv
<1>b. /\ spa.txg \in Nat /\ spa.boot \in Nat /\ pool.last \in Nat /\ InitTxg \in Nat
      /\ spa.ub \in Ub /\ hist.lost \subseteq Ub
  BY Zenon, <1>i, Bounded
<1>f. /\ spa.pc \in Flushing /\ ring' = PlatterRings(cache, {})
      /\ spa'.pc \in {"suspended", "data", "ub", "odd", "idle"}
      /\ spa'.txg = spa.txg /\ spa'.boot = spa.boot /\ spa'.ub = spa.ub
      /\ hist'.lost = hist.lost
      /\ cache' = {} /\ data' = data /\ present' = present
      /\ pool' = pool /\ budget' = budget
      /\ spa' \in SpaType /\ hist' \in HistType
  BY Zenon, <1>i, FlushFacts
<1>1. label' \in [Leaves -> [Labels -> Ub]] /\ ring' \in [Leaves -> [Labels -> [RingSlots -> Ub]]]
  <2>1. label' = PlatterLabels(cache, {}) /\ cache \cap {} = {}
    BY Zenon DEF FlushPhase
  <2> QED
    BY Zenon, <1>i, <1>f, <2>1, LabelsType, PlatterType
<1>2. Tops' = Tops
  BY Zenon, <1>f DEF Tops, Top
<1>3. TypeInv'
  BY Zenon, <1>i, <1>f, <1>1, <1>2 DEF TypeInv, SpaType, HistType
<1>4. data = {} /\ spa.ub = [txg |-> spa.txg, ts |-> spa.boot]
  BY Zenon, <1>i, <1>f DEF SyncInv, Syncing, Flushing
<1>5. SyncInv'
  BY Zenon, <1>i, <1>f, <1>4 DEF SyncInv, Syncing, Flushing
<1>6. \A u \in Ub, n \in RingSlots : Sound(u, n) => Sound(u, n)'
  BY Zenon, <1>f, <1>4 DEF Sound
<1>7. ASSUME NEW n \in RingSlots PROVE Sound(None, n)'
  <2>1. None.ts = 0 /\ None.txg = 0
    BY Zenon DEF None
  <2>2. spa.boot > 0
    BY Zenon, <1>i DEF SyncInv
  <2>3. 0 <= spa.boot /\ 0 <= InitTxg + pool.last /\ 0 # spa.boot /\ ~(0 > 0)
    BY SMT, <1>b, <2>2
  <2>4. None \notin hist.lost
    BY Zenon, <1>i, <2>1, <2>3 DEF LostInv
  <2> QED
    BY Zenon, <1>f, <1>4, <2>1, <2>3, <2>4 DEF Sound
<1>8. ASSUME NEW n \in RingSlots, n = Slot(spa.ub), NEW u, u = spa.ub PROVE Sound(u, n)'
  <2>0. u = [txg |-> spa.txg, ts |-> spa.boot]
    BY Zenon, <1>4, <1>8
  <2>1. u.ts = spa.boot /\ u.txg = spa.txg
    BY Zenon, <2>0
  <2>2. u.ts <= spa.boot /\ u.txg <= spa.txg
    BY SMT, <1>b, <2>1
  <2>3. u.txg <= InitTxg + pool.last
    BY Zenon, <1>i, <2>1 DEF SyncInv
  <2>4. u \notin hist.lost
    BY Zenon, <1>i, <1>f, <2>1 DEF LostInv, Flushing
  <2> QED
    BY Zenon, <1>f, <1>4, <1>8, <2>2, <2>3, <2>4 DEF Sound
<1>9. RingInv'
  <2>1. cache \cap {} = {}
    BY Zenon
  <2> QED
    BY Zenon, <2>1, <1>i, <1>f, <1>6, <1>7, <1>8, RingStep
<1>10. LostInv'
  BY Zenon, <1>i, <1>f DEF LostInv, Flushing
<1> QED
  BY Zenon, <1>3, <1>5, <1>9, <1>10 DEF DataInv

LEMMA CrashFacts ==
    ASSUME TypeInv, Crash
    PROVE  /\ spa.pc \notin {"down", "load"} /\ spa'.pc = "down"
           /\ spa'.txg = spa.txg /\ spa'.boot = spa.boot /\ spa'.ub = spa.ub
           /\ \/ hist'.lost = hist.lost
              \/ hist'.lost = hist.lost \cup {spa.ub} /\ data # {}
           /\ hist'.base = hist.base
           /\ cache' = {} /\ data' = {} /\ present' = present /\ pool' = pool
           /\ spa' \in SpaType /\ hist' \in HistType /\ budget' \in ScenarioType
           /\ budget'.missing <= budget.missing /\ budget'.noop <= budget.noop
<1>t. spa \in SpaType /\ hist \in HistType /\ spa.ub \in Ub
  BY Zenon, Bounded DEF TypeInv
<1>1. /\ spa.pc \notin {"down", "load"} /\ Spend("crash", 1) /\ cache' = {} /\ data' = {}
      /\ spa' = [spa EXCEPT !.pc = "down"] /\ present' = present
  BY Zenon DEF Crash, Goto
<1>2. 1 \in Nat
  BY SMT
<1>3. /\ pool' = pool /\ budget' \in ScenarioType
      /\ budget'.missing <= budget.missing /\ budget'.noop <= budget.noop
  BY Zenon, <1>1, <1>2, SpendType
<1>4. PICK gone \in SUBSET data :
          hist' = [hist EXCEPT !.lost = IF gone = {} THEN hist.lost ELSE hist.lost \cup {spa.ub}]
  BY Zenon DEF Crash
<1>5. /\ \/ hist'.lost = hist.lost
         \/ hist'.lost = hist.lost \cup {spa.ub} /\ data # {}
      /\ hist'.base = hist.base /\ hist' \in HistType
  BY Zenon, <1>t, <1>4 DEF HistType
<1>6. /\ spa' \in SpaType /\ spa'.pc = "down"
      /\ spa'.txg = spa.txg /\ spa'.boot = spa.boot /\ spa'.ub = spa.ub
  BY Zenon, <1>t, <1>1 DEF SpaType
<1> QED
  BY Zenon, <1>1, <1>3, <1>5, <1>6

LEMMA CrashData == DataInv /\ Crash => DataInv'
<1> SUFFICES ASSUME DataInv, Crash PROVE DataInv'
  OBVIOUS
<1>i. TypeInv /\ SyncInv /\ RingInv /\ LostInv
  BY Zenon DEF DataInv
<1>b. /\ spa.txg \in Nat /\ spa.boot \in Nat /\ pool.last \in Nat /\ InitTxg \in Nat
      /\ spa.ub \in Ub /\ hist.lost \subseteq Ub /\ None \in Ub
  BY Zenon, <1>i, Bounded
<1>f. /\ spa.pc \notin {"down", "load"} /\ spa'.pc = "down"
      /\ spa'.txg = spa.txg /\ spa'.boot = spa.boot /\ spa'.ub = spa.ub
      /\ \/ hist'.lost = hist.lost
         \/ hist'.lost = hist.lost \cup {spa.ub} /\ data # {}
      /\ cache' = {} /\ data' = {} /\ present' = present /\ pool' = pool
      /\ spa' \in SpaType /\ hist' \in HistType /\ budget' \in ScenarioType
  BY Zenon, <1>i, CrashFacts
<1>1. PICK kept \in SUBSET cache : \E torn \in SUBSET (cache \ kept) :
          label' = PlatterLabels(kept, torn) /\ ring' = PlatterRings(kept, torn)
  BY Zenon DEF Crash
<1>2. PICK torn \in SUBSET (cache \ kept) :
          label' = PlatterLabels(kept, torn) /\ ring' = PlatterRings(kept, torn)
  BY Zenon, <1>1
<1>3. kept \cap torn = {}
  BY Zenon
<1>4. label' \in [Leaves -> [Labels -> Ub]] /\ ring' \in [Leaves -> [Labels -> [RingSlots -> Ub]]]
  BY Zenon, <1>i, <1>2, <1>3, LabelsType, PlatterType
<1>5. Tops' = Tops
  BY Zenon, <1>f DEF Tops, Top
<1>6. TypeInv'
  BY Zenon, <1>i, <1>f, <1>4, <1>5 DEF TypeInv, SpaType, HistType
<1>7. SyncInv'
  BY Zenon, <1>i, <1>f DEF SyncInv, Syncing, Flushing
<1>8. \A u \in Ub, n \in RingSlots : Sound(u, n) => Sound(u, n)'
  BY Zenon, <1>f DEF Sound
<1>9. ASSUME spa.pc \in Syncing, NEW u, u = spa.ub
      PROVE  u.ts = spa.boot /\ u.txg = spa.txg
  <2>1. u = [txg |-> spa.txg, ts |-> spa.boot]
    BY Zenon, <1>i, <1>9 DEF SyncInv
  <2> QED
    BY Zenon, <2>1
<1>10. ASSUME data # {} PROVE spa.ub.ts = spa.boot
  BY Zenon, <1>9, <1>10, <1>i DEF SyncInv, Syncing
<1>11. spa.boot > 0 /\ 0 <= spa.boot /\ 0 <= InitTxg + pool.last /\ 0 # spa.boot /\ ~(0 > 0)
       /\ spa.boot <= spa.boot /\ spa.txg <= spa.txg
  <2>1. spa.boot > 0
    BY Zenon, <1>i DEF SyncInv
  <2> QED
    BY SMT, <1>b, <2>1
<1>12. ASSUME NEW n \in RingSlots PROVE Sound(None, n)'
  <2>1. None.ts = 0 /\ None.txg = 0
    BY Zenon DEF None
  <2>2. None \notin hist'.lost
    <3>1. None \notin hist.lost
      BY Zenon, <1>i, <1>11, <2>1 DEF LostInv
    <3>2. data # {} => None # spa.ub
      BY Zenon, <1>10, <1>11, <2>1
    <3> QED
      BY Zenon, <1>f, <3>1, <3>2
  <2> QED
    BY Zenon, <1>f, <1>11, <2>1, <2>2 DEF Sound
<1>13. ASSUME spa.pc = "ubflush", NEW n \in RingSlots, n = Slot(spa.ub), NEW u, u = spa.ub
       PROVE  Sound(u, n)'
  <2>1. u.ts = spa.boot /\ u.txg = spa.txg
    BY Zenon, <1>9, <1>13 DEF Syncing, Flushing
  <2>2. data = {}
    BY Zenon, <1>i, <1>13 DEF SyncInv
  <2>3. u.txg <= InitTxg + pool.last
    BY Zenon, <1>i, <2>1 DEF SyncInv
  <2>4. u \notin hist'.lost
    BY Zenon, <1>i, <1>f, <2>1, <2>2 DEF LostInv
  <2> QED
    BY Zenon, <1>f, <1>11, <1>13, <2>1, <2>3, <2>4 DEF Sound
<1>14. RingInv'
  BY Zenon, <1>i, <1>2, <1>3, <1>8, <1>12, <1>13, RingStep
<1>15. LostInv'
  BY Zenon, <1>i, <1>f, <1>10, <1>11 DEF LostInv
<1> QED
  BY Zenon, <1>6, <1>7, <1>14, <1>15 DEF DataInv

LEMMA StutterData == DataInv /\ UNCHANGED vars => DataInv'
<1> SUFFICES ASSUME DataInv, UNCHANGED vars PROVE DataInv'
  OBVIOUS
<1>1. /\ spa' = spa /\ label' = label /\ ring' = ring /\ cache' = cache /\ data' = data
      /\ present' = present /\ hist' = hist /\ pool' = pool /\ budget' = budget
  BY Zenon DEF vars, disk, bounds
<1>i. TypeInv /\ SyncInv /\ RingInv /\ LostInv
  BY Zenon DEF DataInv
<1>2. Tops' = Tops
  BY Zenon, <1>1 DEF Tops, Top
<1>3. TypeInv' /\ SyncInv'
  BY Zenon, <1>i, <1>1, <1>2 DEF TypeInv, SpaType, HistType, SyncInv
<1>4. RingInv' /\ LostInv'
  BY Zenon, <1>i, <1>1, QuietStep
<1> QED
  BY Zenon, <1>3, <1>4 DEF DataInv

LEMMA DataInvariant == Spec => []DataInv
<1>1. DataInv /\ [Next]_vars => DataInv'
  <2> SUFFICES ASSUME DataInv, [Next]_vars PROVE DataInv'
    OBVIOUS
  <2>1. CASE Next
    <3>1. CASE ConfigSync
      BY Zenon, <3>1, DataPhaseData, LabelsData, FlushPhaseData, ResumeData DEF ConfigSync
    <3> QED
      BY Zenon, <2>1, <3>1, SyncTxgData, NoopTxgData, CrashData, OpenData, LoadData,
         OnlineData DEF Next
  <2> QED
    BY Zenon, <2>1, StutterData
<1> QED
  BY <1>1, DataInit, PTL DEF Spec

(* The blocks of a txg are on disk before an uberblock that refers to      *)
(* them: whatever crashed, tore or failed, and however often, the          *)
(* uberblock that an open chooses is not one whose blocks were lost.       *)
THEOREM DataFirst == Spec => []DataBeforeUberblock
<1>1. DataInv => DataBeforeUberblock
  BY Zenon, BestSound DEF DataBeforeUberblock, Sound
<1> QED
  BY <1>1, DataInvariant, PTL

-----------------------------------------------------------------------------
(* BaseInv is inductive.                                                   *)

LEMMA BaseQuiet ==
    ASSUME TypeInv, TypeInv', Base,
           ring' = ring, hist'.base = hist.base, spa'.ub = spa.ub, spa'.txg = spa.txg,
           pool' = pool, budget'.noop <= budget.noop,
           spa'.pc = "idle" => spa.pc = "idle",
           spa'.pc \in Syncing => spa.pc \in Syncing,
           spa'.pc = "ubflush" /\ ~spa'.error => cache' # {},
           spa'.pc \in {"odd", "oddflush"} => spa.pc \in {"odd", "oddflush"}
    PROVE  Base'
<1>b. /\ spa.txg \in Nat /\ pool.noop \in Nat /\ budget.noop \in Nat
      /\ hist.base.txg \in Nat
  BY Zenon, Bounded
<1>c. budget'.noop \in Nat
  BY Zenon DEF TypeInv, ScenarioType
<1>0. /\ budget.noop <= pool.noop
      /\ OnRing(hist.base) /\ NoneNewer(hist.base)
      /\ spa.txg + budget.noop <= hist.base.txg + pool.noop + IF spa.pc = "idle" THEN 0 ELSE 1
  BY Zenon DEF Base
<1>1. budget'.noop <= pool.noop
  BY SMT, <1>b, <1>c, <1>0
<1>2. spa.txg + budget'.noop <= hist.base.txg + pool.noop + IF spa'.pc = "idle" THEN 0 ELSE 1
  <2>1. CASE spa.pc = "idle"
    <3>1. spa.txg + budget.noop <= hist.base.txg + pool.noop + 0
      BY Zenon, <2>1, <1>0
    <3>2. /\ spa.txg + budget'.noop <= hist.base.txg + pool.noop + 0
          /\ spa.txg + budget'.noop <= hist.base.txg + pool.noop + 1
      BY SMT, <3>1, <1>b, <1>c
    <3> QED
      BY Zenon, <3>2
  <2>2. CASE spa.pc # "idle"
    <3>1. spa.txg + budget.noop <= hist.base.txg + pool.noop + 1
      BY Zenon, <2>2, <1>0
    <3>2. spa.txg + budget'.noop <= hist.base.txg + pool.noop + 1
      BY SMT, <3>1, <1>b, <1>c
    <3> QED
      BY Zenon, <3>2, <2>2
  <2> QED
    BY Zenon, <2>1, <2>2
<1>3. OnRing(hist.base)' /\ (OnRing(spa.ub) => OnRing(spa.ub)')
  BY Zenon, <1>0 DEF OnRing
<1>4. NoneNewer(hist.base)'
  BY Zenon, <1>0 DEF NoneNewer, Newer
<1> QED
  BY Zenon, <1>1, <1>2, <1>3, <1>4 DEF Base

LEMMA DataPhaseBase ==
    ASSUME TypeInv, TypeInv', Base, DataPhase PROVE Base'
<1>1. /\ spa.pc = "data" /\ spa' = [spa EXCEPT !.pc = "even"]
      /\ ring' = ring /\ hist' = hist /\ pool' = pool /\ budget' = budget
  BY Zenon DEF DataPhase, At, Goto, bounds
<1>2. spa'.pc = "even" /\ spa'.txg = spa.txg /\ spa'.ub = spa.ub
  BY Zenon, <1>1 DEF TypeInv, SpaType
<1>3. budget.noop <= budget.noop
  BY SMT, Bounded
<1> QED
  BY Zenon, <1>1, <1>2, <1>3, BaseQuiet DEF Syncing

LEMMA ResumeBase ==
    ASSUME TypeInv, TypeInv', Base, Resume PROVE Base'
<1>1. PICK svd \in SyncVdevs(spa.dirty) : spa' = [CallAgain EXCEPT !.svd = svd]
  BY Zenon DEF Resume
<1>2. /\ spa.pc = "suspended" /\ ring' = ring /\ hist' = hist /\ pool' = pool
      /\ budget' = budget
  BY Zenon DEF Resume, At, disk, bounds
<1>3. spa'.pc = "data" /\ spa'.txg = spa.txg /\ spa'.ub = spa.ub
  BY Zenon, <1>1 DEF TypeInv, SpaType, CallAgain
<1>4. budget.noop <= budget.noop
  BY SMT, Bounded
<1> QED
  BY Zenon, <1>2, <1>3, <1>4, BaseQuiet DEF Syncing

LEMMA OnlineBase ==
    ASSUME TypeInv, TypeInv', Base, Online PROVE Base'
<1>1. /\ spa.pc = "idle" /\ spa' = spa /\ ring' = ring /\ hist' = hist /\ pool' = pool
      /\ budget' = budget
  BY Zenon DEF Online, At, disk, bounds
<1>2. budget.noop <= budget.noop
  BY SMT, Bounded
<1> QED
  BY Zenon, <1>1, <1>2, BaseQuiet

LEMMA OpenBase ==
    ASSUME TypeInv, TypeInv', Base, Open PROVE Base'
<1>1. PICK here \in SUBSET Leaves :
          Spend("missing", Cardinality(Leaves \ here)) /\ present' = here
  BY Zenon DEF Open
<1>2. spa.pc = "down" /\ spa' = [spa EXCEPT !.pc = "load"] /\ ring' = ring /\ hist' = hist
  BY Zenon DEF Open, disk, At, Goto
<1>3. Cardinality(Leaves \ here) \in Nat
  BY Zenon, PoolAssumption, FS_Difference, FS_CardinalityType
<1>4. pool' = pool /\ budget'.noop <= budget.noop
  BY Zenon, <1>1, <1>3, SpendType
<1>5. spa'.pc = "load" /\ spa'.txg = spa.txg /\ spa'.ub = spa.ub
  BY Zenon, <1>2 DEF TypeInv, SpaType
<1> QED
  BY Zenon, <1>2, <1>4, <1>5, BaseQuiet DEF Syncing, Flushing

LEMMA IssueBase ==
    ASSUME TypeInv, TypeInv', Base, spa.pc \in {"even", "ub", "odd"}, NEW pc \in Flushing,
           NEW writes \in SUBSET (Leaves \X Labels), Issue(writes, pc),
           spa.pc = "ub" <=> pc = "ubflush", spa.pc = "odd" <=> pc = "oddflush"
    PROVE  Base'
<1>1. PICK failed \in SUBSET writes :
          /\ Spend("werr", Cardinality(failed))
          /\ cache' = writes \ failed
          /\ spa' = [spa EXCEPT !.pc = pc,
                       !.error = IF At("ub") THEN NoUberblock(writes \ failed)
                                 ELSE NoLabel(writes \ failed)]
          /\ UNCHANGED <<label, ring, data, present, hist>>
  BY Zenon DEF Issue
<1>2. ring' = ring /\ present' = present /\ hist' = hist
  BY Zenon, <1>1
<1>3. Cardinality(failed) \in Nat
  BY Zenon, WritesFinite
<1>4. pool' = pool /\ budget'.noop <= budget.noop
  BY Zenon, <1>1, <1>3, SpendType
<1>5. spa'.pc = pc /\ spa'.txg = spa.txg /\ spa'.ub = spa.ub
      /\ spa'.error = IF At("ub") THEN NoUberblock(writes \ failed) ELSE NoLabel(writes \ failed)
  BY Zenon, <1>1 DEF TypeInv, SpaType
<1>6. spa'.pc = "ubflush" /\ ~spa'.error => cache' # {}
  <2> SUFFICES ASSUME spa'.pc = "ubflush", ~spa'.error PROVE cache' # {}
    OBVIOUS
  <2>1. spa.pc = "ub"
    BY Zenon, <1>5
  <2>2. spa'.error = NoUberblock(writes \ failed)
    BY Zenon, <1>5, <2>1 DEF At
  <2>3. ~NoUberblock(writes \ failed)
    BY Zenon, <2>2
  <2> QED
    BY Zenon, <1>1, <2>3 DEF NoUberblock
<1> QED
  BY Zenon, <1>2, <1>4, <1>5, <1>6, BaseQuiet DEF Syncing, Flushing

LEMMA LabelsBase ==
    ASSUME TypeInv, TypeInv', Base, EvenLabels \/ Uberblocks \/ OddLabels PROVE Base'
<1>1. CASE EvenLabels
  BY Zenon, <1>1, WritesType, IssueBase DEF EvenLabels, At, Flushing
<1>2. CASE Uberblocks
  BY Zenon, <1>2, WritesType, IssueBase DEF Uberblocks, At, Flushing
<1>3. CASE OddLabels
  BY Zenon, <1>3, WritesType, IssueBase DEF OddLabels, At, Flushing
<1> QED
  BY Zenon, <1>1, <1>2, <1>3

LEMMA NewerFacts ==
    ASSUME NEW a \in Ub, NEW b \in Ub
    PROVE  /\ ~Newer(a, a) /\ ~Newer(None, a)
           /\ ~Newer(a, b) /\ ~Newer(b, a) => a = b
           /\ b.txg < a.txg => ~Newer(b, a)
           /\ \A c \in Ub : ~Newer(a, b) /\ (b = c \/ b.txg < c.txg) => ~Newer(a, c)
<1>1. a.txg \in Nat /\ a.ts \in Nat /\ b.txg \in Nat /\ b.ts \in Nat
  BY Zenon DEF Ub
<1>2. None.txg = 0 /\ None.ts = 0
  BY Zenon DEF None
<1>3. ~Newer(a, a) /\ ~Newer(None, a) /\ (b.txg < a.txg => ~Newer(b, a))
  BY SMT, <1>1, <1>2 DEF Newer
<1>4. ~Newer(a, b) /\ ~Newer(b, a) => a.txg = b.txg /\ a.ts = b.ts
  BY SMT, <1>1 DEF Newer
<1>5. a.txg = b.txg /\ a.ts = b.ts => a = b
  BY SMT DEF Ub
<1>6. ASSUME NEW c \in Ub, ~Newer(a, b), b.txg < c.txg PROVE ~Newer(a, c)
  <2>1. c.txg \in Nat /\ c.ts \in Nat
    BY Zenon DEF Ub
  <2> QED
    BY SMT, <1>1, <1>6, <2>1 DEF Newer
<1> QED
  BY Zenon, <1>3, <1>4, <1>5, <1>6

LEMMA BaseInit == ASSUME Init PROVE Base
<1> DEFINE ub == [txg |-> InitTxg, ts |-> 1]
           m == InitTxg % VDEV_UBERBLOCK_COUNT
<1>1. TypeInv
  BY Zenon, DataInit DEF DataInv
<1>b. /\ spa.txg \in Nat /\ pool.noop \in Nat /\ None \in Ub /\ hist.base \in Ub
  BY Zenon, <1>1, Bounded
<1>2. /\ spa = [pc |-> "idle", txg |-> InitTxg, boot |-> 1, ub |-> ub, dirty |-> {},
                svd |-> {}, tryhard |-> FALSE, error |-> FALSE]
      /\ hist = [synced |-> ub, base |-> ub, cfg |-> [t \in Tops |-> ub], lost |-> {}]
      /\ present = Leaves /\ budget = pool
  BY Zenon DEF Init
<1>3. spa.pc = "idle" /\ spa.ub = ub /\ hist.base = ub /\ spa.txg = InitTxg /\ ub.txg = InitTxg
  BY Zenon, <1>2
<1>4. \A v \in Leaves, l \in Labels : ring[v][l] = [n \in RingSlots |-> IF n = m THEN ub ELSE None]
  BY Zenon DEF Init, RingSlots
<1>5. m \in RingSlots /\ Slot(ub) = m
  BY Zenon, <1>3, PoolAssumption, DivMod DEF RingSlots, Slot
<1> HIDE DEF ub, m
<1>6. OnRing(ub)
  <2>1. PICK v : v \in Leaves
    BY Zenon, PoolAssumption
  <2>2. 0 \in Labels
    BY SMT, PoolAssumption DEF Labels
  <2>3. ring[v][0][m] = ub
    BY Zenon, <1>4, <1>5, <2>1, <2>2
  <2> QED
    BY Zenon, <1>5, <2>1, <2>2, <2>3 DEF OnRing
<1>7. NoneNewer(ub)
  <2>1. ASSUME NEW v \in Leaves, NEW l \in Labels, NEW n \in RingSlots
        PROVE  ring[v][l][n] = ub \/ ring[v][l][n] = None
    BY Zenon, <1>4
  <2>2. ~Newer(None, ub)
    BY Zenon, <1>b, <1>3, NewerFacts
  <2> QED
    BY Zenon, <1>3, <2>1, <2>2 DEF NoneNewer
<1>8. /\ pool.noop <= pool.noop /\ InitTxg <= InitTxg
      /\ InitTxg + pool.noop <= InitTxg + pool.noop + 0
  BY SMT, <1>b, <1>3
<1> QED
  BY Zenon, <1>2, <1>3, <1>6, <1>7, <1>8 DEF Base, Syncing, Flushing

LEMMA SyncTxgBase ==
    ASSUME TypeInv, TypeInv', Roomy, Base, SyncTxg PROVE Base'
<1>0. PICK dirty \in SUBSET Tops : \E svd \in SyncVdevs(dirty) :
          spa' = [spa EXCEPT !.pc = "data", !.txg = spa.txg + 1, !.dirty = dirty, !.svd = svd,
                    !.ub = [txg |-> spa.txg + 1, ts |-> spa.boot],
                    !.tryhard = FALSE, !.error = FALSE]
  BY Zenon DEF SyncTxg
<1>1. /\ spa.pc = "idle" /\ ring' = ring /\ present' = present /\ hist' = hist
      /\ pool' = pool /\ budget' = budget
  BY Zenon DEF SyncTxg, bounds, At
<1>2. spa'.pc = "data" /\ spa'.txg = spa.txg + 1 /\ spa'.ub = [txg |-> spa.txg + 1, ts |-> spa.boot]
  BY Zenon, <1>0 DEF TypeInv, SpaType
<1>3. spa'.ub.txg = spa.txg + 1
  <2>1. [txg |-> spa.txg + 1, ts |-> spa.boot].txg = spa.txg + 1
    BY Zenon
  <2> QED
    BY Zenon, <1>2, <2>1
<1>b. /\ spa.txg \in Nat /\ pool.noop \in Nat /\ budget.noop \in Nat
      /\ hist.base \in Ub /\ hist.base.txg \in Nat
      /\ VDEV_UBERBLOCK_COUNT \in Nat
  BY Zenon, Bounded, PoolAssumption
<1>4. /\ budget.noop <= pool.noop
      /\ OnRing(hist.base) /\ NoneNewer(hist.base) /\ spa.ub = hist.base
      /\ spa.ub.txg <= spa.txg
      /\ spa.txg + budget.noop <= hist.base.txg + pool.noop + 0
  BY Zenon, <1>1 DEF Base
<1>5. pool.noop + 2 <= VDEV_UBERBLOCK_COUNT
  BY Zenon DEF Roomy
<1>6. hist.base.txg <= spa.txg
  BY Zenon, <1>4
<1>7. /\ hist.base.txg < spa.txg + 1
      /\ spa.txg + 1 < hist.base.txg + VDEV_UBERBLOCK_COUNT
      /\ spa.txg + 1 <= spa.txg + 1
      /\ (spa.txg + 1) + budget.noop <= hist.base.txg + pool.noop + 1
  BY SMT, <1>b, <1>4, <1>5, <1>6
<1>8. OnRing(hist.base)'
  BY Zenon, <1>1, <1>4 DEF OnRing
<1>9. NoneNewer(hist.base)'
  <2>1. ~Newer(hist.base, hist.base)
    BY Zenon, <1>b, NewerFacts
  <2>2. ASSUME NEW v \in Leaves, NEW l \in Labels, NEW n \in RingSlots
        PROVE  ~Newer(ring[v][l][n], hist.base)
    BY Zenon, <2>1, <1>4 DEF NoneNewer
  <2> QED
    BY Zenon, <1>1, <2>2 DEF NoneNewer, Newer
<1> QED
  BY Zenon, <1>1, <1>2, <1>3, <1>4, <1>7, <1>8, <1>9 DEF Base

LEMMA NoopTxgBase ==
    ASSUME TypeInv, TypeInv', Base, NoopTxg PROVE Base'
<1>1. /\ spa.pc = "idle" /\ ring' = ring /\ present' = present /\ hist' = hist
      /\ spa' = [spa EXCEPT !.txg = spa.txg + 1]
      /\ pool' = pool /\ budget' = [budget EXCEPT !.noop = budget.noop - 1]
  BY Zenon DEF NoopTxg, disk, At, Spend
<1>2. /\ spa'.pc = "idle" /\ spa'.txg = spa.txg + 1 /\ spa'.ub = spa.ub
      /\ budget'.noop = budget.noop - 1 /\ budget'.missing = budget.missing
  BY Zenon, <1>1 DEF TypeInv, SpaType, ScenarioType
<1>b. /\ spa.txg \in Nat /\ pool.noop \in Nat /\ budget.noop \in Nat
      /\ hist.base.txg \in Nat /\ spa.ub.txg \in Nat
  BY Zenon, Bounded
<1>3. /\ budget.noop <= pool.noop
      /\ OnRing(hist.base) /\ NoneNewer(hist.base) /\ spa.ub = hist.base
      /\ spa.ub.txg <= spa.txg
      /\ spa.txg + budget.noop <= hist.base.txg + pool.noop + 0
  BY Zenon, <1>1 DEF Base
<1>4. /\ budget.noop - 1 <= pool.noop /\ spa.ub.txg <= spa.txg + 1
      /\ (spa.txg + 1) + (budget.noop - 1) <= hist.base.txg + pool.noop + 0
  BY SMT, <1>b, <1>3
<1>5. OnRing(hist.base)'
  BY Zenon, <1>1, <1>3 DEF OnRing
<1>6. NoneNewer(hist.base)'
  BY Zenon, <1>1, <1>2, <1>3 DEF NoneNewer, Newer
<1> QED
  BY Zenon, <1>1, <1>2, <1>3, <1>4, <1>5, <1>6 DEF Base, Syncing, Flushing

LEMMA RingsKeep ==
    ASSUME TypeInv, Base, NEW kept \in SUBSET (Leaves \X Labels), NEW torn,
           kept \cap torn = {}, ring' = PlatterRings(kept, torn)
    PROVE  /\ \E v \in Leaves, l \in Labels : ring'[v][l][Slot(hist.base)] = hist.base
           /\ \A v \in Leaves, l \in Labels, n \in RingSlots :
                ring'[v][l][n] = spa.ub \/ ~Newer(ring'[v][l][n], hist.base)
           /\ \/ spa.pc = "ubflush" /\ kept # {}
              \/ spa.pc # "ubflush" /\ OnRing(spa.ub)
              => \E v \in Leaves, l \in Labels : ring'[v][l][Slot(spa.ub)] = spa.ub
<1>b. /\ hist.base \in Ub /\ spa.ub \in Ub /\ hist.base.txg \in Nat /\ spa.ub.txg \in Nat
      /\ None \in Ub
  BY Zenon, Bounded
<1>1. Slot(hist.base) \in RingSlots /\ Slot(spa.ub) \in RingSlots
  BY Zenon, <1>b, DivMod, PoolAssumption DEF Slot, RingSlots
<1>2. \A v \in Leaves, l \in Labels, n \in RingSlots :
         Written(<<v, l>>, n, ring[v][l][n], ring'[v][l][n], kept, torn)
  BY Zenon, PlatterEntry
<1>3. spa.pc = "ubflush" => Slot(hist.base) # Slot(spa.ub)
  <2> SUFFICES ASSUME spa.pc = "ubflush" PROVE Slot(hist.base) # Slot(spa.ub)
    OBVIOUS
  <2>1. hist.base.txg < spa.ub.txg /\ spa.ub.txg < hist.base.txg + VDEV_UBERBLOCK_COUNT
    BY Zenon DEF Base, Syncing, Flushing
  <2> QED
    BY Zenon, <1>b, <2>1, SlotsDiffer, PoolAssumption DEF Slot
<1>4. \E v \in Leaves, l \in Labels : ring'[v][l][Slot(hist.base)] = hist.base
  <2>1. PICK v \in Leaves, l \in Labels : ring[v][l][Slot(hist.base)] = hist.base
    BY Zenon DEF Base, OnRing
  <2>2. Written(<<v, l>>, Slot(hist.base), ring[v][l][Slot(hist.base)],
                ring'[v][l][Slot(hist.base)], kept, torn)
    BY Zenon, <1>1, <1>2
  <2>3. ring'[v][l][Slot(hist.base)] = ring[v][l][Slot(hist.base)]
    BY Zenon, <1>3, <2>2 DEF Written
  <2> QED
    BY Zenon, <2>1, <2>3
<1>5. ASSUME NEW v \in Leaves, NEW l \in Labels, NEW n \in RingSlots
      PROVE  ring'[v][l][n] = spa.ub \/ ~Newer(ring'[v][l][n], hist.base)
  <2>1. PICK new : new = ring'[v][l][n]
    OBVIOUS
  <2>2. new = ring[v][l][n] \/ new = None \/ new = spa.ub
    <3>1. Written(<<v, l>>, n, ring[v][l][n], ring'[v][l][n], kept, torn)
      BY Zenon, <1>2
    <3>2. Written(<<v, l>>, n, ring[v][l][n], new, kept, torn)
      BY Zenon, <2>1, <3>1
    <3> QED
      BY Zenon, <3>2 DEF Written
  <2>3. ring[v][l][n] = spa.ub \/ ~Newer(ring[v][l][n], hist.base)
    BY Zenon DEF Base, NoneNewer
  <2>4. ~Newer(None, hist.base)
    BY Zenon, <1>b, NewerFacts
  <2>5. new = spa.ub \/ ~Newer(new, hist.base)
    BY Zenon, <2>2, <2>3, <2>4
  <2> QED
    BY Zenon, <2>1, <2>5
<1>6. ASSUME spa.pc = "ubflush", kept # {}
      PROVE  \E v \in Leaves, l \in Labels : ring'[v][l][Slot(spa.ub)] = spa.ub
  <2>1. PICK v \in Leaves, l \in Labels : <<v, l>> \in kept
    BY SMT, <1>6
  <2>2. Written(<<v, l>>, Slot(spa.ub), ring[v][l][Slot(spa.ub)],
                ring'[v][l][Slot(spa.ub)], kept, torn)
    BY Zenon, <1>1, <1>2
  <2>3. ring'[v][l][Slot(spa.ub)] = spa.ub
    BY Zenon, <1>6, <2>1, <2>2 DEF Written
  <2> QED
    BY Zenon, <2>3
<1>7. ASSUME spa.pc # "ubflush", OnRing(spa.ub)
      PROVE  \E v \in Leaves, l \in Labels : ring'[v][l][Slot(spa.ub)] = spa.ub
  <2>1. PICK v \in Leaves, l \in Labels : ring[v][l][Slot(spa.ub)] = spa.ub
    BY Zenon, <1>7 DEF OnRing
  <2>2. Written(<<v, l>>, Slot(spa.ub), ring[v][l][Slot(spa.ub)],
                ring'[v][l][Slot(spa.ub)], kept, torn)
    BY Zenon, <1>1, <1>2
  <2>3. ring'[v][l][Slot(spa.ub)] = spa.ub
    BY Zenon, <1>7, <2>1, <2>2 DEF Written
  <2> QED
    BY Zenon, <2>3
<1> QED
  BY Zenon, <1>4, <1>5, <1>6, <1>7

LEMMA CrashBase ==
    ASSUME TypeInv, TypeInv', Base, Crash PROVE Base'
<1>f. /\ spa'.pc = "down" /\ spa'.txg = spa.txg /\ spa'.ub = spa.ub
      /\ hist'.base = hist.base /\ pool' = pool
      /\ budget'.noop <= budget.noop
  BY Zenon, CrashFacts
<1>b. /\ spa.txg \in Nat /\ pool.noop \in Nat /\ budget.noop \in Nat
      /\ hist.base.txg \in Nat
  BY Zenon, Bounded
<1>c. budget'.noop \in Nat
  BY Zenon DEF TypeInv, ScenarioType
<1>1. PICK kept \in SUBSET cache : \E torn \in SUBSET (cache \ kept) :
          ring' = PlatterRings(kept, torn)
  BY Zenon DEF Crash
<1>2. PICK torn \in SUBSET (cache \ kept) : ring' = PlatterRings(kept, torn)
  BY Zenon, <1>1
<1>3. kept \cap torn = {} /\ kept \in SUBSET (Leaves \X Labels)
  BY Zenon DEF TypeInv
<1>4. /\ \E v \in Leaves, l \in Labels : ring'[v][l][Slot(hist.base)] = hist.base
      /\ \A v \in Leaves, l \in Labels, n \in RingSlots :
           ring'[v][l][n] = spa.ub \/ ~Newer(ring'[v][l][n], hist.base)
  BY Zenon, <1>2, <1>3, RingsKeep
<1>5. OnRing(hist.base)'
  BY Zenon, <1>f, <1>4 DEF OnRing
<1>6. NoneNewer(hist.base)'
  BY Zenon, <1>f, <1>4 DEF NoneNewer, Newer
<1>7. /\ budget.noop <= pool.noop
      /\ \/ spa.ub = hist.base
         \/ /\ hist.base.txg < spa.ub.txg
            /\ spa.ub.txg < hist.base.txg + VDEV_UBERBLOCK_COUNT
      /\ spa.ub.txg <= spa.txg
      /\ \/ spa.txg + budget.noop <= hist.base.txg + pool.noop + 0
         \/ spa.txg + budget.noop <= hist.base.txg + pool.noop + 1
  BY Zenon DEF Base
<1>8. /\ budget'.noop <= pool.noop
      /\ spa.txg + budget'.noop <= hist.base.txg + pool.noop + 1
  BY SMT, <1>b, <1>c, <1>f, <1>7
<1> QED
  BY Zenon, <1>f, <1>5, <1>6, <1>7, <1>8 DEF Base, Syncing, Flushing

LEMMA FlushPhaseBase ==
    ASSUME DataInv, TypeInv', Base, FlushPhase PROVE Base'
<1>i. TypeInv /\ SyncInv
  BY Zenon DEF DataInv
<1>f. /\ spa.pc \in Flushing /\ ring' = PlatterRings(cache, {})
      /\ spa'.pc \in {"suspended", "data", "ub", "odd", "idle"}
      /\ spa'.txg = spa.txg /\ spa'.ub = spa.ub
      /\ cache' = {} /\ present' = present /\ pool' = pool /\ budget' = budget
      /\ spa'.pc = "idle" => spa.pc = "oddflush"
      /\ spa'.pc = "odd" => spa.pc = "ubflush" /\ ~spa.error
      /\ spa'.pc = "idle" => hist'.base = spa.ub
      /\ spa'.pc # "idle" => hist' = hist
  BY Zenon, <1>i, FlushFacts
<1>b. /\ spa.txg \in Nat /\ pool.noop \in Nat /\ budget.noop \in Nat /\ hist.base \in Ub
      /\ spa.ub \in Ub /\ spa.ub.txg \in Nat
  BY Zenon, <1>i, Bounded
<1>1. cache \cap {} = {} /\ cache \in SUBSET (Leaves \X Labels)
  BY Zenon, <1>i DEF TypeInv
<1>2. /\ \E v \in Leaves, l \in Labels : ring'[v][l][Slot(hist.base)] = hist.base
      /\ \A v \in Leaves, l \in Labels, n \in RingSlots :
           ring'[v][l][n] = spa.ub \/ ~Newer(ring'[v][l][n], hist.base)
      /\ \/ spa.pc = "ubflush" /\ cache # {}
         \/ spa.pc # "ubflush" /\ OnRing(spa.ub)
         => \E v \in Leaves, l \in Labels : ring'[v][l][Slot(spa.ub)] = spa.ub
  BY Zenon, <1>i, <1>f, <1>1, RingsKeep
<1>3. /\ budget.noop <= pool.noop
      /\ hist.base.txg < spa.ub.txg
      /\ spa.ub.txg < hist.base.txg + VDEV_UBERBLOCK_COUNT
      /\ spa.ub.txg <= spa.txg
      /\ spa.txg + budget.noop <= hist.base.txg + pool.noop + 1
      /\ spa.pc = "ubflush" /\ ~spa.error => cache # {}
      /\ spa.pc = "oddflush" => OnRing(spa.ub)
  BY Zenon, <1>f DEF Base, Syncing, Flushing
<1>4. CASE spa'.pc = "idle"
  <2>1. spa.pc = "oddflush" /\ hist'.base = spa.ub
    BY Zenon, <1>4, <1>f
  <2>2. \E v \in Leaves, l \in Labels : ring'[v][l][Slot(spa.ub)] = spa.ub
    BY Zenon, <1>2, <1>3, <2>1
  <2>3. OnRing(hist.base)'
    BY Zenon, <2>1, <2>2 DEF OnRing
  <2>4. ASSUME NEW v \in Leaves, NEW l \in Labels, NEW n \in RingSlots
        PROVE  ring'[v][l][n] = spa.ub \/ ~Newer(ring'[v][l][n], spa.ub)
    <3>1. PICK new : new = ring'[v][l][n]
      OBVIOUS
    <3>2. new \in Ub
      <4>1. ring'[v] \in [Labels -> [RingSlots -> Ub]]
        BY Zenon DEF TypeInv
      <4>2. ring'[v][l] \in [RingSlots -> Ub]
        BY Zenon, <4>1
      <4> QED
        BY Zenon, <4>2, <3>1
    <3>3. new = spa.ub \/ ~Newer(new, hist.base)
      <4>1. ring'[v][l][n] = spa.ub \/ ~Newer(ring'[v][l][n], hist.base)
        BY Zenon, <1>2
      <4> QED
        BY Zenon, <4>1, <3>1
    <3>4. new = spa.ub \/ ~Newer(new, spa.ub)
      BY Zenon, <3>2, <3>3, <1>b, <1>3, NewerFacts
    <3> QED
      BY Zenon, <3>1, <3>4
  <2>5. NoneNewer(hist.base)'
    BY Zenon, <1>f, <2>1, <2>4 DEF NoneNewer, Newer
  <2>6. spa.ub.txg = spa.txg
    <3>1. spa.ub = [txg |-> spa.txg, ts |-> spa.boot]
      BY Zenon, <1>i, <2>1 DEF SyncInv, Syncing, Flushing
    <3>2. [txg |-> spa.txg, ts |-> spa.boot].txg = spa.txg
      BY Zenon
    <3> QED
      BY Zenon, <3>1, <3>2
  <2>7. spa.txg + budget.noop <= spa.ub.txg + pool.noop + 0
    BY SMT, <1>b, <1>3, <2>6
  <2> QED
    BY Zenon, <1>4, <1>f, <1>3, <2>1, <2>3, <2>5, <2>7 DEF Base, Syncing, Flushing
<1>5. CASE spa'.pc # "idle"
  <2>1. hist' = hist
    BY Zenon, <1>5, <1>f
  <2>2. OnRing(hist.base)'
    BY Zenon, <1>2, <2>1 DEF OnRing
  <2>3. NoneNewer(hist.base)'
    BY Zenon, <1>f, <1>2, <2>1 DEF NoneNewer, Newer
  <2>4. spa'.pc = "odd" => OnRing(spa.ub)'
    <3> SUFFICES ASSUME spa'.pc = "odd" PROVE OnRing(spa.ub)'
      OBVIOUS
    <3>1. \E v \in Leaves, l \in Labels : ring'[v][l][Slot(spa.ub)] = spa.ub
      BY Zenon, <1>f, <1>2, <1>3
    <3> QED
      BY Zenon, <1>f, <3>1 DEF OnRing
  <2> QED
    BY Zenon, <1>5, <1>f, <1>3, <2>1, <2>2, <2>3, <2>4 DEF Base
<1> QED
  BY Zenon, <1>4, <1>5

(* The uberblock that an open chooses.                                     *)
LEMMA BestIsBase ==
    ASSUME DataInv, Base, Full
    PROVE  /\ BestUberblock \in {hist.base, spa.ub}
           /\ OnRing(BestUberblock)
<1>i. TypeInv
  BY Zenon DEF DataInv
<1>b. /\ hist.base \in Ub /\ spa.ub \in Ub /\ hist.base.txg \in Nat /\ spa.ub.txg \in Nat
  BY Zenon, <1>i, Bounded
<1>1. PICK best : best = BestUberblock
  OBVIOUS
<1>2. /\ present = Leaves /\ OnRing(hist.base) /\ NoneNewer(hist.base)
      /\ \/ spa.ub = hist.base
         \/ hist.base.txg < spa.ub.txg
  BY Zenon DEF Base, Full
<1>3. best \in Ub
  BY Zenon, <1>1, BestExists
<1>4. PICK v \in Leaves, l \in Labels, n \in RingSlots : best = ring[v][l][n]
  BY Zenon, <1>1, <1>2, BestExists
<1>5. best = spa.ub \/ ~Newer(best, hist.base)
  BY Zenon, <1>2, <1>4 DEF NoneNewer
<1>6. ~Newer(hist.base, best)
  <2>1. PICK vb \in Leaves, lb \in Labels : ring[vb][lb][Slot(hist.base)] = hist.base
    BY Zenon, <1>2 DEF OnRing
  <2>2. Slot(hist.base) \in RingSlots
    BY Zenon, <1>b, DivMod, PoolAssumption DEF Slot, RingSlots
  <2>3. ~Newer(ring[vb][lb][Slot(hist.base)], BestUberblock)
    BY Zenon, <1>2, <2>2, BestExists
  <2> QED
    BY Zenon, <1>1, <2>1, <2>3
<1>7. best \in {hist.base, spa.ub}
  BY Zenon, <1>3, <1>b, <1>5, <1>6, NewerFacts
<1>8. OnRing(best)
  <2>1. CASE best = hist.base
    BY Zenon, <1>2, <2>1
  <2>2. CASE best # hist.base
    <3>1. best = spa.ub /\ hist.base.txg < spa.ub.txg
      <4>1. best = spa.ub
        BY Zenon, <1>7, <2>2
      <4>2. spa.ub # hist.base
        BY Zenon, <4>1, <2>2
      <4> QED
        BY Zenon, <1>2, <4>1, <4>2
    <3>2. None.txg = 0
      BY Zenon DEF None
    <3>3. spa.ub.txg # 0
      BY SMT, <1>b, <3>1
    <3>4. best # None
      BY Zenon, <3>1, <3>2, <3>3
    <3>5. Sound(ring[v][l][n], n)
      BY Zenon DEF DataInv, RingInv
    <3>6. n = Slot(best)
      BY Zenon, <1>4, <3>4, <3>5 DEF Sound
    <3> QED
      BY Zenon, <1>4, <3>6 DEF OnRing
  <2> QED
    BY Zenon, <2>1, <2>2
<1> QED
  BY Zenon, <1>1, <1>7, <1>8

LEMMA LoadBase ==
    ASSUME DataInv, TypeInv', Base, Full, Load PROVE Base'
<1>i. TypeInv
  BY Zenon DEF DataInv
<1>1. PICK best : best = BestUberblock
  OBVIOUS
<1>f. /\ spa'.pc = "idle" /\ spa'.txg = best.txg /\ spa'.ub = best /\ hist'.base = best
      /\ ring' = ring /\ present' = present /\ pool' = pool /\ budget' = budget
  BY Zenon, <1>i, <1>1, LoadFacts
<1>2. OnRing(best) /\ best \in Ub
  BY Zenon, <1>1, BestIsBase, BestExists
<1>3. present = Leaves /\ budget.noop <= pool.noop
  BY Zenon DEF Base, Full
<1>b. best.txg \in Nat /\ pool.noop \in Nat /\ budget.noop \in Nat
  BY Zenon, <1>i, <1>2, Bounded
<1>4. best.txg <= best.txg /\ best.txg + budget.noop <= best.txg + pool.noop + 0
  BY SMT, <1>b, <1>3
<1>5. OnRing(hist.base)'
  BY Zenon, <1>f, <1>2 DEF OnRing
<1>6. \A v \in Leaves, l \in Labels, n \in RingSlots : ~Newer(ring[v][l][n], best)
  BY Zenon, <1>1, <1>3, BestExists
<1>7. NoneNewer(hist.base)'
  BY Zenon, <1>f, <1>6 DEF NoneNewer, Newer
<1>8. spa'.ub.txg <= spa'.txg
  BY Zenon, <1>f, <1>4
<1>9. spa'.txg + budget'.noop <= hist'.base.txg + pool'.noop + 0
  BY Zenon, <1>f, <1>4
<1> QED
  BY Zenon, <1>f, <1>3, <1>5, <1>7, <1>8, <1>9 DEF Base, Syncing, Flushing

LEMMA StutterBase ==
    ASSUME TypeInv, TypeInv', Base, UNCHANGED vars PROVE Base'
<1>1. /\ spa' = spa /\ ring' = ring /\ cache' = cache /\ hist' = hist
      /\ pool' = pool /\ budget' = budget
  BY Zenon DEF vars, disk, bounds
<1>2. budget.noop <= budget.noop
  BY SMT, Bounded
<1>3. spa.pc = "ubflush" /\ ~spa.error => cache # {}
  BY Zenon DEF Base
<1> QED
  BY Zenon, <1>1, <1>2, <1>3, BaseQuiet

LEMMA PoolConstant == [Next]_vars => pool' = pool
BY Zenon DEF Next, ConfigSync, SyncTxg, NoopTxg, DataPhase, EvenLabels, Uberblocks, OddLabels,
   Issue, FlushPhase, Resume, Crash, Open, Load, Online, Spend, bounds, vars

LEMMA BaseStep ==
    ASSUME DataInv, TypeInv', Roomy, Base, [Next]_vars, Load => Full PROVE Base'
<1>i. TypeInv
  BY Zenon DEF DataInv
<1>1. CASE Next
  <2>1. CASE ConfigSync
    BY Zenon, <2>1, <1>i, DataPhaseBase, LabelsBase, FlushPhaseBase, ResumeBase DEF ConfigSync
  <2> QED
    BY Zenon, <1>1, <1>i, <2>1, SyncTxgBase, NoopTxgBase, CrashBase, OpenBase, LoadBase,
       OnlineBase DEF Next
<1> QED
  BY Zenon, <1>1, <1>i, StutterBase

LEMMA BudgetStep ==
    ASSUME TypeInv, [Next]_vars
    PROVE  budget'.missing <= budget.missing /\ budget'.werr <= budget.werr
<1>1. CASE budget' = budget
  <2>1. budget.missing \in Nat /\ budget.werr \in Nat
    BY Zenon DEF TypeInv, ScenarioType
  <2>2. budget.missing <= budget.missing /\ budget.werr <= budget.werr
    BY SMT, <2>1
  <2> QED
    BY Zenon, <1>1, <2>2
<1>2. CASE NoopTxg \/ Crash
  <2>1. \E f \in {"crash", "noop"} : Spend(f, 1)
    BY Zenon, <1>2 DEF NoopTxg, Crash
  <2>2. 1 \in Nat
    BY SMT
  <2> QED
    BY Zenon, <2>1, <2>2, SpendType
<1>3. CASE Open
  <2>1. PICK here \in SUBSET Leaves : Spend("missing", Cardinality(Leaves \ here))
    BY Zenon, <1>3 DEF Open
  <2>2. Cardinality(Leaves \ here) \in Nat
    BY Zenon, PoolAssumption, FS_Difference, FS_CardinalityType
  <2> QED
    BY Zenon, <2>1, <2>2, SpendType
<1>4. CASE EvenLabels \/ Uberblocks \/ OddLabels
  <2>1. PICK writes \in SUBSET (Leaves \X Labels), pc \in Flushing : Issue(writes, pc)
    BY Zenon, <1>4, WritesType DEF EvenLabels, Uberblocks, OddLabels, Flushing
  <2>2. PICK failed \in SUBSET writes : Spend("werr", Cardinality(failed))
    BY Zenon, <2>1 DEF Issue
  <2>3. Cardinality(failed) \in Nat
    BY Zenon, WritesFinite
  <2> QED
    BY Zenon, <2>2, <2>3, SpendType
<1>5. \/ budget' = budget
      \/ NoopTxg \/ Crash \/ Open \/ EvenLabels \/ Uberblocks \/ OddLabels
  BY Zenon DEF Next, ConfigSync, SyncTxg, DataPhase, FlushPhase, Resume, Load, Online,
     bounds, vars
<1> QED
  BY Zenon, <1>1, <1>2, <1>3, <1>4, <1>5

LEMMA FullStep ==
    ASSUME TypeInv, TypeInv', Full, [Next]_vars PROVE Full'
<1>0. present = Leaves /\ budget.missing = 0
  BY Zenon DEF Full
<1>1. budget'.missing = 0
  <2>1. budget'.missing <= budget.missing
    BY Zenon, BudgetStep
  <2>2. budget'.missing \in Nat
    BY Zenon DEF TypeInv, ScenarioType
  <2> QED
    BY SMT, <1>0, <2>1, <2>2
<1>2. CASE Open
  <2>1. PICK here \in SUBSET Leaves :
          Spend("missing", Cardinality(Leaves \ here)) /\ present' = here
    BY Zenon, <1>2 DEF Open
  <2>2. IsFiniteSet(Leaves \ here) /\ Cardinality(Leaves \ here) \in Nat
    BY Zenon, PoolAssumption, FS_Difference, FS_CardinalityType
  <2>3. Cardinality(Leaves \ here) <= 0
    BY Zenon, <1>0, <2>1 DEF Spend
  <2>4. Cardinality(Leaves \ here) = 0
    BY SMT, <2>2, <2>3
  <2>5. here = Leaves
    <3>1. Leaves \ here = {}
      BY Zenon, <2>2, <2>4, FS_EmptySet
    <3> QED
      BY Zenon, <3>1
  <2> QED
    BY Zenon, <1>1, <2>1, <2>5 DEF Full
<1>3. Open \/ present' = present \/ present' = Leaves
  BY Zenon DEF Next, ConfigSync, SyncTxg, NoopTxg, DataPhase, EvenLabels, Uberblocks,
     OddLabels, Issue, FlushPhase, Resume, Crash, Load, Online, vars
<1> QED
  BY Zenon, <1>0, <1>1, <1>2, <1>3 DEF Full

LEMMA BaseInvariant == Spec => []BaseInv
<1>1. Init => BaseInv
  <2>1. Init /\ Covered => Full
    BY Zenon DEF Init, Covered, Full
  <2> QED
    BY Zenon, <2>1, BaseInit DEF BaseInv
<1>2. DataInv /\ DataInv' /\ BaseInv /\ [Next]_vars => BaseInv'
  <2> SUFFICES ASSUME DataInv, DataInv', BaseInv, [Next]_vars, Covered' PROVE Base' /\ Full'
    BY Zenon DEF BaseInv
  <2>1. TypeInv /\ TypeInv'
    BY Zenon DEF DataInv
  <2>2. pool' = pool
    BY Zenon, PoolConstant
  <2>3. Roomy /\ Base /\ Full
    BY Zenon, <2>2 DEF BaseInv, Covered, Roomy
  <2> QED
    BY Zenon, <2>1, <2>3, BaseStep, FullStep
<1> QED
  BY <1>1, <1>2, DataInvariant, PTL DEF Spec

(* With no leaf missing and a ring that has room for the txgs that were    *)
(* closed without a change: after any number of crashes, torn and failed   *)
(* writes the uberblock that an open chooses is the last one that was      *)
(* committed or chosen, or the one that was being written.                 *)
THEOREM NewestFound == Spec => [](Covered => UberblockFound)
<1>1. DataInv /\ BaseInv => (Covered => UberblockFound)
  BY Zenon, BestIsBase DEF BaseInv, UberblockFound
<1> QED
  BY <1>1, DataInvariant, BaseInvariant, PTL

-----------------------------------------------------------------------------
(* The labels: the configuration that an open reads                        *)

First == spa.boot = 1 /\ budget.werr = pool.werr
Cfg(v) == hist.cfg[Top[v]]
Dirty(v) == Top[v] \in spa.dirty

EvenNew == \A v \in Leaves, l \in Labels : Dirty(v) /\ l % 2 = 0 => label[v][l] = spa.ub
EvenOld == \A v \in Leaves, l \in Labels : l % 2 = 0 => label[v][l] = Cfg(v)
OddOld == \A v \in Leaves, l \in Labels : l % 2 = 1 => label[v][l] = Cfg(v)

(* All leaves of some top-level vdev have the uberblock; no leaf has it.   *)
Mirrored(ub) == \E t \in Tops : \A v \in Leaves :
                   Top[v] = t => \E l \in Labels : ring[v][l][Slot(ub)] = ub
Absent(ub) == \A v \in Leaves, l \in Labels, n \in RingSlots : ring[v][l][n] # ub

(* No write fails, so none is tried again.                                 *)
Smooth ==
    /\ ~spa.error /\ spa.pc # "suspended"
    /\ IF spa.pc = "load" THEN \A t \in Tops : \E v \in present : Top[v] = t
       ELSE present = Leaves
    /\ spa.pc \in Syncing => spa.svd # {}
    /\ spa.pc = "idle" \/ spa.ub = hist.base => spa.dirty = {}
    /\ spa.pc = "evenflush" => cache = LabelWrites(0)
    /\ spa.pc = "ubflush" => cache = Under(spa.svd) \X Labels
    /\ spa.pc = "oddflush" => cache = LabelWrites(1)

CfgInv ==
    /\ \A v \in Leaves : 0 < Cfg(v).txg /\ Cfg(v).txg <= hist.base.txg
    /\ \A v \in Leaves, l \in Labels :
         label[v][l] = Cfg(v) \/ (Dirty(v) /\ label[v][l] \in {None, spa.ub})
    /\ spa.pc \in {"idle", "data", "even", "evenflush"} => EvenOld /\ OddOld
    /\ spa.pc \in {"ub", "ubflush", "odd", "oddflush"} => EvenNew /\ OddOld
    /\ spa.pc \in {"down", "load"} =>
         (Absent(spa.ub) \/ EvenNew) /\ (OddOld \/ Mirrored(spa.ub))

CopyInv ==
    /\ Mirrored(hist.base)
    /\ spa.pc \in {"data", "even", "evenflush", "ub"} => Absent(spa.ub)
    /\ spa.pc \in {"odd", "oddflush"} => Mirrored(spa.ub)

Config == Smooth /\ CfgInv /\ CopyInv
FirstInv == budget.werr <= pool.werr /\ (First /\ Roomy => Base /\ Config)

-----------------------------------------------------------------------------
(* Which label is read                                                     *)

LEMMA LabelEntry ==
    ASSUME TypeInv, NEW v \in Leaves, NEW l \in Labels
    PROVE  label[v][l] \in Ub /\ label[v][l].txg \in Nat
<1>1. label[v] \in [Labels -> Ub]
  BY Zenon DEF TypeInv
<1>2. label[v][l] \in Ub
  BY Zenon, <1>1
<1> QED
  BY Zenon, <1>2, Bounded

LEMMA LabelNumbers == Labels \subseteq Nat /\ 0 \in Labels /\ 1 \in Labels
                      /\ \A l \in Labels : l % 2 = 0 \/ l % 2 = 1
BY SMT, PoolAssumption DEF Labels

LEMMA ReadConfigIs ==
    ASSUME TypeInv, NEW v \in Leaves, NEW txg \in Nat, NEW k \in Labels,
           label[v][k].txg <= txg,
           \A l \in Labels : \/ label[v][l] = label[v][k]
                             \/ label[v][l].txg > txg \/ label[v][l].txg < label[v][k].txg
    PROVE  ReadConfig(v, txg) = label[v][k]
<1> DEFINE c == label[v][k]
           ok == {x \in {label[v][l] : l \in Labels} : x.txg <= txg}
           S == {j \in Labels : label[v][j] \in ok /\ \A x \in ok : x.txg <= label[v][j].txg}
<1>1. c \in ok /\ c.txg \in Nat
  BY Zenon, LabelEntry
<1>2. ASSUME NEW x \in ok PROVE x = c \/ x.txg < c.txg
  <2>1. PICK l \in Labels : x = label[v][l]
    BY Zenon
  <2>2. x.txg <= txg /\ x.txg \in Nat
    BY Zenon, <2>1, LabelEntry
  <2>3. ~(x.txg > txg)
    BY SMT, <2>2
  <2> QED
    BY Zenon, <2>1, <2>3
<1>3. ASSUME NEW x \in ok PROVE x.txg \in Nat
  BY Zenon, LabelEntry
<1> HIDE DEF c
<1>4. k \in S
  <2>1. ASSUME NEW x \in ok PROVE x.txg <= c.txg
    BY SMT, <1>1, <1>2, <1>3
  <2> QED
    BY Zenon, <1>1, <2>1 DEF c
<1>5. ASSUME NEW j \in S PROVE label[v][j] = c
  <2>1. label[v][j] \in ok /\ c.txg <= label[v][j].txg
    BY Zenon, <1>1
  <2>2. ~(label[v][j].txg < c.txg)
    <3>1. label[v][j].txg \in Nat
      BY Zenon, <1>3, <2>1
    <3> QED
      BY SMT, <1>1, <2>1, <3>1
  <2> QED
    BY Zenon, <1>2, <2>1, <2>2
<1>6. Min(S) \in S
  <2>1. S \in SUBSET Nat
    BY Zenon, LabelNumbers
  <2> HIDE DEF S
  <2>2. \E x \in S : \A y \in S : x <= y
    BY Zenon, <1>4, <2>1, LeastExists
  <2> QED
    BY Zenon, <2>2 DEF Min
<1>7. ok # {}
  BY Zenon, <1>1
<1>8. ReadConfig(v, txg) = label[v][Min(S)]
  BY Zenon, <1>7 DEF ReadConfig
<1> QED
  BY Zenon, <1>5, <1>6, <1>8 DEF c

(* What the invariant says of an open.                                     *)
LEMMA OpenReadsCfg ==
    ASSUME DataInv, Base, Config, spa.pc = "load", NEW v \in Leaves
    PROVE  ReadConfig(v, BestUberblock.txg) =
               IF BestUberblock = spa.ub /\ Top[v] \in spa.dirty THEN spa.ub ELSE hist.cfg[Top[v]]
<1>i. TypeInv /\ Smooth /\ CfgInv /\ CopyInv
  BY Zenon DEF DataInv, Config
<1>b. /\ hist.base \in Ub /\ spa.ub \in Ub /\ hist.base.txg \in Nat /\ spa.ub.txg \in Nat
  BY Zenon, <1>i, Bounded
<1>1. PICK best : best = BestUberblock
  OBVIOUS
<1>2. /\ NoneNewer(hist.base)
      /\ (spa.ub = hist.base \/ hist.base.txg < spa.ub.txg)
  BY Zenon DEF Base
<1>3. PICK vb \in present, lb \in Labels, nb \in RingSlots : best = ring[vb][lb][nb]
  BY Zenon, <1>1, BestExists
<1>4. present \subseteq Leaves /\ \A t \in Tops : \E w \in present : Top[w] = t
  BY Zenon, <1>i DEF TypeInv, Smooth
<1>5. best \in Ub
  BY Zenon, <1>1, BestExists
<1>6. best = spa.ub \/ ~Newer(best, hist.base)
  BY Zenon, <1>2, <1>3, <1>4 DEF NoneNewer
<1>7. ASSUME NEW u \in Ub, Mirrored(u) PROVE ~Newer(u, best)
  <2>1. PICK t \in Tops : \A w \in Leaves : Top[w] = t => \E l \in Labels : ring[w][l][Slot(u)] = u
    BY Zenon, <1>7 DEF Mirrored
  <2>2. PICK w \in present : Top[w] = t
    BY Zenon, <1>4
  <2>3. PICK l \in Labels : ring[w][l][Slot(u)] = u
    BY Zenon, <1>4, <2>1, <2>2
  <2>4. Slot(u) \in RingSlots
    <3>1. u.txg \in Nat
      BY Zenon, <1>i, Bounded
    <3> QED
      BY Zenon, <3>1, DivMod, PoolAssumption DEF Slot, RingSlots
  <2>5. ~Newer(ring[w][l][Slot(u)], BestUberblock)
    BY Zenon, <2>4, BestExists
  <2> QED
    BY Zenon, <1>1, <2>3, <2>5
<1>8. Mirrored(hist.base) /\ ~Newer(hist.base, best)
  BY Zenon, <1>7, <1>b, <1>i DEF CopyInv
<1>9. best \in {hist.base, spa.ub}
  BY Zenon, <1>5, <1>b, <1>6, <1>8, NewerFacts
<1>10. /\ Cfg(v) = hist.cfg[Top[v]] /\ (Dirty(v) <=> Top[v] \in spa.dirty)
       /\ 0 < Cfg(v).txg /\ Cfg(v).txg <= hist.base.txg
       /\ \A l \in Labels : label[v][l] = Cfg(v) \/ (Dirty(v) /\ label[v][l] \in {None, spa.ub})
  BY Zenon, <1>i DEF CfgInv, Cfg, Dirty
<1>11. None.txg = 0
  BY Zenon DEF None
<1>12. Cfg(v).txg \in Nat
  <2>1. Top[v] \in Tops
    BY Zenon DEF Tops
  <2>2. hist.cfg \in [Tops -> Ub]
    BY Zenon, <1>i DEF TypeInv, HistType
  <2>3. Cfg(v) \in Ub
    BY Zenon, <2>1, <2>2 DEF Cfg
  <2> QED
    BY Zenon, <2>3, <1>i, Bounded
<1>13. CASE ~Dirty(v)
  <2>1. label[v][0] = Cfg(v) /\ \A l \in Labels : label[v][l] = label[v][0]
    BY Zenon, <1>13, <1>10, LabelNumbers
  <2>2. Cfg(v).txg <= best.txg /\ best.txg \in Nat
    <3>1. hist.base.txg <= best.txg
      <4>1. hist.base.txg <= hist.base.txg /\ (hist.base.txg < spa.ub.txg => hist.base.txg <= spa.ub.txg)
        BY SMT, <1>b
      <4> QED
        BY Zenon, <1>9, <1>2, <4>1
    <3>2. best.txg \in Nat
      BY Zenon, <1>b, <1>9
    <3> QED
      BY SMT, <3>1, <3>2, <1>b, <1>10, <1>12
  <2>3. ReadConfig(v, best.txg) = label[v][0]
    BY Zenon, <1>i, <2>1, <2>2, LabelNumbers, ReadConfigIs
  <2> QED
    BY Zenon, <1>1, <1>10, <1>13, <2>1, <2>3
<1>14. CASE Dirty(v)
  <2>1. spa.ub # hist.base /\ hist.base.txg < spa.ub.txg
    BY Zenon, <1>14, <1>2, <1>10, <1>i DEF Smooth
  <2>2. CASE best = spa.ub
    <3>1. EvenNew
      <4>1. ~Absent(spa.ub)
        <5>1. ring[vb][lb][nb] = spa.ub /\ vb \in Leaves
          BY Zenon, <2>2, <1>3, <1>4
        <5> QED
          BY Zenon, <5>1 DEF Absent
      <4> QED
        BY Zenon, <4>1, <1>i DEF CfgInv
    <3>2. label[v][0] = spa.ub
      <4>1. 0 % 2 = 0
        BY SMT
      <4> QED
        BY Zenon, <3>1, <1>14, <4>1, LabelNumbers DEF EvenNew
    <3>3. /\ spa.ub.txg <= spa.ub.txg /\ Cfg(v).txg < spa.ub.txg /\ 0 < spa.ub.txg
      BY SMT, <1>b, <1>12, <1>10, <2>1
    <3>4. ASSUME NEW l \in Labels
          PROVE  label[v][l] = label[v][0] \/ label[v][l].txg < label[v][0].txg
      BY Zenon, <1>10, <1>11, <3>2, <3>3
    <3>5. ReadConfig(v, spa.ub.txg) = label[v][0]
      BY Zenon, <1>i, <1>b, <3>2, <3>3, <3>4, LabelNumbers, ReadConfigIs
    <3> QED
      BY Zenon, <1>1, <1>10, <1>14, <2>2, <3>2, <3>5
  <2>3. CASE best # spa.ub
    <3>1. best = hist.base
      BY Zenon, <1>9, <2>3
    <3>2. ~Mirrored(spa.ub)
      <4>1. Newer(spa.ub, hist.base)
        BY SMT, <1>b, <2>1 DEF Newer
      <4> QED
        BY Zenon, <4>1, <3>1, <1>7, <1>b
    <3>3. OddOld
      BY Zenon, <3>2, <1>i DEF CfgInv
    <3>4. label[v][1] = Cfg(v)
      <4>1. 1 % 2 = 1
        BY SMT
      <4> QED
        BY Zenon, <3>3, <4>1, LabelNumbers DEF OddOld
    <3>5. spa.ub.txg > hist.base.txg
      BY SMT, <1>b, <2>1
    <3>6. ASSUME NEW l \in Labels
          PROVE  \/ label[v][l] = label[v][1]
                 \/ label[v][l].txg > hist.base.txg \/ label[v][l].txg < label[v][1].txg
      BY Zenon, <1>10, <1>11, <3>4, <3>5
    <3>7. ReadConfig(v, hist.base.txg) = label[v][1]
      BY Zenon, <1>i, <1>b, <1>10, <3>4, <3>6, LabelNumbers, ReadConfigIs
    <3> QED
      BY Zenon, <1>1, <1>10, <2>3, <3>1, <3>4, <3>7
  <2> QED
    BY Zenon, <2>2, <2>3
<1> QED
  BY Zenon, <1>13, <1>14

-----------------------------------------------------------------------------
(* FirstInv is inductive.                                                  *)

LEMMA SameConfig ==
    ASSUME label' = label, ring' = ring, hist' = hist, pool' = pool,
           spa'.dirty = spa.dirty, spa'.ub = spa.ub
    PROVE  /\ \A v : Cfg(v)' = Cfg(v) /\ (Dirty(v)' <=> Dirty(v))
           /\ (EvenNew => EvenNew') /\ (EvenOld => EvenOld') /\ (OddOld => OddOld')
           /\ Mirrored(spa.ub) => Mirrored(spa.ub)'
           /\ Mirrored(hist.base) => Mirrored(hist.base)'
           /\ Absent(spa.ub) => Absent(spa.ub)'
<1>1. \A v : Cfg(v)' = Cfg(v) /\ (Dirty(v)' <=> Dirty(v))
  BY Zenon DEF Cfg, Dirty, Top
<1>2. EvenNew => EvenNew'
  BY Zenon, <1>1 DEF EvenNew
<1>3. EvenOld => EvenOld'
  BY Zenon, <1>1 DEF EvenOld
<1>4. OddOld => OddOld'
  BY Zenon, <1>1 DEF OddOld
<1>5. Tops' = Tops /\ Top' = Top
  BY Zenon DEF Tops, Top
<1>6. Mirrored(spa.ub) => Mirrored(spa.ub)'
  <2> SUFFICES ASSUME Mirrored(spa.ub) PROVE Mirrored(spa.ub)'
    OBVIOUS
  <2>1. PICK t \in Tops : \A v \in Leaves :
           Top[v] = t => \E l \in Labels : ring[v][l][Slot(spa.ub)] = spa.ub
    BY Zenon DEF Mirrored
  <2>2. \A v \in Leaves : Top'[v] = t => \E l \in Labels : ring'[v][l][Slot(spa'.ub)] = spa'.ub
    BY Zenon, <1>5, <2>1
  <2> QED
    BY Zenon, <1>5, <2>2 DEF Mirrored
<1>7. Mirrored(hist.base) => Mirrored(hist.base)'
  BY Zenon, <1>5 DEF Mirrored
<1>8. Absent(spa.ub) => Absent(spa.ub)'
  BY Zenon DEF Absent
<1> QED
  BY Zenon, <1>1, <1>2, <1>3, <1>4, <1>6, <1>7, <1>8

(* A step that changes neither labels nor rings.                           *)
LEMMA QuietConfig ==
    ASSUME CfgInv, CopyInv, label' = label, ring' = ring, hist' = hist, pool' = pool,
           spa'.dirty = spa.dirty, spa'.ub = spa.ub,
           \/ spa'.pc = spa.pc
           \/ spa.pc = "data" /\ spa'.pc = "even"
           \/ spa.pc = "even" /\ spa'.pc = "evenflush"
           \/ spa.pc = "ub" /\ spa'.pc = "ubflush"
           \/ spa.pc = "odd" /\ spa'.pc = "oddflush"
           \/ spa.pc = "down" /\ spa'.pc = "load"
    PROVE  CfgInv' /\ CopyInv'
<1>1. /\ \A v : Cfg(v)' = Cfg(v) /\ (Dirty(v)' <=> Dirty(v))
      /\ (EvenNew => EvenNew') /\ (EvenOld => EvenOld') /\ (OddOld => OddOld')
      /\ Mirrored(spa.ub) => Mirrored(spa.ub)'
      /\ Mirrored(hist.base) => Mirrored(hist.base)'
      /\ Absent(spa.ub) => Absent(spa.ub)'
  BY Zenon, SameConfig
<1>2. CopyInv'
  BY Zenon, <1>1 DEF CopyInv
<1>3. /\ spa'.pc \in {"idle", "data", "even", "evenflush"} => (EvenOld /\ OddOld)'
      /\ spa'.pc \in {"ub", "ubflush", "odd", "oddflush"} => (EvenNew /\ OddOld)'
  BY Zenon, <1>1 DEF CfgInv
<1>4. spa'.pc \in {"down", "load"} =>
         ((Absent(spa.ub) \/ EvenNew) /\ (OddOld \/ Mirrored(spa.ub)))'
  BY Zenon, <1>1 DEF CfgInv
<1>5. /\ \A v \in Leaves : (0 < Cfg(v).txg /\ Cfg(v).txg <= hist.base.txg)'
      /\ \A v \in Leaves, l \in Labels :
           (label[v][l] = Cfg(v) \/ (Dirty(v) /\ label[v][l] \in {None, spa.ub}))'
  BY Zenon, <1>1 DEF CfgInv
<1> QED
  BY Zenon, <1>2, <1>3, <1>4, <1>5 DEF CfgInv

LEMMA FirstBack ==
    ASSUME TypeInv, SyncInv, TypeInv', budget.werr <= pool.werr, [Next]_vars, First'
    PROVE  First /\ ~Load
<1>1. pool' = pool
  BY Zenon, PoolConstant
<1>2. budget'.werr <= budget.werr /\ budget.werr \in Nat /\ pool.werr \in Nat
  BY Zenon, BudgetStep DEF TypeInv, ScenarioType
<1>3. budget'.werr = pool.werr /\ spa'.boot = 1
  BY Zenon, <1>1 DEF First
<1>4. budget.werr = pool.werr
  BY SMT, <1>2, <1>3
<1>5. ~Load
  <2> SUFFICES ASSUME Load PROVE FALSE
    OBVIOUS
  <2>1. spa'.boot = spa.boot + 1 /\ spa.boot \in Nat /\ spa.boot > 0
    BY Zenon, LoadFacts, Bounded DEF SyncInv
  <2> QED
    BY SMT, <1>3, <2>1
<1>6. spa'.boot = spa.boot
  <2>1. spa \in SpaType
    BY Zenon DEF TypeInv
  <2>2. CASE SyncTxg \/ NoopTxg
    BY Zenon, <2>1, <2>2 DEF SpaType, SyncTxg, NoopTxg
  <2>3. CASE DataPhase \/ Crash \/ Open
    BY Zenon, <2>1, <2>3 DEF SpaType, DataPhase, Crash, Open, Goto
  <2>4. CASE EvenLabels \/ Uberblocks \/ OddLabels
    BY Zenon, <2>1, <2>4 DEF SpaType, EvenLabels, Uberblocks, OddLabels, Issue
  <2>5. CASE FlushPhase
    BY Zenon, <2>5, FlushFacts
  <2>6. CASE Resume
    BY Zenon, <2>1, <2>6 DEF SpaType, Resume, CallAgain
  <2>7. CASE Online \/ UNCHANGED vars
    BY Zenon, <2>7 DEF Online, vars
  <2> QED
    BY Zenon, <1>5, <2>2, <2>3, <2>4, <2>5, <2>6, <2>7 DEF Next, ConfigSync
<1> QED
  BY Zenon, <1>3, <1>4, <1>5, <1>6 DEF First

LEMMA SyncVdevsSome ==
    ASSUME NEW dirty, NEW svd \in SyncVdevs(dirty)
    PROVE  svd # {} /\ svd \in SUBSET Tops
<1>1. IsFiniteSet(Tops) /\ Tops # {}
  <2>1. Tops = {Top[v] : v \in Leaves} /\ Tops # {}
    BY Zenon, PoolAssumption DEF Tops
  <2>2. IsFiniteSet(Tops)
    <3> DEFINE f == [v \in Leaves |-> Top[v]]
    <3>1. f \in Surjection(Leaves, Tops)
      BY Zenon, <2>1 DEF Surjection
    <3> QED
      BY Zenon, <3>1, PoolAssumption, FS_Surjection
  <2> QED
    BY Zenon, <2>1, <2>2
<1>2. Cardinality(Tops) \in Nat /\ Cardinality(Tops) # 0
  BY Zenon, <1>1, FS_EmptySet, FS_CardinalityType
<1>3. Min({Cardinality(Tops), SPA_DVAS_PER_BP}) # 0
  <2> DEFINE S == {Cardinality(Tops), SPA_DVAS_PER_BP}
  <2>1. S \in SUBSET Nat /\ S # {} /\ 0 \notin S
    BY Zenon, <1>2, PoolAssumption
  <2> HIDE DEF S
  <2>2. Min(S) \in S
    BY Zenon, <2>1, LeastExists DEF Min
  <2> QED
    BY Zenon, <2>1, <2>2 DEF S
<1>4. Cardinality({}) = 0
  BY Zenon, FS_EmptySet
<1> QED
  BY Zenon, <1>1, <1>3, <1>4 DEF SyncVdevs

(* If no write fails, all are issued.                                      *)
LEMMA IssueAll ==
    ASSUME TypeInv, First, First', NEW pc, NEW writes \in SUBSET (Leaves \X Labels),
           Issue(writes, pc)
    PROVE  /\ cache' = writes /\ label' = label /\ ring' = ring /\ hist' = hist
           /\ present' = present /\ pool' = pool
           /\ spa'.pc = pc /\ spa'.dirty = spa.dirty /\ spa'.svd = spa.svd /\ spa'.ub = spa.ub
           /\ spa'.error = IF spa.pc = "ub" THEN NoUberblock(writes) ELSE NoLabel(writes)
<1>1. PICK failed \in SUBSET writes :
          /\ Spend("werr", Cardinality(failed))
          /\ cache' = writes \ failed
          /\ spa' = [spa EXCEPT !.pc = pc,
                       !.error = IF At("ub") THEN NoUberblock(writes \ failed)
                                 ELSE NoLabel(writes \ failed)]
          /\ UNCHANGED <<label, ring, data, present, hist>>
  BY Zenon DEF Issue
<1>2. IsFiniteSet(failed) /\ Cardinality(failed) \in Nat
  BY Zenon, WritesFinite
<1>3. pool' = pool /\ budget' = [budget EXCEPT !.werr = budget.werr - Cardinality(failed)]
  BY Zenon, <1>1 DEF Spend
<1>4. budget'.werr = budget.werr - Cardinality(failed) /\ budget.werr \in Nat
  BY Zenon, <1>3 DEF TypeInv, ScenarioType
<1>5. budget'.werr = budget.werr
  BY Zenon, <1>3 DEF First
<1>6. Cardinality(failed) = 0
  BY SMT, <1>2, <1>4, <1>5
<1>7. failed = {}
  BY Zenon, <1>2, <1>6, FS_EmptySet
<1>8. writes \ failed = writes
  BY Zenon, <1>7
<1>9. /\ cache' = writes
      /\ spa' = [spa EXCEPT !.pc = pc,
                   !.error = IF At("ub") THEN NoUberblock(writes) ELSE NoLabel(writes)]
  BY Zenon, <1>1, <1>8
<1>10. /\ spa'.pc = pc /\ spa'.dirty = spa.dirty /\ spa'.svd = spa.svd /\ spa'.ub = spa.ub
       /\ spa'.error = IF spa.pc = "ub" THEN NoUberblock(writes) ELSE NoLabel(writes)
  BY Zenon, <1>9 DEF TypeInv, SpaType, At
<1> QED
  BY Zenon, <1>1, <1>3, <1>9, <1>10

LEMMA SomeLeaf == ASSUME NEW t \in Tops PROVE \E v \in Leaves : Top[v] = t
BY Zenon DEF Tops

LEMMA UberblocksConfig ==
    ASSUME TypeInv, First, First', Config, Uberblocks PROVE Config'
<1>i. Smooth /\ CfgInv /\ CopyInv
  BY Zenon DEF Config
<1>0. spa.pc = "ub" /\ Issue(Under(spa.svd) \X Labels, "ubflush")
      /\ Under(spa.svd) \X Labels \in SUBSET (Leaves \X Labels)
  BY Zenon, WritesType DEF Uberblocks, At
<1>1. /\ cache' = Under(spa.svd) \X Labels /\ label' = label /\ ring' = ring /\ hist' = hist
      /\ present' = present /\ pool' = pool
      /\ spa'.pc = "ubflush" /\ spa'.dirty = spa.dirty /\ spa'.svd = spa.svd /\ spa'.ub = spa.ub
      /\ spa'.error = IF spa.pc = "ub" THEN NoUberblock(Under(spa.svd) \X Labels)
                      ELSE NoLabel(Under(spa.svd) \X Labels)
  BY Zenon, <1>0, IssueAll
<1>2. present = Leaves /\ spa.svd # {} /\ spa.svd \in SUBSET Tops
  BY Zenon, <1>0, <1>i DEF Smooth, Syncing, TypeInv, SpaType
<1>3. Under(spa.svd) \X Labels # {}
  <2>1. PICK t : t \in spa.svd
    BY Zenon, <1>2
  <2>2. PICK v \in Leaves : Top[v] = t
    BY Zenon, <1>2, <2>1, SomeLeaf
  <2>3. v \in Under(spa.svd)
    BY Zenon, <1>2, <2>1, <2>2 DEF Under
  <2>4. <<v, 0>> \in Under(spa.svd) \X Labels
    BY Zenon, <2>3, LabelNumbers
  <2> QED
    BY Zenon, <2>4
<1>4. ~spa'.error
  <2>1. spa'.error = NoUberblock(Under(spa.svd) \X Labels)
    BY Zenon, <1>0, <1>1
  <2>2. ~NoUberblock(Under(spa.svd) \X Labels)
    BY Zenon, <1>3 DEF NoUberblock
  <2> QED
    BY Zenon, <2>1, <2>2
<1>5. CfgInv' /\ CopyInv'
  BY Zenon, <1>i, <1>0, <1>1, QuietConfig
<1>6. (Under(spa.svd) \X Labels)' = Under(spa.svd) \X Labels
  BY Zenon, <1>1 DEF Under, Top
<1>7. Smooth'
  BY Zenon, <1>i, <1>0, <1>1, <1>2, <1>4, <1>6 DEF Smooth
<1> QED
  BY Zenon, <1>5, <1>7 DEF Config

(* Each dirty top-level vdev has a leaf that takes the label.              *)
LEMMA LabelWritesCover ==
    ASSUME TypeInv, present = Leaves, NEW parity \in {0, 1}
    PROVE  ~NoLabel(LabelWrites(parity))
<1> SUFFICES ASSUME NoLabel(LabelWrites(parity)) PROVE FALSE
  OBVIOUS
<1>1. PICK t \in spa.dirty : \A w \in LabelWrites(parity) : Top[w[1]] # t
  BY Zenon DEF NoLabel
<1>2. t \in Tops
  BY Zenon DEF TypeInv, SpaType
<1>3. PICK v \in Leaves : Top[v] = t
  BY Zenon, <1>2, SomeLeaf
<1>4. parity \in Labels /\ parity % 2 = parity
  <2>1. 0 % 2 = 0 /\ 1 % 2 = 1
    BY SMT
  <2> QED
    BY Zenon, <2>1, LabelNumbers
<1>5. <<v, parity>> \in LabelWrites(parity)
  BY Zenon, <1>3, <1>4 DEF LabelWrites, Under
<1>6. <<v, parity>>[1] = v
  BY Zenon
<1>7. Top[<<v, parity>>[1]] # t
  BY Zenon, <1>1, <1>5
<1> QED
  BY Zenon, <1>3, <1>6, <1>7

LEMMA LabelsConfig ==
    ASSUME TypeInv, First, First', Config, EvenLabels \/ OddLabels PROVE Config'
<1>i. Smooth /\ CfgInv /\ CopyInv
  BY Zenon DEF Config
<1>0. PICK parity \in {0, 1}, pc \in {"evenflush", "oddflush"} :
         /\ Issue(LabelWrites(parity), pc)
         /\ parity = 0 => spa.pc = "even" /\ pc = "evenflush"
         /\ parity = 1 => spa.pc = "odd" /\ pc = "oddflush"
  <2>1. 0 # 1
    BY SMT
  <2> QED
    BY Zenon, <2>1 DEF EvenLabels, OddLabels, At
<1>w. LabelWrites(parity) \in SUBSET (Leaves \X Labels)
  BY Zenon, WritesType
<1>1. /\ cache' = LabelWrites(parity) /\ label' = label /\ ring' = ring /\ hist' = hist
      /\ present' = present /\ pool' = pool
      /\ spa'.pc = pc /\ spa'.dirty = spa.dirty /\ spa'.svd = spa.svd /\ spa'.ub = spa.ub
      /\ spa'.error = IF spa.pc = "ub" THEN NoUberblock(LabelWrites(parity))
                      ELSE NoLabel(LabelWrites(parity))
  BY Zenon, <1>0, <1>w, IssueAll
<1>2. present = Leaves /\ spa.svd # {}
  BY Zenon, <1>0, <1>i DEF Smooth, Syncing
<1>4. ~spa'.error
  <2>1. spa'.error = NoLabel(LabelWrites(parity))
    BY Zenon, <1>0, <1>1
  <2>2. ~NoLabel(LabelWrites(parity))
    BY Zenon, <1>2, LabelWritesCover
  <2> QED
    BY Zenon, <2>1, <2>2
<1>5. CfgInv' /\ CopyInv'
  BY Zenon, <1>i, <1>0, <1>1, QuietConfig
<1>6. LabelWrites(0)' = LabelWrites(0) /\ LabelWrites(1)' = LabelWrites(1)
  BY Zenon, <1>1 DEF LabelWrites, Under, Top
<1>7. Smooth'
  BY Zenon, <1>i, <1>0, <1>1, <1>2, <1>4, <1>6 DEF Smooth
<1> QED
  BY Zenon, <1>5, <1>7 DEF Config

LEMMA DataPhaseConfig ==
    ASSUME TypeInv, Config, DataPhase PROVE Config'
<1>i. Smooth /\ CfgInv /\ CopyInv
  BY Zenon DEF Config
<1>1. /\ spa.pc = "data" /\ spa' = [spa EXCEPT !.pc = "even"] /\ label' = label /\ ring' = ring
      /\ cache' = cache /\ present' = present /\ hist' = hist /\ pool' = pool
  BY Zenon DEF DataPhase, Goto, At, bounds
<1>2. /\ spa'.pc = "even" /\ spa'.dirty = spa.dirty /\ spa'.svd = spa.svd /\ spa'.ub = spa.ub
      /\ spa'.error = spa.error
  BY Zenon, <1>1 DEF TypeInv, SpaType
<1>3. CfgInv' /\ CopyInv'
  BY Zenon, <1>i, <1>1, <1>2, QuietConfig
<1>4. Smooth'
  BY Zenon, <1>i, <1>1, <1>2 DEF Smooth, Syncing
<1> QED
  BY Zenon, <1>3, <1>4 DEF Config

LEMMA NoopTxgConfig ==
    ASSUME TypeInv, Config, NoopTxg PROVE Config'
<1>i. Smooth /\ CfgInv /\ CopyInv
  BY Zenon DEF Config
<1>1. /\ spa.pc = "idle" /\ spa' = [spa EXCEPT !.txg = spa.txg + 1] /\ label' = label
      /\ ring' = ring /\ cache' = cache /\ present' = present /\ hist' = hist /\ pool' = pool
  BY Zenon DEF NoopTxg, At, disk, Spend
<1>2. /\ spa'.pc = spa.pc /\ spa'.dirty = spa.dirty /\ spa'.svd = spa.svd /\ spa'.ub = spa.ub
      /\ spa'.error = spa.error
  BY Zenon, <1>1 DEF TypeInv, SpaType
<1>3. CfgInv' /\ CopyInv'
  BY Zenon, <1>i, <1>1, <1>2, QuietConfig
<1>4. Smooth'
  BY Zenon, <1>i, <1>1, <1>2 DEF Smooth, Syncing, Flushing
<1> QED
  BY Zenon, <1>3, <1>4 DEF Config

LEMMA OpenConfig ==
    ASSUME TypeInv, Config, Open PROVE Config'
<1>i. Smooth /\ CfgInv /\ CopyInv
  BY Zenon DEF Config
<1>0. PICK here \in SUBSET Leaves :
          /\ \A t \in Tops : \E v \in here : Top[v] = t
          /\ Spend("missing", Cardinality(Leaves \ here))
          /\ present' = here
  BY Zenon DEF Open
<1>1. /\ spa.pc = "down" /\ spa' = [spa EXCEPT !.pc = "load"] /\ label' = label
      /\ ring' = ring /\ cache' = cache /\ hist' = hist /\ pool' = pool
  BY Zenon, <1>0 DEF Open, At, Goto, disk, Spend
<1>2. /\ spa'.pc = "load" /\ spa'.dirty = spa.dirty /\ spa'.svd = spa.svd /\ spa'.ub = spa.ub
      /\ spa'.error = spa.error
  BY Zenon, <1>1 DEF TypeInv, SpaType
<1>3. CfgInv' /\ CopyInv'
  BY Zenon, <1>i, <1>1, <1>2, QuietConfig
<1>4. \A t \in Tops' : \E v \in present' : Top'[v] = t
  <2>1. Tops' = Tops /\ Top' = Top
    BY Zenon, <1>1 DEF Tops, Top
  <2> QED
    BY Zenon, <1>0, <2>1
<1>5. Smooth'
  BY Zenon, <1>i, <1>1, <1>2, <1>4 DEF Smooth, Syncing, Flushing
<1> QED
  BY Zenon, <1>3, <1>5 DEF Config

LEMMA StutterConfig ==
    ASSUME Config, UNCHANGED vars PROVE Config'
<1>i. Smooth /\ CfgInv /\ CopyInv
  BY Zenon DEF Config
<1>1. /\ spa' = spa /\ label' = label /\ ring' = ring /\ cache' = cache /\ hist' = hist
      /\ present' = present /\ pool' = pool
  BY Zenon DEF vars, disk, bounds
<1>2. CfgInv' /\ CopyInv'
  BY Zenon, <1>i, <1>1, QuietConfig
<1>3. /\ LabelWrites(0)' = LabelWrites(0) /\ LabelWrites(1)' = LabelWrites(1)
      /\ (Under(spa.svd) \X Labels)' = Under(spa.svd) \X Labels
      /\ Tops' = Tops /\ Top' = Top
  BY Zenon, <1>1 DEF LabelWrites, Under, Top, Tops
<1>4. Smooth'
  BY Zenon, <1>i, <1>1, <1>3 DEF Smooth
<1> QED
  BY Zenon, <1>2, <1>4 DEF Config

LEMMA SyncTxgConfig ==
    ASSUME TypeInv, SyncInv, RingInv, Base, Config, SyncTxg PROVE Config'
<1>i. Smooth /\ CfgInv /\ CopyInv
  BY Zenon DEF Config
<1>0. PICK dirty \in SUBSET Tops : \E svd \in SyncVdevs(dirty) :
          spa' = [spa EXCEPT !.pc = "data", !.txg = spa.txg + 1, !.dirty = dirty, !.svd = svd,
                    !.ub = [txg |-> spa.txg + 1, ts |-> spa.boot],
                    !.tryhard = FALSE, !.error = FALSE]
  BY Zenon DEF SyncTxg
<1>s. PICK svd \in SyncVdevs(dirty) :
          spa' = [spa EXCEPT !.pc = "data", !.txg = spa.txg + 1, !.dirty = dirty, !.svd = svd,
                    !.ub = [txg |-> spa.txg + 1, ts |-> spa.boot],
                    !.tryhard = FALSE, !.error = FALSE]
  BY Zenon, <1>0
<1>1. /\ spa.pc = "idle" /\ label' = label /\ ring' = ring /\ cache' = cache
      /\ present' = present /\ hist' = hist /\ pool' = pool
  BY Zenon DEF SyncTxg, At, bounds
<1>2. /\ spa'.pc = "data" /\ spa'.dirty = dirty /\ spa'.svd = svd
      /\ spa'.ub = [txg |-> spa.txg + 1, ts |-> spa.boot] /\ ~spa'.error
  BY Zenon, <1>s DEF TypeInv, SpaType
<1>3. /\ spa'.ub.txg = spa.txg + 1 /\ spa'.ub.ts = spa.boot
  <2>1. [txg |-> spa.txg + 1, ts |-> spa.boot].txg = spa.txg + 1
        /\ [txg |-> spa.txg + 1, ts |-> spa.boot].ts = spa.boot
    BY Zenon
  <2> QED
    BY Zenon, <1>2, <2>1
<1>b. spa.txg \in Nat /\ hist.base.txg \in Nat
  BY Zenon, Bounded
<1>4. svd # {}
  BY Zenon, SyncVdevsSome
<1>5. hist.base.txg <= spa.txg
  BY Zenon, <1>1 DEF Base
<1>6. spa'.ub # hist.base
  <2>1. spa.txg + 1 # hist.base.txg
    BY SMT, <1>b, <1>5
  <2> QED
    BY Zenon, <1>3, <2>1
<1>7. Absent(spa.ub)'
  <2>1. ASSUME NEW v \in Leaves, NEW l \in Labels, NEW n \in RingSlots
        PROVE  ring[v][l][n] # spa'.ub
    <3>1. PICK u : u = ring[v][l][n]
      OBVIOUS
    <3>2. u.ts = spa.boot => u.txg <= spa.txg
      BY Zenon, <3>1 DEF RingInv, Sound
    <3>3. ~(spa.txg + 1 <= spa.txg)
      BY SMT, <1>b
    <3> QED
      BY Zenon, <1>3, <3>1, <3>2, <3>3
  <2> QED
    BY Zenon, <1>1, <2>1 DEF Absent
<1>8. Mirrored(hist.base)'
  <2>1. Tops' = Tops /\ Top' = Top
    BY Zenon, <1>1 DEF Tops, Top
  <2>2. Mirrored(hist.base)
    BY Zenon, <1>i DEF CopyInv
  <2> QED
    BY Zenon, <1>1, <2>1, <2>2 DEF Mirrored
<1>9. \A v : Cfg(v)' = Cfg(v)
  BY Zenon, <1>1 DEF Cfg, Top
<1>10. EvenOld /\ OddOld
  BY Zenon, <1>i, <1>1 DEF CfgInv
<1>11. EvenOld' /\ OddOld'
  BY Zenon, <1>1, <1>9, <1>10 DEF EvenOld, OddOld
<1>12. \A v \in Leaves, l \in Labels : label'[v][l] = Cfg(v)'
  <2> SUFFICES ASSUME NEW v \in Leaves, NEW l \in Labels PROVE label[v][l] = Cfg(v)
    BY Zenon, <1>1, <1>9
  <2>1. l % 2 = 0 \/ l % 2 = 1
    BY Zenon, LabelNumbers
  <2> QED
    BY Zenon, <1>10, <2>1 DEF EvenOld, OddOld
<1>13. \A v \in Leaves : (0 < Cfg(v).txg /\ Cfg(v).txg <= hist.base.txg)'
  BY Zenon, <1>i, <1>1, <1>9 DEF CfgInv
<1>14. CfgInv' /\ CopyInv'
  BY Zenon, <1>2, <1>7, <1>8, <1>11, <1>12, <1>13 DEF CfgInv, CopyInv
<1>15. Smooth'
  BY Zenon, <1>i, <1>1, <1>2, <1>4, <1>6 DEF Smooth
<1> QED
  BY Zenon, <1>14, <1>15 DEF Config

(* The rings after some of the writes of a phase have reached the platter. *)
LEMMA RingsCopy ==
    ASSUME TypeInv, Base, Smooth, spa.pc \notin {"down", "load"}, pool' = pool,
           NEW kept, NEW torn, kept \cap torn = {}, ring' = PlatterRings(kept, torn)
    PROVE  /\ Mirrored(hist.base) => \A u : u = hist.base => Mirrored(u)'
           /\ spa.pc # "ubflush" /\ Mirrored(spa.ub) => \A u : u = spa.ub => Mirrored(u)'
           /\ spa.pc # "ubflush" /\ Absent(spa.ub) => \A u : u = spa.ub => Absent(u)'
           /\ spa.pc = "ubflush" /\ kept = Under(spa.svd) \X Labels
                => \A u : u = spa.ub => Mirrored(u)'
<1>b. /\ hist.base \in Ub /\ spa.ub \in Ub /\ hist.base.txg \in Nat /\ spa.ub.txg \in Nat
  BY Zenon, Bounded
<1>1. Slot(hist.base) \in RingSlots /\ Slot(spa.ub) \in RingSlots
  BY Zenon, <1>b, DivMod, PoolAssumption DEF Slot, RingSlots
<1>2. \A v \in Leaves, l \in Labels, n \in RingSlots :
         Written(<<v, l>>, n, ring[v][l][n], ring'[v][l][n], kept, torn)
  BY Zenon, PlatterEntry
<1>3. spa.pc = "ubflush" => Slot(hist.base) # Slot(spa.ub)
  <2> SUFFICES ASSUME spa.pc = "ubflush" PROVE Slot(hist.base) # Slot(spa.ub)
    OBVIOUS
  <2>1. hist.base.txg < spa.ub.txg /\ spa.ub.txg < hist.base.txg + VDEV_UBERBLOCK_COUNT
    BY Zenon DEF Base, Syncing, Flushing
  <2> QED
    BY Zenon, <1>b, <2>1, SlotsDiffer, PoolAssumption DEF Slot
<1>4. Tops' = Tops /\ Top' = Top
  BY Zenon DEF Tops, Top
<1>5. ASSUME NEW ub, Slot(ub) \in RingSlots, spa.pc = "ubflush" => Slot(ub) # Slot(spa.ub),
             Mirrored(ub)
      PROVE  Mirrored(ub)'
  <2>1. PICK t \in Tops : \A v \in Leaves : Top[v] = t => \E l \in Labels : ring[v][l][Slot(ub)] = ub
    BY Zenon, <1>5 DEF Mirrored
  <2>2. ASSUME NEW v \in Leaves, Top[v] = t PROVE \E l \in Labels : ring'[v][l][Slot(ub)] = ub
    <3>1. PICK l \in Labels : ring[v][l][Slot(ub)] = ub
      BY Zenon, <2>1, <2>2
    <3>2. Written(<<v, l>>, Slot(ub), ring[v][l][Slot(ub)], ring'[v][l][Slot(ub)], kept, torn)
      BY Zenon, <1>2, <1>5
    <3>3. ring'[v][l][Slot(ub)] = ring[v][l][Slot(ub)]
      BY Zenon, <1>5, <3>2 DEF Written
    <3> QED
      BY Zenon, <3>1, <3>3
  <2> QED
    BY Zenon, <1>4, <2>2 DEF Mirrored
<1>6. ASSUME spa.pc # "ubflush", Absent(spa.ub), NEW u, u = spa.ub PROVE Absent(u)'
  <2>1. ASSUME NEW v \in Leaves, NEW l \in Labels, NEW n \in RingSlots
        PROVE  ring'[v][l][n] # u
    <3>1. Written(<<v, l>>, n, ring[v][l][n], ring'[v][l][n], kept, torn)
      BY Zenon, <1>2
    <3>2. ring'[v][l][n] = ring[v][l][n]
      BY Zenon, <1>6, <3>1 DEF Written
    <3> QED
      BY Zenon, <1>6, <3>2 DEF Absent
  <2> QED
    BY Zenon, <2>1 DEF Absent
<1>7. ASSUME spa.pc = "ubflush", kept = Under(spa.svd) \X Labels, NEW u, u = spa.ub
      PROVE  Mirrored(u)'
  <2>1. spa.svd # {} /\ present = Leaves /\ spa.svd \in SUBSET Tops
    BY Zenon, <1>7 DEF Smooth, Syncing, Flushing, TypeInv, SpaType
  <2>2. PICK t \in Tops : t \in spa.svd
    BY Zenon, <2>1
  <2>3. ASSUME NEW v \in Leaves, Top[v] = t PROVE \E l \in Labels : ring'[v][l][Slot(u)] = u
    <3>1. <<v, 0>> \in kept /\ 0 \in Labels
      BY Zenon, <1>7, <2>1, <2>2, <2>3, LabelNumbers DEF Under
    <3>2. Written(<<v, 0>>, Slot(u), ring[v][0][Slot(u)], ring'[v][0][Slot(u)], kept, torn)
      BY Zenon, <1>1, <1>2, <1>7, <3>1
    <3>3. ring'[v][0][Slot(u)] = u
      BY Zenon, <1>7, <3>1, <3>2 DEF Written
    <3> QED
      BY Zenon, <3>1, <3>3
  <2> QED
    BY Zenon, <1>4, <2>3 DEF Mirrored
<1>8. ASSUME NEW u, u = hist.base, Mirrored(hist.base) PROVE Mirrored(u)'
  BY Zenon, <1>1, <1>3, <1>5, <1>8
<1>9. ASSUME spa.pc # "ubflush", NEW u, u = spa.ub, Mirrored(spa.ub) PROVE Mirrored(u)'
  BY Zenon, <1>1, <1>5, <1>9
<1> QED
  BY Zenon, <1>6, <1>7, <1>8, <1>9

Labelled(w, old, new, kept, torn) ==
    /\ \/ new = old
       \/ new = spa.ub /\ w \in kept
       \/ new = None /\ w \in torn
    /\ spa.pc \notin {"evenflush", "oddflush"} => new = old
    /\ spa.pc \in {"evenflush", "oddflush"} /\ w \in kept => new = spa.ub

LEMMA LabelLanded ==
    ASSUME TypeInv, NEW kept, NEW torn, kept \cap torn = {},
           NEW v \in Leaves, NEW l \in Labels
    PROVE  Labelled(<<v, l>>, label[v][l], PlatterLabels(kept, torn)[v][l], kept, torn)
<1>1. PICK old : old = label[v][l]
  OBVIOUS
<1>2. PICK new : new = PlatterLabels(kept, torn)[v][l]
  OBVIOUS
<1>3. PICK w : w = <<v, l>>
  BY Zenon
<1>4. new = IF spa.pc \in {"evenflush", "oddflush"} THEN Landed(w, old, kept, torn) ELSE old
  BY Zenon, <1>1, <1>2, <1>3 DEF PlatterLabels
<1>5. Labelled(w, old, new, kept, torn)
  <2>1. CASE spa.pc \notin {"evenflush", "oddflush"}
    BY Zenon, <1>4, <2>1 DEF Labelled
  <2>2. CASE spa.pc \in {"evenflush", "oddflush"} /\ w \in kept
    <3>1. Landed(w, old, kept, torn) = spa.ub
      BY Zenon, <2>2 DEF Landed
    <3> QED
      BY Zenon, <1>4, <2>2, <3>1 DEF Labelled
  <2>3. CASE spa.pc \in {"evenflush", "oddflush"} /\ w \notin kept /\ w \in torn
    <3>1. Landed(w, old, kept, torn) = None
      BY Zenon, <2>3 DEF Landed
    <3> QED
      BY Zenon, <1>4, <2>3, <3>1 DEF Labelled
  <2>4. CASE spa.pc \in {"evenflush", "oddflush"} /\ w \notin kept /\ w \notin torn
    <3>1. Landed(w, old, kept, torn) = old
      BY Zenon, <2>4 DEF Landed
    <3> QED
      BY Zenon, <1>4, <2>4, <3>1 DEF Labelled
  <2> QED
    BY Zenon, <2>1, <2>2, <2>3, <2>4
<1> QED
  BY Zenon, <1>1, <1>2, <1>3, <1>5

(* The labels after some of the writes of a phase have reached the         *)
(* platter.                                                                *)
LEMMA LabelStep ==
    ASSUME TypeInv, Smooth, NEW kept \in SUBSET cache, NEW torn \in SUBSET cache,
           kept \cap torn = {}, label' = PlatterLabels(kept, torn),
           NEW v \in Leaves, NEW l \in Labels
    PROVE  /\ \/ label'[v][l] = label[v][l]
              \/ Dirty(v) /\ label'[v][l] \in {None, spa.ub}
           /\ l % 2 = 1 /\ spa.pc # "oddflush" => label'[v][l] = label[v][l]
           /\ l % 2 = 0 /\ spa.pc # "evenflush" => label'[v][l] = label[v][l]
           /\ kept = cache /\ spa.pc = "evenflush" /\ l % 2 = 0 /\ Dirty(v) => label'[v][l] = spa.ub
           /\ kept = cache /\ spa.pc = "oddflush" /\ l % 2 = 1 /\ Dirty(v) => label'[v][l] = spa.ub
<1>1. PICK new : new = label'[v][l]
  OBVIOUS
<1>2. Labelled(<<v, l>>, label[v][l], new, kept, torn)
  <2>1. Labelled(<<v, l>>, label[v][l], PlatterLabels(kept, torn)[v][l], kept, torn)
    BY Zenon, LabelLanded
  <2> QED
    BY Zenon, <1>1, <2>1
<1>3. /\ spa.pc = "evenflush" =>
           (<<v, l>> \in cache => Dirty(v) /\ l % 2 = 0)
      /\ spa.pc = "oddflush" =>
           (<<v, l>> \in cache => Dirty(v) /\ l % 2 = 1)
  BY Zenon DEF Smooth, LabelWrites, Under, Dirty
<1>4. /\ spa.pc = "evenflush" => (Dirty(v) /\ l % 2 = 0 => <<v, l>> \in cache)
      /\ spa.pc = "oddflush" => (Dirty(v) /\ l % 2 = 1 => <<v, l>> \in cache)
  BY Zenon DEF Smooth, LabelWrites, Under, Dirty
<1>5. 0 # 1
  BY SMT
<1>6. new = label[v][l] \/ (Dirty(v) /\ new \in {None, spa.ub})
  BY Zenon, <1>2, <1>3 DEF Labelled
<1>7. /\ l % 2 = 1 /\ spa.pc # "oddflush" => new = label[v][l]
      /\ l % 2 = 0 /\ spa.pc # "evenflush" => new = label[v][l]
  BY Zenon, <1>2, <1>3, <1>5 DEF Labelled
<1>8. /\ kept = cache /\ spa.pc = "evenflush" /\ l % 2 = 0 /\ Dirty(v) => new = spa.ub
      /\ kept = cache /\ spa.pc = "oddflush" /\ l % 2 = 1 /\ Dirty(v) => new = spa.ub
  BY Zenon, <1>2, <1>4 DEF Labelled
<1> QED
  BY Zenon, <1>1, <1>6, <1>7, <1>8

LEMMA CrashConfig ==
    ASSUME TypeInv, Base, Config, Crash PROVE Config'
<1>i. Smooth /\ CfgInv /\ CopyInv
  BY Zenon DEF Config
<1>0. PICK kept \in SUBSET cache : \E torn \in SUBSET (cache \ kept) :
          label' = PlatterLabels(kept, torn) /\ ring' = PlatterRings(kept, torn)
  BY Zenon DEF Crash
<1>t. PICK torn \in SUBSET (cache \ kept) :
          label' = PlatterLabels(kept, torn) /\ ring' = PlatterRings(kept, torn)
  BY Zenon, <1>0
<1>k. kept \cap torn = {} /\ torn \in SUBSET cache
  BY Zenon
<1>1. /\ spa.pc \notin {"down", "load"} /\ spa' = [spa EXCEPT !.pc = "down"] /\ pool' = pool
      /\ present' = present
  BY Zenon DEF Crash, Goto, Spend
<1>2. /\ spa'.pc = "down" /\ spa'.dirty = spa.dirty /\ spa'.svd = spa.svd /\ spa'.ub = spa.ub
      /\ spa'.error = spa.error
  BY Zenon, <1>1 DEF TypeInv, SpaType
<1>3. hist'.base = hist.base /\ hist'.cfg = hist.cfg
  BY Zenon DEF Crash, TypeInv, HistType
<1>4. \A v : Cfg(v)' = Cfg(v) /\ (Dirty(v)' <=> Dirty(v))
  BY Zenon, <1>1, <1>2, <1>3 DEF Cfg, Dirty, Top
<1>5. ASSUME NEW v \in Leaves, NEW l \in Labels
      PROVE  /\ \/ label'[v][l] = label[v][l]
                \/ Dirty(v) /\ label'[v][l] \in {None, spa.ub}
             /\ l % 2 = 1 /\ spa.pc # "oddflush" => label'[v][l] = label[v][l]
             /\ l % 2 = 0 /\ spa.pc # "evenflush" => label'[v][l] = label[v][l]
  BY Zenon, <1>i, <1>t, <1>k, LabelStep
<1>6. /\ Mirrored(hist.base) => \A u : u = hist.base => Mirrored(u)'
      /\ spa.pc # "ubflush" /\ Mirrored(spa.ub) => \A u : u = spa.ub => Mirrored(u)'
      /\ spa.pc # "ubflush" /\ Absent(spa.ub) => \A u : u = spa.ub => Absent(u)'
  BY Zenon, <1>i, <1>1, <1>t, <1>k, RingsCopy
<1>7. Mirrored(hist.base)'
  <2>1. PICK u : u = hist.base
    OBVIOUS
  <2>2. Mirrored(u)'
    BY Zenon, <1>i, <1>6, <2>1 DEF CopyInv
  <2> QED
    BY Zenon, <1>3, <2>1, <2>2
<1>8. /\ spa.pc # "ubflush" /\ Mirrored(spa.ub) => Mirrored(spa.ub)'
      /\ spa.pc # "ubflush" /\ Absent(spa.ub) => Absent(spa.ub)'
  <2>1. PICK u : u = spa.ub
    OBVIOUS
  <2>2. /\ spa.pc # "ubflush" /\ Mirrored(spa.ub) => Mirrored(u)'
        /\ spa.pc # "ubflush" /\ Absent(spa.ub) => Absent(u)'
    BY Zenon, <1>6, <2>1
  <2> QED
    BY Zenon, <1>2, <2>1, <2>2
<1>9. /\ spa.pc # "evenflush" /\ EvenNew => EvenNew'
      /\ spa.pc # "oddflush" /\ OddOld => OddOld'
  <2>1. spa.pc # "evenflush" /\ EvenNew => EvenNew'
    BY Zenon, <1>2, <1>4, <1>5 DEF EvenNew
  <2>2. spa.pc # "oddflush" /\ OddOld => OddOld'
    BY Zenon, <1>4, <1>5 DEF OddOld
  <2> QED
    BY Zenon, <2>1, <2>2
<1>10. ((Absent(spa.ub) \/ EvenNew) /\ (OddOld \/ Mirrored(spa.ub)))'
  <2>1. CASE spa.pc = "idle"
    <3>1. EvenNew /\ OddOld
      BY Zenon, <1>i, <2>1 DEF Smooth, CfgInv, EvenNew, Dirty
    <3> QED
      BY Zenon, <1>9, <2>1, <3>1
  <2>2. CASE spa.pc \in {"data", "even", "evenflush"}
    <3>1. Absent(spa.ub) /\ OddOld
      BY Zenon, <1>i, <2>2 DEF CfgInv, CopyInv
    <3> QED
      BY Zenon, <1>8, <1>9, <2>2, <3>1
  <2>3. CASE spa.pc \in {"ub", "ubflush"}
    <3>1. EvenNew /\ OddOld
      BY Zenon, <1>i, <2>3 DEF CfgInv
    <3> QED
      BY Zenon, <1>9, <2>3, <3>1
  <2>4. CASE spa.pc \in {"odd", "oddflush"}
    <3>1. EvenNew /\ Mirrored(spa.ub)
      BY Zenon, <1>i, <2>4 DEF CfgInv, CopyInv
    <3> QED
      BY Zenon, <1>8, <1>9, <2>4, <3>1
  <2>5. spa.pc \in {"idle", "data", "even", "evenflush", "ub", "ubflush", "odd", "oddflush"}
    BY Zenon, <1>i, <1>1 DEF TypeInv, SpaType, Syncing, Flushing, Smooth
  <2> QED
    BY Zenon, <2>1, <2>2, <2>3, <2>4, <2>5
<1>11. \A v \in Leaves : (0 < Cfg(v).txg /\ Cfg(v).txg <= hist.base.txg)'
  BY Zenon, <1>i, <1>3, <1>4 DEF CfgInv
<1>12. \A v \in Leaves, l \in Labels :
         (label[v][l] = Cfg(v) \/ (Dirty(v) /\ label[v][l] \in {None, spa.ub}))'
  <2> SUFFICES ASSUME NEW v \in Leaves, NEW l \in Labels
               PROVE  label'[v][l] = Cfg(v) \/ (Dirty(v) /\ label'[v][l] \in {None, spa.ub})
    BY Zenon, <1>2, <1>4
  <2>1. label[v][l] = Cfg(v) \/ (Dirty(v) /\ label[v][l] \in {None, spa.ub})
    BY Zenon, <1>i DEF CfgInv
  <2>2. label'[v][l] = label[v][l] \/ (Dirty(v) /\ label'[v][l] \in {None, spa.ub})
    BY Zenon, <1>5
  <2> QED
    BY Zenon, <2>1, <2>2
<1>13. CfgInv' /\ CopyInv'
  BY Zenon, <1>2, <1>7, <1>10, <1>11, <1>12 DEF CfgInv, CopyInv
<1>14. Smooth'
  BY Zenon, <1>i, <1>1, <1>2, <1>3 DEF Smooth, Syncing, Flushing
<1> QED
  BY Zenon, <1>13, <1>14 DEF Config

(* A phase that is flushed: all of its writes are on the platter.          *)
LEMMA FlushPhaseConfig ==
    ASSUME TypeInv, Base, Config, FlushPhase PROVE Config'
<1>i. Smooth /\ CfgInv /\ CopyInv
  BY Zenon DEF Config
<1>0. /\ spa.pc \in {"evenflush", "ubflush", "oddflush"} /\ ~spa.error
      /\ label' = PlatterLabels(cache, {}) /\ ring' = PlatterRings(cache, {})
      /\ cache' = {} /\ present' = present /\ pool' = pool /\ present = Leaves
      /\ spa.svd # {}
  BY Zenon, <1>i DEF FlushPhase, Smooth, bounds, Syncing, Flushing
<1>k. cache \cap {} = {} /\ cache \in SUBSET cache /\ {} \in SUBSET cache
  BY Zenon
<1> DEFINE pc == NextPhase(spa.pc)
           cfg == [t \in Tops |-> IF t \in spa.dirty THEN spa.ub ELSE hist.cfg[t]]
<1>1. /\ spa' = [spa EXCEPT !.pc = pc, !.dirty = IF pc = "idle" THEN {} ELSE spa.dirty]
      /\ hist' = IF pc # "idle" THEN hist
                 ELSE [hist EXCEPT !.synced = spa.ub, !.base = spa.ub, !.cfg = cfg]
  BY Zenon, <1>0 DEF FlushPhase
<1>2. /\ spa.pc = "evenflush" => pc = "ub"
      /\ spa.pc = "ubflush" => pc = "odd"
      /\ spa.pc = "oddflush" => pc = "idle"
  BY SMT DEF NextPhase
<1> HIDE DEF pc, cfg
<1>3. /\ spa'.pc = pc /\ spa'.svd = spa.svd /\ spa'.ub = spa.ub /\ spa'.error = spa.error
      /\ spa'.dirty = IF pc = "idle" THEN {} ELSE spa.dirty
  BY Zenon, <1>1 DEF TypeInv, SpaType
<1>4. /\ pc # "idle" => hist' = hist
      /\ pc = "idle" => hist'.base = spa.ub /\ hist'.cfg = cfg
  BY Zenon, <1>1 DEF TypeInv, HistType
<1>5. ASSUME NEW v \in Leaves, NEW l \in Labels
      PROVE  /\ \/ label'[v][l] = label[v][l]
                \/ Dirty(v) /\ label'[v][l] \in {None, spa.ub}
             /\ l % 2 = 1 /\ spa.pc # "oddflush" => label'[v][l] = label[v][l]
             /\ l % 2 = 0 /\ spa.pc # "evenflush" => label'[v][l] = label[v][l]
             /\ spa.pc = "evenflush" /\ l % 2 = 0 /\ Dirty(v) => label'[v][l] = spa.ub
             /\ spa.pc = "oddflush" /\ l % 2 = 1 /\ Dirty(v) => label'[v][l] = spa.ub
  BY Zenon, <1>i, <1>0, <1>k, LabelStep
<1>6. /\ Mirrored(hist.base) => \A u : u = hist.base => Mirrored(u)'
      /\ spa.pc # "ubflush" /\ Mirrored(spa.ub) => \A u : u = spa.ub => Mirrored(u)'
      /\ spa.pc # "ubflush" /\ Absent(spa.ub) => \A u : u = spa.ub => Absent(u)'
      /\ spa.pc = "ubflush" /\ cache = Under(spa.svd) \X Labels
                => \A u : u = spa.ub => Mirrored(u)'
  BY Zenon, <1>i, <1>0, <1>k, RingsCopy
<1>7. pc # "idle" => Mirrored(hist.base)'
  <2>1. PICK u : u = hist.base
    OBVIOUS
  <2>2. Mirrored(u)'
    BY Zenon, <1>i, <1>6, <2>1 DEF CopyInv
  <2> QED
    BY Zenon, <1>4, <2>1, <2>2
<1>8. CASE spa.pc # "oddflush"
  <2>1. pc # "idle" /\ pc \in {"ub", "odd"} /\ hist' = hist /\ spa'.dirty = spa.dirty
    BY Zenon, <1>0, <1>2, <1>3, <1>4, <1>8
  <2>2. \A v : Cfg(v)' = Cfg(v) /\ (Dirty(v)' <=> Dirty(v))
    BY Zenon, <1>0, <2>1 DEF Cfg, Dirty, Top
  <2>3. OddOld'
    <3>1. OddOld
      BY Zenon, <1>i, <1>0 DEF CfgInv
    <3> QED
      BY Zenon, <1>5, <1>8, <2>2, <3>1 DEF OddOld
  <2>4. EvenNew'
    <3>1. spa.pc = "ubflush" => EvenNew
      BY Zenon, <1>i DEF CfgInv
    <3> QED
      BY Zenon, <1>0, <1>3, <1>5, <1>8, <2>2, <3>1 DEF EvenNew
  <2>5. \A v \in Leaves : (0 < Cfg(v).txg /\ Cfg(v).txg <= hist.base.txg)'
    BY Zenon, <1>i, <2>1, <2>2 DEF CfgInv
  <2>6. \A v \in Leaves, l \in Labels :
           (label[v][l] = Cfg(v) \/ (Dirty(v) /\ label[v][l] \in {None, spa.ub}))'
    <3> SUFFICES ASSUME NEW v \in Leaves, NEW l \in Labels
                 PROVE  label'[v][l] = Cfg(v) \/ (Dirty(v) /\ label'[v][l] \in {None, spa.ub})
      BY Zenon, <1>3, <2>2
    <3>1. label[v][l] = Cfg(v) \/ (Dirty(v) /\ label[v][l] \in {None, spa.ub})
      BY Zenon, <1>i DEF CfgInv
    <3>2. label'[v][l] = label[v][l] \/ (Dirty(v) /\ label'[v][l] \in {None, spa.ub})
      BY Zenon, <1>5
    <3> QED
      BY Zenon, <3>1, <3>2
  <2>7. CfgInv'
    BY Zenon, <1>3, <2>1, <2>3, <2>4, <2>5, <2>6 DEF CfgInv
  <2>8. CopyInv'
    <3>1. PICK u : u = spa.ub
      OBVIOUS
    <3>2. spa.pc = "evenflush" => Absent(u)'
      BY Zenon, <1>i, <1>6, <3>1 DEF CopyInv
    <3>3. spa.pc = "ubflush" => Mirrored(u)'
      BY Zenon, <1>i, <1>6, <3>1 DEF Smooth
    <3>4. (pc = "ub" => Absent(spa.ub)') /\ (pc = "odd" => Mirrored(spa.ub)')
      BY Zenon, <1>0, <1>2, <1>3, <1>8, <3>1, <3>2, <3>3
    <3> QED
      BY Zenon, <1>3, <1>7, <2>1, <3>4 DEF CopyInv
  <2>9. Smooth'
    BY Zenon, <1>i, <1>0, <1>3, <2>1 DEF Smooth
  <2> QED
    BY Zenon, <2>7, <2>8, <2>9 DEF Config
<1>9. CASE spa.pc = "oddflush"
  <2>1. pc = "idle" /\ hist'.base = spa.ub /\ hist'.cfg = cfg /\ spa'.dirty = {}
    BY Zenon, <1>2, <1>3, <1>4, <1>9
  <2>b. /\ hist.base.txg \in Nat /\ spa.ub.txg \in Nat /\ hist.base.txg < spa.ub.txg
    BY Zenon, <1>9, Bounded DEF Base, Syncing, Flushing
  <2>2. ASSUME NEW v \in Leaves
        PROVE  /\ Cfg(v)' = IF Dirty(v) THEN spa.ub ELSE Cfg(v)
               /\ Cfg(v).txg \in Nat
    <3>1. Top[v] \in Tops /\ Top' = Top
      BY Zenon, <1>0 DEF Tops, Top
    <3>2. hist.cfg \in [Tops -> Ub]
      BY Zenon DEF TypeInv, HistType
    <3>3. Cfg(v).txg \in Nat
      <4>1. Cfg(v) \in Ub
        BY Zenon, <3>1, <3>2 DEF Cfg
      <4> QED
        BY Zenon, <4>1, Bounded
    <3>4. cfg[Top[v]] = IF Top[v] \in spa.dirty THEN spa.ub ELSE hist.cfg[Top[v]]
      BY Zenon, <3>1 DEF cfg
    <3> QED
      BY Zenon, <2>1, <3>1, <3>3, <3>4 DEF Cfg, Dirty
  <2>3. ASSUME NEW v \in Leaves, NEW l \in Labels PROVE label'[v][l] = Cfg(v)'
    <3>1. EvenNew /\ (label[v][l] = Cfg(v) \/ (Dirty(v) /\ label[v][l] \in {None, spa.ub}))
      BY Zenon, <1>i, <1>9 DEF CfgInv
    <3>2. CASE Dirty(v)
      <4>1. l % 2 = 0 \/ l % 2 = 1
        BY Zenon, LabelNumbers
      <4>2. CASE l % 2 = 0
        <5>1. label[v][l] = spa.ub
          BY Zenon, <3>1, <3>2, <4>2 DEF EvenNew
        <5>2. label'[v][l] = label[v][l]
          BY Zenon, <1>5, <1>9, <4>2
        <5> QED
          BY Zenon, <2>2, <3>2, <5>1, <5>2
      <4>3. CASE l % 2 = 1
        <5>1. label'[v][l] = spa.ub
          BY Zenon, <1>5, <1>9, <3>2, <4>3
        <5> QED
          BY Zenon, <2>2, <3>2, <5>1
      <4> QED
        BY Zenon, <4>1, <4>2, <4>3
    <3>3. CASE ~Dirty(v)
      BY Zenon, <1>5, <2>2, <3>1, <3>3
    <3> QED
      BY Zenon, <3>2, <3>3
  <2>4. EvenOld' /\ OddOld'
    BY Zenon, <2>3 DEF EvenOld, OddOld
  <2>5. ASSUME NEW v \in Leaves PROVE (0 < Cfg(v).txg /\ Cfg(v).txg <= hist.base.txg)'
    <3>1. 0 < Cfg(v).txg /\ Cfg(v).txg <= hist.base.txg
      BY Zenon, <1>i DEF CfgInv
    <3>2. PICK c : c = Cfg(v)'
      OBVIOUS
    <3>3. c.txg = spa.ub.txg \/ c.txg = Cfg(v).txg
      BY Zenon, <2>2, <3>2
    <3>4. 0 < c.txg /\ c.txg <= spa.ub.txg
      BY SMT, <2>b, <2>2, <3>1, <3>3
    <3> QED
      BY Zenon, <2>1, <3>2, <3>4
  <2>6. CfgInv'
    BY Zenon, <1>3, <2>1, <2>3, <2>4, <2>5 DEF CfgInv
  <2>7. CopyInv'
    <3>1. PICK u : u = spa.ub
      OBVIOUS
    <3>2. Mirrored(u)'
      BY Zenon, <1>i, <1>6, <1>9, <3>1 DEF CopyInv
    <3>3. Mirrored(hist.base)'
      BY Zenon, <2>1, <3>1, <3>2
    <3> QED
      BY Zenon, <1>3, <2>1, <3>3 DEF CopyInv
  <2>8. Smooth'
    BY Zenon, <1>0, <1>3, <2>1 DEF Smooth, Syncing, Flushing
  <2> QED
    BY Zenon, <2>6, <2>7, <2>8 DEF Config
<1> QED
  BY Zenon, <1>8, <1>9

LEMMA ConfigInit == ASSUME Init PROVE Config
<1> DEFINE ub == [txg |-> InitTxg, ts |-> 1]
<1>0. /\ spa = [pc |-> "idle", txg |-> InitTxg, boot |-> 1, ub |-> ub, dirty |-> {},
                svd |-> {}, tryhard |-> FALSE, error |-> FALSE]
      /\ label = [v \in Leaves |-> [l \in Labels |-> ub]]
      /\ ring = [v \in Leaves |-> [l \in Labels |-> [n \in 0 .. (VDEV_UBERBLOCK_COUNT - 1) |->
                    IF n = InitTxg % VDEV_UBERBLOCK_COUNT THEN ub ELSE None]]]
      /\ present = Leaves
      /\ hist = [synced |-> ub, base |-> ub, cfg |-> [t \in Tops |-> ub], lost |-> {}]
  BY Zenon DEF Init
<1>1. ub.txg = InitTxg
  BY Zenon
<1> HIDE DEF ub
<1>2. /\ spa.pc = "idle" /\ spa.ub = ub /\ spa.dirty = {} /\ spa.error = FALSE
      /\ hist.base = ub /\ hist.cfg = [t \in Tops |-> ub]
  BY Zenon, <1>0
<1>3. ASSUME NEW v \in Leaves PROVE Cfg(v) = ub
  <2>1. Top[v] \in Tops
    BY Zenon DEF Tops
  <2> QED
    BY Zenon, <1>2, <2>1 DEF Cfg
<1>4. \A v \in Leaves, l \in Labels : label[v][l] = ub
  BY Zenon, <1>0
<1>5. EvenOld /\ OddOld
  BY Zenon, <1>3, <1>4 DEF EvenOld, OddOld
<1>6. 0 < ub.txg /\ ub.txg <= ub.txg
  BY SMT, <1>1, PoolAssumption
<1>7. Slot(ub) = InitTxg % VDEV_UBERBLOCK_COUNT /\ Slot(ub) \in 0 .. (VDEV_UBERBLOCK_COUNT - 1)
  BY Zenon, <1>1, DivMod, PoolAssumption DEF Slot
<1>8. \A v \in Leaves, l \in Labels : ring[v][l][Slot(ub)] = ub
  BY Zenon, <1>0, <1>7
<1>9. Mirrored(ub)
  <2>1. PICK t : t \in Tops
    BY Zenon, PoolAssumption DEF Tops
  <2> QED
    BY Zenon, <1>8, <2>1, LabelNumbers DEF Mirrored
<1>10. Smooth
  BY Zenon, <1>0, <1>2 DEF Smooth, Syncing, Flushing
<1>11. CopyInv
  BY Zenon, <1>2, <1>9 DEF CopyInv
<1>12. CfgInv
  BY Zenon, <1>2, <1>3, <1>4, <1>5, <1>6 DEF CfgInv
<1> QED
  BY Zenon, <1>10, <1>11, <1>12 DEF Config

LEMMA ConfigStep ==
    ASSUME DataInv, First, First', Base, Config, [Next]_vars, ~Load PROVE Config'
<1>i. TypeInv /\ SyncInv /\ RingInv
  BY Zenon DEF DataInv
<1>1. ~Resume /\ ~Online
  BY Zenon DEF Config, Smooth, Resume, Online, At
<1>2. CASE ConfigSync
  BY Zenon, <1>i, <1>1, <1>2, DataPhaseConfig, LabelsConfig, UberblocksConfig,
     FlushPhaseConfig DEF ConfigSync
<1>3. CASE SyncTxg \/ NoopTxg \/ Crash \/ Open
  BY Zenon, <1>i, <1>3, SyncTxgConfig, NoopTxgConfig, CrashConfig, OpenConfig
<1>4. CASE UNCHANGED vars
  BY Zenon, <1>4, StutterConfig
<1> QED
  BY Zenon, <1>1, <1>2, <1>3, <1>4 DEF Next

LEMMA FirstInvariant == Spec => []FirstInv
<1>1. Init => FirstInv
  <2> SUFFICES ASSUME Init PROVE FirstInv
    OBVIOUS
  <2>1. budget = pool /\ pool \in ScenarioType
    BY Zenon, PoolAssumption DEF Init
  <2>2. pool.werr \in Nat
    BY Zenon, <2>1 DEF ScenarioType
  <2>3. pool.werr <= pool.werr
    BY SMT, <2>2
  <2> QED
    BY Zenon, <2>1, <2>3, BaseInit, ConfigInit DEF FirstInv
<1>2. DataInv /\ DataInv' /\ FirstInv /\ [Next]_vars => FirstInv'
  <2> SUFFICES ASSUME DataInv, DataInv', FirstInv, [Next]_vars PROVE FirstInv'
    OBVIOUS
  <2>1. TypeInv /\ SyncInv /\ TypeInv'
    BY Zenon DEF DataInv
  <2>2. pool' = pool /\ budget'.werr <= budget.werr
    BY Zenon, <2>1, PoolConstant, BudgetStep
  <2>3. budget.werr <= pool.werr
    BY Zenon DEF FirstInv
  <2>4. budget'.werr <= pool'.werr
    <3>1. budget'.werr \in Nat /\ budget.werr \in Nat /\ pool.werr \in Nat
      BY Zenon, <2>1 DEF TypeInv, ScenarioType
    <3>2. budget'.werr <= pool.werr
      BY SMT, <2>2, <2>3, <3>1
    <3> QED
      BY Zenon, <2>2, <3>2
  <2>5. ASSUME First', Roomy' PROVE Base' /\ Config'
    <3>1. First /\ ~Load
      BY Zenon, <2>1, <2>3, <2>5, FirstBack
    <3>2. Roomy
      BY Zenon, <2>2, <2>5 DEF Roomy
    <3>3. Base /\ Config
      BY Zenon, <3>1, <3>2 DEF FirstInv
    <3>4. Base'
      BY Zenon, <2>1, <3>1, <3>2, <3>3, BaseStep
    <3>5. Config'
      BY Zenon, <2>5, <3>1, <3>3, ConfigStep
    <3> QED
      BY Zenon, <3>4, <3>5
  <2> QED
    BY Zenon, <2>4, <2>5 DEF FirstInv
<1> QED
  BY <1>1, <1>2, DataInvariant, PTL DEF Spec

-----------------------------------------------------------------------------
(* In a ring that has room for the txgs that were closed without a change: *)
(* after a crash at any point of vdev_config_sync, whichever of the writes *)
(* of the phase were kept, lost or torn and whichever leaves are missing,  *)
(* the label that vdev_label_read_config finds beside the best uberblock   *)
(* is the configuration that its vdev had in that txg: the even labels     *)
(* serve the new uberblock, the odd ones the old.                          *)
THEOREM LabelsServe == Spec => [](Roomy => LabelCurrent)
<1>1. DataInv /\ FirstInv => (Roomy => LabelCurrent)
  <2> SUFFICES ASSUME DataInv, FirstInv, Roomy, spa.pc = "load", spa.boot = 1,
                      budget.werr = pool.werr, NEW v \in BestLeaves
               PROVE  ReadConfig(v, BestUberblock.txg) =
                          IF BestUberblock = spa.ub /\ Top[v] \in spa.dirty THEN spa.ub
                          ELSE hist.cfg[Top[v]]
    BY Zenon DEF LabelCurrent, At
  <2>1. Base /\ Config
    BY Zenon DEF FirstInv, First
  <2>2. v \in Leaves
    BY Zenon DEF BestLeaves, DataInv, TypeInv
  <2> QED
    BY Zenon, <2>1, <2>2, OpenReadsCfg
<1> QED
  BY <1>1, DataInvariant, FirstInvariant, PTL
=============================================================================
