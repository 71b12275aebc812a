---------------------------- MODULE DmuTxProofs ----------------------------
(***************************************************************************)
(* Proofs about the assignment of transactions to txgs and the accounting  *)
(* of dirty data, for any transactions, dnodes, lists of holds and sizes.  *)
(***************************************************************************)
EXTENDS DmuTx, FiniteSetTheorems, TLAPS

-----------------------------------------------------------------------------
(* The inductive invariants.                                               *)

InTxg == {"hold", "unassign", "dirty", "commit"}
Places == InTxg \cup {"try", "wait", "waitsynced", "waitdnode", "waitopen", "abort", "done"}

TxType == [pc : Places, lasttried : Nat, waited : BOOLEAN, wait_dirty : BOOLEAN, need : Nat,
           i : Nat, err : {"ok", "ERESTART", "EDQUOT"}, target : Nat, ops : Nat]

TypeInv ==
    /\ open \in Nat /\ synced \in Nat
    /\ tx_txg \in [Txs -> Nat] /\ tx \in [Txs -> TxType]

(* What a dmu_tx_t, x, of thread t may be that is in txg m: it is in one   *)
(* from txg_hold_open to txg_rele_to_sync, the open one while it takes its *)
(* holds, and walks tx_holds within bounds.                                *)
Fits(t, x, m) ==
    /\ m # 0 <=> x.pc \in InTxg
    /\ m # 0 => m \in {open, open - 1} /\ synced < m
    /\ x.pc = "hold" => m = open /\ x.i \in 1 .. (Len(Holds[t]) + 1) /\ x.need = 0
    /\ x.pc = "unassign" => x.i >= 1 /\ x.need <= Len(Holds[t])
    /\ x.pc = "dirty" => x.i = 1
    /\ x.pc = "commit" => x.i >= 1

(* Never more than three txgs are not on disk.                             *)
PipeInv ==
    /\ synced < open /\ open <= synced + 3
    /\ \A t \in Txs : Fits(t, tx[t], tx_txg[t])

(* Only the txgs that are not on disk have dirty data.                     *)
Total(f) == f[0] + f[1] + f[2] + f[3]
DirtyInv ==
    /\ dp_dirty_pertxg \in [0 .. 3 -> Nat]
    /\ dp_dirty_total = Total(dp_dirty_pertxg)
    /\ \A s \in 0 .. 3 : (\A txg \in (synced + 1) .. open : s # Slot(txg)) => dp_dirty_pertxg[s] = 0

HoldInv ==
    /\ dn_tx_holds \in [Dnodes -> Nat] /\ dn_assigned_txg \in [Dnodes -> Nat]
    /\ \A d \in Dnodes : IsFiniteSet(HoldsOf(d))
    /\ DnodeInOneTxg

-----------------------------------------------------------------------------
(* The sum of the four slots                                               *)

Pick(s) == CHOOSE x \in s : TRUE
SumStep(f, S, h) == [s \in SUBSET S |-> IF s = {} THEN 0 ELSE f[Pick(s)] + h[s \ {Pick(s)}]]
Sums(f, S) == CHOOSE h : h = SumStep(f, S, h)

LEMMA SumIs ==
    ASSUME NEW f PROVE SumFunction(f) = Sums(f, DOMAIN f)[DOMAIN f]
BY Zenon DEF SumFunction, SumFunctionOnSet, FoldFunctionOnSet, MapThenFoldSet, Sums, SumStep, Pick

LEMMA PickIn == ASSUME NEW s, s # {} PROVE Pick(s) \in s
BY Zenon DEF Pick

(* The recursion has a solution: the sum of the members' values.           *)
LEMMA SumsExist ==
    ASSUME NEW f \in [0 .. 3 -> Nat]
    PROVE  Sums(f, 0 .. 3) = SumStep(f, 0 .. 3, Sums(f, 0 .. 3))
<1> DEFINE v(s, k) == IF k \in s THEN f[k] ELSE 0
           g == [s \in SUBSET (0 .. 3) |-> v(s, 0) + v(s, 1) + v(s, 2) + v(s, 3)]
<1>1. ASSUME NEW s \in SUBSET (0 .. 3), s # {} PROVE g[s] = f[Pick(s)] + g[s \ {Pick(s)}]
  <2>1. Pick(s) \in s
    BY Zenon, <1>1, PickIn
  <2>2. PICK x \in s : x = Pick(s)
    BY Zenon, <2>1
  <2>3. s \ {x} \in SUBSET (0 .. 3)
    BY Zenon
  <2>4. /\ g[s] = v(s, 0) + v(s, 1) + v(s, 2) + v(s, 3)
        /\ g[s \ {x}] = v(s \ {x}, 0) + v(s \ {x}, 1) + v(s \ {x}, 2) + v(s \ {x}, 3)
    BY Zenon, <2>3
  <2>5. f[0] \in Nat /\ f[1] \in Nat /\ f[2] \in Nat /\ f[3] \in Nat
    BY SMT
  <2>6. x \in {0, 1, 2, 3}
    BY SMT
  <2>7. v(s, 0) + v(s, 1) + v(s, 2) + v(s, 3)
          = f[x] + (v(s \ {x}, 0) + v(s \ {x}, 1) + v(s \ {x}, 2) + v(s \ {x}, 3))
    <3>1. CASE x = 0
      BY SMT, <2>5, <3>1
    <3>2. CASE x = 1
      BY SMT, <2>5, <3>2
    <3>3. CASE x = 2
      BY SMT, <2>5, <3>3
    <3>4. CASE x = 3
      BY SMT, <2>5, <3>4
    <3> QED
      BY Zenon, <2>6, <3>1, <3>2, <3>3, <3>4
  <2> HIDE DEF v, g
  <2> QED
    BY Zenon, <2>2, <2>4, <2>7
<1>2. g[{}] = 0
  BY SMT
<1>3. g = [s \in SUBSET (0 .. 3) |-> g[s]]
  BY Zenon
<1> HIDE DEF g
<1>4. g = SumStep(f, 0 .. 3, g)
  BY Zenon, <1>1, <1>2, <1>3 DEF SumStep
<1> QED
  BY Zenon, <1>4 DEF Sums

LEMMA SumFour ==
    ASSUME NEW f \in [0 .. 3 -> Nat]
    PROVE  SumFunction(f) = Total(f)
<1> DEFINE h == Sums(f, 0 .. 3)
<1>1. h = SumStep(f, 0 .. 3, h)
  BY Zenon, SumsExist
<1>d. DOMAIN f = 0 .. 3 /\ 0 .. 3 = {0, 1, 2, 3}
  BY SMT
<1>2. SumFunction(f) = h[0 .. 3]
  <2>1. SumFunction(f) = Sums(f, DOMAIN f)[DOMAIN f]
    BY Zenon, SumIs
  <2> QED
    BY Zenon, <1>d, <2>1
<1> HIDE DEF h
<1>3. ASSUME NEW s \in SUBSET (0 .. 3)
      PROVE  h[s] = IF s = {} THEN 0 ELSE f[Pick(s)] + h[s \ {Pick(s)}]
  <2>1. SumStep(f, 0 .. 3, h)[s] = IF s = {} THEN 0 ELSE f[Pick(s)] + h[s \ {Pick(s)}]
    BY Zenon DEF SumStep
  <2> QED
    BY Zenon, <1>1, <2>1
<1>t. f[0] \in Nat /\ f[1] \in Nat /\ f[2] \in Nat /\ f[3] \in Nat
  BY SMT
<1>4. h[{}] = 0
  BY Zenon, <1>3
<1>5. ASSUME NEW s \in SUBSET (0 .. 3), s # {} PROVE \E x \in s : h[s] = f[x] + h[s \ {x}]
  BY Zenon, <1>3, <1>5, PickIn
<1>6. ASSUME NEW a \in 0 .. 3 PROVE h[{a}] = f[a]
  <2>1. h[{a}] = f[a] + h[{a} \ {a}]
    <3>1. {a} \in SUBSET (0 .. 3) /\ {a} # {}
      BY Zenon
    <3> QED
      BY Zenon, <1>5, <3>1
  <2>2. {a} \ {a} = {}
    BY Zenon
  <2>3. h[{a}] = f[a] + 0 /\ f[a] \in Nat
    BY Zenon, <1>4, <2>1, <2>2
  <2> QED
    BY SMT, <2>3
<1> DEFINE two(a, b) == h[{a, b}] = f[a] + f[b]
<1>7. ASSUME NEW a \in 0 .. 3, NEW b \in 0 .. 3, a # b PROVE two(a, b)
  <2>1. {a, b} \in SUBSET (0 .. 3) /\ {a, b} # {} /\ {a, b} \ {a} = {b} /\ {a, b} \ {b} = {a}
    BY Zenon, <1>7
  <2>2. PICK x \in {a, b} : h[{a, b}] = f[x] + h[{a, b} \ {x}]
    BY Zenon, <1>5, <2>1
  <2>3. h[{a, b}] = f[a] + f[b] \/ h[{a, b}] = f[b] + f[a]
    BY Zenon, <1>6, <2>1, <2>2
  <2>4. f[a] \in Nat /\ f[b] \in Nat
    BY Zenon
  <2> QED
    BY SMT, <2>3, <2>4
<1> HIDE DEF two
<1>8. ASSUME NEW a \in 0 .. 3, NEW b \in 0 .. 3, NEW c \in 0 .. 3, a # b, b # c, a # c
      PROVE  h[{a, b, c}] = f[a] + f[b] + f[c]
  <2>1. /\ {a, b, c} \in SUBSET (0 .. 3) /\ {a, b, c} # {}
        /\ {a, b, c} \ {a} = {b, c} /\ {a, b, c} \ {b} = {a, c} /\ {a, b, c} \ {c} = {a, b}
    BY Zenon, <1>8
  <2>2. PICK x \in {a, b, c} : h[{a, b, c}] = f[x] + h[{a, b, c} \ {x}]
    BY Zenon, <1>5, <2>1
  <2>o. two(b, c) /\ two(a, c) /\ two(a, b)
    BY Zenon, <1>7, <1>8
  <2>p. h[{b, c}] = f[b] + f[c] /\ h[{a, c}] = f[a] + f[c] /\ h[{a, b}] = f[a] + f[b]
    BY Zenon, <2>o DEF two
  <2>3. \/ h[{a, b, c}] = f[a] + (f[b] + f[c]) \/ h[{a, b, c}] = f[b] + (f[a] + f[c])
        \/ h[{a, b, c}] = f[c] + (f[a] + f[b])
    BY Zenon, <2>p, <2>1, <2>2
  <2>4. f[a] \in Nat /\ f[b] \in Nat /\ f[c] \in Nat
    BY Zenon
  <2> QED
    BY SMT, <2>3, <2>4
<1>9. h[0 .. 3] = f[0] + f[1] + f[2] + f[3]
  <2>1. /\ 0 .. 3 # {} /\ (0 .. 3) \ {0} = {1, 2, 3} /\ (0 .. 3) \ {1} = {0, 2, 3}
        /\ (0 .. 3) \ {2} = {0, 1, 3} /\ (0 .. 3) \ {3} = {0, 1, 2}
    BY SMT
  <2>2. PICK x \in 0 .. 3 : h[0 .. 3] = f[x] + h[(0 .. 3) \ {x}]
    BY Zenon, <1>5, <2>1
  <2>3. /\ h[{1, 2, 3}] = f[1] + f[2] + f[3] /\ h[{0, 2, 3}] = f[0] + f[2] + f[3]
        /\ h[{0, 1, 3}] = f[0] + f[1] + f[3] /\ h[{0, 1, 2}] = f[0] + f[1] + f[2]
    BY SMT, <1>8
  <2>4. x \in {0, 1, 2, 3}
    BY Zenon, <1>d
  <2>5. \/ h[0 .. 3] = f[0] + (f[1] + f[2] + f[3]) \/ h[0 .. 3] = f[1] + (f[0] + f[2] + f[3])
        \/ h[0 .. 3] = f[2] + (f[0] + f[1] + f[3]) \/ h[0 .. 3] = f[3] + (f[0] + f[1] + f[2])
    <3>1. ASSUME x = 0 PROVE h[0 .. 3] = f[0] + (f[1] + f[2] + f[3])
      <4>1. h[0 .. 3] = f[0] + h[{1, 2, 3}]
        BY Zenon, <2>1, <2>2, <3>1
      <4> QED
        BY Zenon, <2>3, <4>1
    <3>2. ASSUME x = 1 PROVE h[0 .. 3] = f[1] + (f[0] + f[2] + f[3])
      <4>1. h[0 .. 3] = f[1] + h[{0, 2, 3}]
        BY Zenon, <2>1, <2>2, <3>2
      <4> QED
        BY Zenon, <2>3, <4>1
    <3>3. ASSUME x = 2 PROVE h[0 .. 3] = f[2] + (f[0] + f[1] + f[3])
      <4>1. h[0 .. 3] = f[2] + h[{0, 1, 3}]
        BY Zenon, <2>1, <2>2, <3>3
      <4> QED
        BY Zenon, <2>3, <4>1
    <3>4. ASSUME x = 3 PROVE h[0 .. 3] = f[3] + (f[0] + f[1] + f[2])
      <4>1. h[0 .. 3] = f[3] + h[{0, 1, 2}]
        BY Zenon, <2>1, <2>2, <3>4
      <4> QED
        BY Zenon, <2>3, <4>1
    <3> QED
      BY Zenon, <2>4, <3>1, <3>2, <3>3, <3>4
  <2> QED
    BY SMT, <1>t, <2>5
<1> QED
  BY Zenon, <1>2, <1>9 DEF Total

-----------------------------------------------------------------------------
(* The steps of a transaction                                              *)

(* The holds that x, one of n holds, has taken and not yet dropped.        *)
Taken(x, n) ==
    CASE x.pc = "hold" -> 1 .. (x.i - 1)
      [] x.pc = "unassign" -> x.i .. (IF x.need = 0 THEN n ELSE x.need - 1)
      [] x.pc = "commit" -> x.i .. n
      [] x.pc = "dirty" -> 1 .. n
      [] OTHER -> {}

LEMMA HeldIs == ASSUME NEW t \in Txs PROVE Held(t) = Taken(tx[t], Len(Holds[t]))
BY Zenon DEF Held, Taken, At, UnassignEnd

LEMMA TakenIs ==
    ASSUME NEW x, NEW n
    PROVE  /\ x.pc = "hold" => Taken(x, n) = 1 .. (x.i - 1)
           /\ x.pc = "unassign" => Taken(x, n) = x.i .. (IF x.need = 0 THEN n ELSE x.need - 1)
           /\ x.pc = "commit" => Taken(x, n) = x.i .. n
           /\ x.pc = "dirty" => Taken(x, n) = 1 .. n
           /\ x.pc \notin InTxg => Taken(x, n) = {}
<1>1. x.pc = "hold" => Taken(x, n) = 1 .. (x.i - 1)
  BY SMT DEF Taken
<1>2. x.pc = "unassign" => Taken(x, n) = x.i .. (IF x.need = 0 THEN n ELSE x.need - 1)
  BY SMT DEF Taken
<1>3. x.pc = "commit" => Taken(x, n) = x.i .. n
  BY SMT DEF Taken
<1>4. x.pc = "dirty" => Taken(x, n) = 1 .. n
  BY SMT DEF Taken
<1>5. x.pc \notin InTxg => Taken(x, n) = {}
  BY SMT DEF Taken, InTxg
<1> QED
  BY Zenon, <1>1, <1>2, <1>3, <1>4, <1>5

(* Thread t goes on with y, in txg m.                                      *)
Goes(t, y, m) ==
    /\ y \in TxType /\ m \in Nat
    /\ tx' = [tx EXCEPT ![t] = y] /\ tx_txg' = [tx_txg EXCEPT ![t] = m]
    /\ open' = open /\ synced' = synced
    /\ Fits(t, y, m)

(* Its holds stay as they are; it takes one; it drops one.                 *)
Keeps(t, y, m) ==
    /\ Taken(y, Len(Holds[t])) = Taken(tx[t], Len(Holds[t]))
    /\ m = tx_txg[t] \/ Taken(y, Len(Holds[t])) = {}
    /\ dn_assigned_txg' = dn_assigned_txg /\ dn_tx_holds' = dn_tx_holds
Takes(t, y, m) ==
    /\ m = open /\ m = tx_txg[t] /\ m # 0 /\ tx[t].i \in 1 .. Len(Holds[t])
    /\ tx[t].i \notin Taken(tx[t], Len(Holds[t]))
    /\ Taken(y, Len(Holds[t])) = Taken(tx[t], Len(Holds[t])) \cup {tx[t].i}
    /\ dn_assigned_txg[Hold(t)] # m - 1
    /\ dn_assigned_txg' = [dn_assigned_txg EXCEPT
                             ![Hold(t)] = IF dn_assigned_txg[Hold(t)] = 0 THEN m
                                          ELSE dn_assigned_txg[Hold(t)]]
    /\ dn_tx_holds' = [dn_tx_holds EXCEPT ![Hold(t)] = dn_tx_holds[Hold(t)] + 1]
Drops(t, y, m) ==
    /\ m = tx_txg[t] /\ tx[t].i \in 1 .. Len(Holds[t])
    /\ tx[t].i \in Taken(tx[t], Len(Holds[t]))
    /\ Taken(y, Len(Holds[t])) = Taken(tx[t], Len(Holds[t])) \ {tx[t].i}
    /\ DropDnode(Hold(t))

Moves(t) == \E y, m : Goes(t, y, m) /\ (Keeps(t, y, m) \/ Takes(t, y, m) \/ Drops(t, y, m))

LEMMA TxTypes ==
    ASSUME TypeInv, NEW t \in Txs
    PROVE  /\ tx[t] \in TxType /\ tx_txg[t] \in Nat /\ Len(Holds[t]) \in Nat
           /\ tx[t].i \in Nat /\ tx[t].need \in Nat /\ open \in Nat /\ synced \in Nat
           /\ tx_txg = [tx_txg EXCEPT ![t] = tx_txg[t]] /\ tx = [tx EXCEPT ![t] = tx[t]]
<1>1. tx[t] \in TxType /\ tx_txg[t] \in Nat /\ Holds[t] \in Seq(Dnodes)
  BY Zenon, HoldsAssumption DEF TypeInv
<1>2. Len(Holds[t]) \in Nat
  BY SMT, <1>1
<1>3. tx[t].i \in Nat /\ tx[t].need \in Nat
  BY Zenon, <1>1 DEF TxType
<1>4. tx_txg = [tx_txg EXCEPT ![t] = tx_txg[t]] /\ tx = [tx EXCEPT ![t] = tx[t]]
  BY Zenon DEF TypeInv
<1> QED
  BY Zenon, <1>1, <1>2, <1>3, <1>4 DEF TypeInv

(* A step outside of the txgs.                                             *)
LEMMA OutMoves ==
    ASSUME TypeInv, PipeInv, NEW t \in Txs, NEW y \in TxType, y.pc \notin InTxg,
           tx[t].pc \notin InTxg, tx' = [tx EXCEPT ![t] = y], UNCHANGED pipe, UNCHANGED dn_assigned_txg,
           UNCHANGED dn_tx_holds
    PROVE  Moves(t)
<1>1. tx_txg[t] = 0
  BY Zenon DEF PipeInv, Fits
<1>2. Fits(t, y, 0)
  BY Zenon DEF Fits, InTxg
<1>3. Goes(t, y, tx_txg[t])
  BY Zenon, <1>1, <1>2, TxTypes DEF Goes, pipe
<1>4. Keeps(t, y, tx_txg[t])
  BY Zenon, TakenIs DEF Keeps
<1> QED
  BY Zenon, <1>3, <1>4 DEF Moves

LEMMA AfterWaitType ==
    ASSUME TypeInv, NEW t \in Txs, NEW waited \in BOOLEAN
    PROVE  AfterWait(t, waited) \in TxType /\ AfterWait(t, waited).pc = "try"
<1>1. tx[t] \in TxType /\ 0 \in Nat /\ 1 \in Nat
  BY SMT, TxTypes
<1>2. CASE How[t] = "WAIT"
  <2>1. AfterWait(t, waited) = [tx[t] EXCEPT !.pc = "try", !.wait_dirty = FALSE, !.waited = waited]
    BY Zenon, <1>2 DEF AfterWait
  <2> QED
    BY Zenon, <1>1, <2>1 DEF TxType, Places
<1>3. CASE How[t] # "WAIT"
  <2>1. AfterWait(t, waited) = [NewTx EXCEPT !.waited = TRUE, !.ops = tx[t].ops]
    BY Zenon, <1>3 DEF AfterWait
  <2>2. NewTx \in TxType /\ NewTx.pc = "try"
    BY Zenon, <1>1 DEF NewTx, TxType, Places
  <2>3. tx[t].ops \in Nat
    BY Zenon, <1>1 DEF TxType
  <2> QED
    BY Zenon, <2>1, <2>2, <2>3 DEF TxType
<1> QED
  BY Zenon, <1>2, <1>3

LEMMA WaitMoves ==
    ASSUME TypeInv, PipeInv, NEW t \in Txs,
           WaitDirty(t) \/ WaitTxg(t) \/ WaitDnode(t)
    PROVE  Moves(t)
<1>1. /\ tx[t].pc \in {"wait", "waitsynced", "waitopen", "waitdnode"}
      /\ UNCHANGED pipe /\ UNCHANGED dn_assigned_txg /\ UNCHANGED dn_tx_holds
  BY Zenon DEF WaitDirty, WaitTxg, WaitDnode, At, dnvars
<1>2. tx[t].pc \notin InTxg /\ 0 \in Nat
  BY SMT, <1>1 DEF InTxg
<1>3. tx[t] \in TxType /\ tx[t].waited \in BOOLEAN
  BY Zenon, TxTypes DEF TxType
<1>4. \E y \in TxType : y.pc \notin InTxg /\ tx' = [tx EXCEPT ![t] = y]
  <2>1. CASE tx' = tx
    BY Zenon, <1>2, <1>3, <2>1, TxTypes
  <2>2. ASSUME NEW waited \in BOOLEAN, tx' = [tx EXCEPT ![t] = AfterWait(t, waited)]
        PROVE  \E y \in TxType : y.pc \notin InTxg /\ tx' = [tx EXCEPT ![t] = y]
    BY Zenon, <2>2, AfterWaitType DEF InTxg
  <2>3. ASSUME NEW waited \in BOOLEAN,
               tx' = [tx EXCEPT ![t] = [AfterWait(t, waited) EXCEPT !.need = 0]]
        PROVE  \E y \in TxType : y.pc \notin InTxg /\ tx' = [tx EXCEPT ![t] = y]
    <3>1. PICK w : w = AfterWait(t, waited)
      OBVIOUS
    <3>2. w \in TxType /\ w.pc = "try"
      BY Zenon, <3>1, AfterWaitType
    <3>3. [w EXCEPT !.need = 0] \in TxType /\ [w EXCEPT !.need = 0].pc = "try"
      BY Zenon, <1>2, <3>2 DEF TxType
    <3> QED
      BY Zenon, <2>3, <3>1, <3>3 DEF InTxg
  <2> QED
    BY Zenon, <1>3, <2>1, <2>2, <2>3 DEF WaitDirty, WaitTxg, WaitDnode
<1> QED
  BY Zenon, <1>1, <1>2, <1>4, OutMoves

LEMMA WaitBranchMoves ==
    ASSUME TypeInv, PipeInv, NEW t \in Txs, WaitBranch(t)
    PROVE  Moves(t)
<1>1. /\ tx[t].pc = "wait"
      /\ UNCHANGED pipe /\ UNCHANGED dn_assigned_txg /\ UNCHANGED dn_tx_holds
  BY Zenon DEF WaitBranch, At, dnvars
<1>2. tx[t].pc \notin InTxg
  BY SMT, <1>1 DEF InTxg
<1>3. tx[t] \in TxType /\ tx[t].lasttried \in Nat
  BY Zenon, TxTypes DEF TxType
<1>4. synced + 1 \in Nat /\ tx[t].lasttried + 1 \in Nat
  BY SMT, <1>3 DEF TypeInv
<1>5. ASSUME NEW n \in Nat, NEW p \in Places \ InTxg,
             tx' = [tx EXCEPT ![t].target = n, ![t].pc = p] \/ tx' = [tx EXCEPT ![t].pc = p]
      PROVE  \E y \in TxType : y.pc \notin InTxg /\ tx' = [tx EXCEPT ![t] = y]
  <2>1. /\ [tx[t] EXCEPT !.target = n, !.pc = p] \in TxType
        /\ [tx[t] EXCEPT !.target = n, !.pc = p].pc = p
        /\ [tx[t] EXCEPT !.pc = p] \in TxType /\ [tx[t] EXCEPT !.pc = p].pc = p
    BY Zenon, <1>3 DEF TxType
  <2> QED
    BY Zenon, <1>5, <2>1
<1>6. "waitsynced" \in Places \ InTxg /\ "waitdnode" \in Places \ InTxg
      /\ "waitopen" \in Places \ InTxg
  BY Zenon DEF Places, InTxg
<1>7. \E y \in TxType : y.pc \notin InTxg /\ tx' = [tx EXCEPT ![t] = y]
  <2>1. CASE suspended \/ tx[t].lasttried = 0
    BY Zenon, <1>4, <1>5, <1>6, <2>1 DEF WaitBranch
  <2>2. CASE ~(suspended \/ tx[t].lasttried = 0)
    BY Zenon, <1>4, <1>5, <1>6, <2>2 DEF WaitBranch
  <2> QED
    BY Zenon, <2>1, <2>2
<1> QED
  BY Zenon, <1>1, <1>2, <1>7, OutMoves

LEMMA DestroyType ==
    ASSUME TypeInv, NEW t \in Txs, Destroy(t)
    PROVE  \E y \in TxType : y.pc \in {"done", "try"} /\ tx' = [tx EXCEPT ![t] = y]
<1>1. tx[t].ops \in Nat
  BY Zenon, TxTypes DEF TxType
<1>2. tx[t].ops + 1 \in Nat /\ 0 \in Nat /\ 1 \in Nat
  BY SMT, <1>1
<1>3. NewTx \in TxType
  BY Zenon, <1>2 DEF NewTx, TxType, Places
<1>4. PICK p : p = IF tx[t].ops + 1 = budget.left.ops THEN "done" ELSE "try"
  OBVIOUS
<1>5. p \in {"done", "try"} /\ p \in Places
  BY Zenon, <1>4 DEF Places
<1>6. /\ [NewTx EXCEPT !.ops = tx[t].ops + 1, !.pc = p] \in TxType
      /\ [NewTx EXCEPT !.ops = tx[t].ops + 1, !.pc = p].pc = p
  BY Zenon, <1>2, <1>3, <1>5 DEF TxType
<1>7. tx' = [tx EXCEPT ![t] = [NewTx EXCEPT !.ops = tx[t].ops + 1, !.pc = p]]
  BY Zenon, <1>4 DEF Destroy
<1> QED
  BY Zenon, <1>5, <1>6, <1>7

LEMMA AbortMoves ==
    ASSUME TypeInv, PipeInv, NEW t \in Txs, Abort(t)
    PROVE  Moves(t)
<1>1. /\ tx[t].pc = "abort"
      /\ UNCHANGED pipe /\ UNCHANGED dn_assigned_txg /\ UNCHANGED dn_tx_holds
  BY Zenon DEF Abort, At, dnvars
<1>2. \E y \in TxType : y.pc \notin InTxg /\ tx' = [tx EXCEPT ![t] = y]
  BY Zenon, DestroyType DEF Abort, InTxg
<1>3. tx[t].pc \notin InTxg
  BY Zenon, <1>1 DEF InTxg
<1> QED
  BY Zenon, <1>1, <1>2, <1>3, OutMoves

(* Leaving the txg, every hold given back.                                 *)
LEMMA LeaveMoves ==
    ASSUME TypeInv, PipeInv, NEW t \in Txs, NEW y \in TxType, y.pc \notin InTxg,
           Taken(tx[t], Len(Holds[t])) = {}, tx' = [tx EXCEPT ![t] = y], Txg!Leave(t),
           UNCHANGED dn_assigned_txg, UNCHANGED dn_tx_holds
    PROVE  Moves(t)
<1>1. Fits(t, y, 0)
  BY Zenon DEF Fits, InTxg
<1>2. Goes(t, y, 0)
  <2>1. tx_txg' = [tx_txg EXCEPT ![t] = 0] /\ open' = open /\ synced' = synced
    BY Zenon DEF Txg!Leave
  <2>2. 0 \in Nat
    BY SMT
  <2> QED
    BY Zenon, <1>1, <2>1, <2>2 DEF Goes
<1>3. Keeps(t, y, 0)
  BY Zenon, TakenIs DEF Keeps
<1> QED
  BY Zenon, <1>2, <1>3 DEF Moves

LEMMA CommittedMoves ==
    ASSUME TypeInv, PipeInv, NEW t \in Txs, Committed(t)
    PROVE  Moves(t)
<1>1. /\ tx[t].pc = "commit" /\ tx[t].i > Len(Holds[t]) /\ Txg!Leave(t) /\ Destroy(t)
      /\ UNCHANGED dn_assigned_txg /\ UNCHANGED dn_tx_holds
  BY Zenon DEF Committed, At, dnvars
<1>2. Taken(tx[t], Len(Holds[t])) = tx[t].i .. Len(Holds[t])
  BY Zenon, <1>1, TakenIs
<1>3. Taken(tx[t], Len(Holds[t])) = {}
  BY SMT, <1>1, <1>2, TxTypes
<1>4. PICK y \in TxType : y.pc \in {"done", "try"} /\ tx' = [tx EXCEPT ![t] = y]
  BY Zenon, <1>1, DestroyType
<1>5. y.pc \notin InTxg
  BY Zenon, <1>4 DEF InTxg
<1> QED
  BY Zenon, <1>1, <1>3, <1>4, <1>5, LeaveMoves

LEMMA UnassignedMoves ==
    ASSUME TypeInv, PipeInv, NEW t \in Txs, Unassigned(t)
    PROVE  Moves(t)
<1>1. /\ tx[t].pc = "unassign" /\ tx[t].i > UnassignEnd(t) /\ Txg!Leave(t)
      /\ UNCHANGED dn_assigned_txg /\ UNCHANGED dn_tx_holds
  BY Zenon DEF Unassigned, At, dnvars
<1>2. Taken(tx[t], Len(Holds[t])) = tx[t].i .. UnassignEnd(t)
  BY Zenon, <1>1, TakenIs DEF UnassignEnd
<1>3. Taken(tx[t], Len(Holds[t])) = {}
  <2>1. UnassignEnd(t) \in Int
    BY SMT, TxTypes DEF UnassignEnd
  <2> QED
    BY SMT, <1>1, <1>2, <2>1, TxTypes
<1>4. PICK p : p = IF tx[t].err = "ERESTART" THEN "wait" ELSE "abort"
  OBVIOUS
<1>5. p \in Places /\ p \notin InTxg
  BY Zenon, <1>4 DEF Places, InTxg
<1>6. PICK y : y = [tx[t] EXCEPT !.lasttried = tx_txg[t], !.err = "ok", !.pc = p]
  OBVIOUS
<1>7. y \in TxType /\ y.pc = p
  BY Zenon, <1>5, <1>6, TxTypes DEF TxType
<1>8. tx' = [tx EXCEPT ![t] = y]
  BY Zenon, <1>4, <1>6 DEF Unassigned
<1> QED
  BY Zenon, <1>1, <1>3, <1>5, <1>7, <1>8, LeaveMoves

LEMMA TryMoves ==
    ASSUME TypeInv, PipeInv, NEW t \in Txs, TryAssign(t)
    PROVE  Moves(t)
<1>1. /\ tx[t].pc = "try" /\ tx[t].pc \notin InTxg
      /\ dn_assigned_txg' = dn_assigned_txg /\ dn_tx_holds' = dn_tx_holds
  BY Zenon DEF TryAssign, At, dnvars, InTxg
<1>2. ASSUME NEW p \in {"wait", "abort"}, tx' = [tx EXCEPT ![t].pc = p], UNCHANGED pipe
      PROVE  Moves(t)
  <2>1. PICK y : y = [tx[t] EXCEPT !.pc = p]
    BY Zenon
  <2>2. y \in TxType /\ y.pc \notin InTxg
    BY Zenon, <2>1, TxTypes DEF TxType, Places, InTxg
  <2>3. tx' = [tx EXCEPT ![t] = y]
    BY Zenon, <1>2, <2>1
  <2> QED
    BY Zenon, <1>1, <1>2, <2>2, <2>3, OutMoves
<1>3. ASSUME tx' = [tx EXCEPT ![t].wait_dirty = TRUE, ![t].pc = "wait"], UNCHANGED pipe
      PROVE  Moves(t)
  <2>1. PICK y : y = [tx[t] EXCEPT !.wait_dirty = TRUE, !.pc = "wait"]
    OBVIOUS
  <2>2. y \in TxType /\ y.pc \notin InTxg
    BY Zenon, <2>1, TxTypes DEF TxType, Places, InTxg
  <2>3. tx' = [tx EXCEPT ![t] = y]
    BY Zenon, <1>3, <2>1
  <2> QED
    BY Zenon, <1>1, <1>3, <2>2, <2>3, OutMoves
<1>4. ASSUME Txg!Join(t), tx' = [tx EXCEPT ![t].need = 0, ![t].i = 1, ![t].pc = "hold"]
      PROVE  Moves(t)
  <2>1. PICK y : y = [tx[t] EXCEPT !.need = 0, !.i = 1, !.pc = "hold"]
    OBVIOUS
  <2>2. 0 \in Nat /\ 1 \in Nat
    BY SMT
  <2>3. y \in TxType /\ y.pc = "hold" /\ y.i = 1 /\ y.need = 0
    BY Zenon, <2>1, <2>2, TxTypes DEF TxType, Places, InTxg
  <2>4. tx' = [tx EXCEPT ![t] = y]
    BY Zenon, <1>4, <2>1
  <2>5. open # 0 /\ 1 \in 1 .. (Len(Holds[t]) + 1)
    BY SMT, TxTypes DEF PipeInv
  <2>6. Fits(t, y, open)
    BY Zenon, <2>3, <2>5 DEF Fits, InTxg, PipeInv
  <2>7. tx_txg' = [tx_txg EXCEPT ![t] = open] /\ open' = open /\ synced' = synced
    BY Zenon, <1>4 DEF Txg!Join
  <2>8. Goes(t, y, open)
    BY Zenon, <2>3, <2>4, <2>6, <2>7, TxTypes DEF Goes
  <2>9. Taken(y, Len(Holds[t])) = {} /\ Taken(tx[t], Len(Holds[t])) = {}
    <3>1. Taken(y, Len(Holds[t])) = 1 .. (y.i - 1)
      BY Zenon, <2>3, TakenIs
    <3>2. 1 .. (y.i - 1) = {}
      BY SMT, <2>3
    <3> QED
      BY Zenon, <1>1, <3>1, <3>2, TakenIs
  <2>10. Keeps(t, y, open)
    BY Zenon, <1>1, <2>9 DEF Keeps
  <2> QED
    BY Zenon, <2>8, <2>10 DEF Moves
<1>5. ASSUME NEW p \in {"wait"} \cup IF How[t] = "WAIT" THEN {} ELSE {"abort"}
      PROVE  p \in {"wait", "abort"}
  BY Zenon, <1>5
<1> QED
  BY Zenon, <1>2, <1>3, <1>4, <1>5 DEF TryAssign

(* A step inside the txg.                                                  *)
LEMMA InMoves ==
    ASSUME TypeInv, PipeInv, NEW t \in Txs, NEW y \in TxType, tx' = [tx EXCEPT ![t] = y], UNCHANGED pipe,
           Fits(t, y, tx_txg[t])
    PROVE  Goes(t, y, tx_txg[t])
BY Zenon, TxTypes DEF Goes, pipe

(* In which txg it is, the place changing within it.                       *)
LEMMA FitsOn ==
    ASSUME PipeInv, NEW t \in Txs, tx[t].pc \in InTxg, NEW y, y.pc \in InTxg,
           y.pc = "hold" => tx[t].pc = "hold" /\ y.i \in 1 .. (Len(Holds[t]) + 1) /\ y.need = 0,
           y.pc = "unassign" => y.i >= 1 /\ y.need <= Len(Holds[t]),
           y.pc = "dirty" => y.i = 1, y.pc = "commit" => y.i >= 1
    PROVE  Fits(t, y, tx_txg[t])
<1>1. Fits(t, tx[t], tx_txg[t])
  BY Zenon DEF PipeInv
<1> QED
  BY Zenon, <1>1 DEF Fits

LEMMA DirtyMoves ==
    ASSUME TypeInv, PipeInv, NEW t \in Txs, Dirty(t)
    PROVE  Moves(t)
<1>1. /\ tx[t].pc = "dirty" /\ tx[t].pc \in InTxg /\ UNCHANGED pipe
      /\ dn_assigned_txg' = dn_assigned_txg /\ dn_tx_holds' = dn_tx_holds
      /\ tx' = [tx EXCEPT ![t].pc = "commit"]
  BY Zenon DEF Dirty, At, dnvars, InTxg
<1>2. tx[t].i = 1
  BY Zenon, <1>1 DEF PipeInv, Fits
<1>3. PICK y : y = [tx[t] EXCEPT !.pc = "commit"]
  BY Zenon
<1>4. y \in TxType /\ y.pc = "commit" /\ y.i = tx[t].i
  BY Zenon, <1>3, TxTypes DEF TxType, Places, InTxg
<1>5. tx' = [tx EXCEPT ![t] = y]
  BY Zenon, <1>1, <1>3
<1>6. y.i >= 1 /\ y.pc \in InTxg
  <2>1. y.i >= 1
    BY SMT, <1>2, <1>4
  <2> QED
    BY Zenon, <1>4, <2>1 DEF InTxg
<1>7. Fits(t, y, tx_txg[t])
  <2>1. ~(y.pc = "hold") /\ ~(y.pc = "unassign") /\ ~(y.pc = "dirty")
    BY Zenon, <1>4
  <2> QED
    BY Zenon, <1>1, <1>6, <2>1, FitsOn
<1>8. Goes(t, y, tx_txg[t])
  BY Zenon, <1>1, <1>4, <1>5, <1>7, InMoves
<1>9. Taken(y, Len(Holds[t])) = y.i .. Len(Holds[t])
      /\ Taken(tx[t], Len(Holds[t])) = 1 .. Len(Holds[t])
  BY Zenon, <1>1, <1>4, TakenIs
<1>10. Keeps(t, y, tx_txg[t])
  BY Zenon, <1>1, <1>2, <1>4, <1>9 DEF Keeps
<1> QED
  BY Zenon, <1>8, <1>10 DEF Moves

LEMMA ReserveMoves ==
    ASSUME TypeInv, PipeInv, NEW t \in Txs, Reserve(t)
    PROVE  Moves(t)
<1>1. /\ tx[t].pc = "hold" /\ tx[t].pc \in InTxg /\ UNCHANGED pipe /\ tx[t].i > Len(Holds[t])
      /\ dn_assigned_txg' = dn_assigned_txg /\ dn_tx_holds' = dn_tx_holds
  BY Zenon DEF Reserve, At, dnvars, InTxg
<1>2. tx[t].need = 0 /\ tx[t].i \in 1 .. (Len(Holds[t]) + 1)
  BY Zenon, <1>1 DEF PipeInv, Fits
<1>3. 1 \in Nat /\ 1 >= 1 /\ 0 <= Len(Holds[t]) /\ tx[t].i - 1 = Len(Holds[t])
  BY SMT, <1>1, <1>2, TxTypes
<1>4. Taken(tx[t], Len(Holds[t])) = 1 .. Len(Holds[t])
  <2>1. Taken(tx[t], Len(Holds[t])) = 1 .. (tx[t].i - 1)
    BY Zenon, <1>1, TakenIs
  <2> QED
    BY Zenon, <1>3, <2>1
<1>5. ASSUME tx' = [tx EXCEPT ![t].i = 1, ![t].pc = "dirty"] PROVE Moves(t)
  <2>1. PICK y : y = [tx[t] EXCEPT !.i = 1, !.pc = "dirty"]
    OBVIOUS
  <2>2. y \in TxType /\ y.pc = "dirty" /\ y.i = 1
    BY Zenon, <1>3, <2>1, TxTypes DEF TxType, Places, InTxg
  <2>3. tx' = [tx EXCEPT ![t] = y]
    BY Zenon, <1>5, <2>1
  <2>4. ~(y.pc = "hold") /\ ~(y.pc = "unassign") /\ ~(y.pc = "commit") /\ y.pc \in InTxg
    BY Zenon, <2>2 DEF InTxg
  <2>5. Fits(t, y, tx_txg[t])
    BY Zenon, <1>1, <2>2, <2>4, FitsOn
  <2>6. Goes(t, y, tx_txg[t])
    BY Zenon, <1>1, <2>2, <2>3, <2>5, InMoves
  <2>7. Taken(y, Len(Holds[t])) = 1 .. Len(Holds[t])
    BY Zenon, <2>2, TakenIs
  <2>8. Keeps(t, y, tx_txg[t])
    BY Zenon, <1>1, <1>4, <2>7 DEF Keeps
  <2> QED
    BY Zenon, <2>6, <2>8 DEF Moves
<1>6. ASSUME NEW e \in {"ERESTART", "EDQUOT"},
             tx' = [tx EXCEPT ![t].i = 1, ![t].err = e, ![t].pc = "unassign"]
      PROVE  Moves(t)
  <2>1. PICK y : y = [tx[t] EXCEPT !.i = 1, !.err = e, !.pc = "unassign"]
    OBVIOUS
  <2>2. y \in TxType /\ y.pc = "unassign" /\ y.i = 1 /\ y.need = tx[t].need
    BY Zenon, <1>3, <2>1, TxTypes DEF TxType, Places, InTxg
  <2>3. tx' = [tx EXCEPT ![t] = y]
    BY Zenon, <1>6, <2>1
  <2>4. ~(y.pc = "hold") /\ ~(y.pc = "dirty") /\ ~(y.pc = "commit") /\ y.pc \in InTxg
    BY Zenon, <2>2 DEF InTxg
  <2>5. y.need = 0 /\ y.i >= 1 /\ y.need <= Len(Holds[t])
    BY Zenon, <1>2, <1>3, <2>2
  <2>6. Fits(t, y, tx_txg[t])
    BY Zenon, <1>1, <2>2, <2>4, <2>5, FitsOn
  <2>7. Goes(t, y, tx_txg[t])
    BY Zenon, <1>1, <2>2, <2>3, <2>6, InMoves
  <2>8. Taken(y, Len(Holds[t])) = 1 .. Len(Holds[t])
    <3>1. Taken(y, Len(Holds[t])) = y.i .. (IF y.need = 0 THEN Len(Holds[t]) ELSE y.need - 1)
      BY Zenon, <2>2, TakenIs
    <3> QED
      BY Zenon, <2>2, <2>5, <3>1
  <2>9. Keeps(t, y, tx_txg[t])
    BY Zenon, <1>1, <1>4, <2>8 DEF Keeps
  <2> QED
    BY Zenon, <2>7, <2>9 DEF Moves
<1>7. ASSUME NEW fail \in {<<"erestart", "ERESTART">>, <<"edquot", "EDQUOT">>}
      PROVE  fail[2] \in {"ERESTART", "EDQUOT"}
  BY SMT, <1>7
<1> QED
  BY Zenon, <1>5, <1>6, <1>7 DEF Reserve

LEMMA HoldMoves ==
    ASSUME TypeInv, PipeInv, NEW t \in Txs, HoldDnode(t)
    PROVE  Moves(t)
<1>1. tx[t].pc = "hold" /\ tx[t].pc \in InTxg /\ UNCHANGED pipe /\ tx[t].i <= Len(Holds[t])
  BY Zenon DEF HoldDnode, At, InTxg
<1>2. /\ tx[t].need = 0 /\ tx[t].i \in 1 .. (Len(Holds[t]) + 1)
      /\ tx_txg[t] = open /\ tx_txg[t] # 0
  BY Zenon, <1>1 DEF PipeInv, Fits
<1>3. 1 \in Nat /\ 1 >= 1 /\ tx[t].i \in 1 .. Len(Holds[t]) /\ tx[t].i # 0
  BY SMT, <1>1, <1>2, TxTypes
<1>4. Taken(tx[t], Len(Holds[t])) = 1 .. (tx[t].i - 1)
  BY Zenon, <1>1, TakenIs
<1>5. CASE Conflict(t, Hold(t))
  <2>1. PICK y : y = [tx[t] EXCEPT !.need = tx[t].i, !.err = "ERESTART", !.i = 1, !.pc = "unassign"]
    OBVIOUS
  <2>2. y \in TxType /\ y.pc = "unassign" /\ y.i = 1 /\ y.need = tx[t].i
    BY ZenonT(40), <1>3, <2>1, TxTypes DEF TxType, Places, InTxg
  <2>3. /\ tx' = [tx EXCEPT ![t] = y]
        /\ dn_assigned_txg' = dn_assigned_txg /\ dn_tx_holds' = dn_tx_holds
    BY Zenon, <1>5, <2>1 DEF HoldDnode
  <2>4. ~(y.pc = "hold") /\ ~(y.pc = "dirty") /\ ~(y.pc = "commit") /\ y.pc \in InTxg
    BY Zenon, <2>2 DEF InTxg
  <2>5. y.need # 0 /\ y.i >= 1 /\ y.need <= Len(Holds[t])
    BY Zenon, <1>1, <1>3, <2>2
  <2>6. Fits(t, y, tx_txg[t])
    BY Zenon, <1>1, <2>2, <2>4, <2>5, FitsOn
  <2>7. Goes(t, y, tx_txg[t])
    BY Zenon, <1>1, <2>2, <2>3, <2>6, InMoves
  <2>8. Taken(y, Len(Holds[t])) = 1 .. (tx[t].i - 1)
    <3>1. Taken(y, Len(Holds[t])) = y.i .. (IF y.need = 0 THEN Len(Holds[t]) ELSE y.need - 1)
      BY Zenon, <2>2, TakenIs
    <3> QED
      BY Zenon, <2>2, <2>5, <3>1
  <2>9. Keeps(t, y, tx_txg[t])
    BY Zenon, <1>4, <2>3, <2>8 DEF Keeps
  <2> QED
    BY Zenon, <2>7, <2>9 DEF Moves
<1>6. CASE ~Conflict(t, Hold(t))
  <2>1. PICK y : y = [tx[t] EXCEPT !.i = tx[t].i + 1]
    BY Zenon
  <2>2. tx[t].i + 1 \in Nat /\ tx[t].i + 1 \in 1 .. (Len(Holds[t]) + 1)
    BY SMT, <1>3, TxTypes
  <2>3. y \in TxType /\ y.pc = "hold" /\ y.i = tx[t].i + 1 /\ y.need = 0
    BY Zenon, <1>1, <1>2, <2>1, <2>2, TxTypes DEF TxType
  <2>4. /\ tx' = [tx EXCEPT ![t] = y]
        /\ dn_assigned_txg' = [dn_assigned_txg EXCEPT
                             ![Hold(t)] = IF dn_assigned_txg[Hold(t)] = 0 THEN tx_txg[t]
                                          ELSE dn_assigned_txg[Hold(t)]]
        /\ dn_tx_holds' = [dn_tx_holds EXCEPT ![Hold(t)] = dn_tx_holds[Hold(t)] + 1]
    BY Zenon, <1>6, <2>1 DEF HoldDnode
  <2>5. ~(y.pc = "unassign") /\ ~(y.pc = "dirty") /\ ~(y.pc = "commit") /\ y.pc \in InTxg
        /\ y.i \in 1 .. (Len(Holds[t]) + 1)
    BY Zenon, <2>2, <2>3 DEF InTxg
  <2>6. Fits(t, y, tx_txg[t])
    BY Zenon, <1>1, <2>3, <2>5, FitsOn
  <2>7. Goes(t, y, tx_txg[t])
    BY Zenon, <1>1, <2>3, <2>4, <2>6, InMoves
  <2>8. Taken(y, Len(Holds[t])) = 1 .. (y.i - 1)
    BY Zenon, <2>3, TakenIs
  <2>9. /\ 1 .. (y.i - 1) = (1 .. (tx[t].i - 1)) \cup {tx[t].i}
        /\ tx[t].i \notin 1 .. (tx[t].i - 1)
    BY SMT, <1>3, <2>3, TxTypes
  <2>10. Takes(t, y, tx_txg[t])
    BY Zenon, <1>2, <1>3, <1>4, <1>6, <2>4, <2>8, <2>9 DEF Takes, Conflict
  <2> QED
    BY Zenon, <2>7, <2>10 DEF Moves
<1> QED
  BY Zenon, <1>5, <1>6

LEMMA DropMoves ==
    ASSUME TypeInv, PipeInv, NEW t \in Txs, DropHold(t)
    PROVE  Moves(t)
<1> DEFINE E == IF tx[t].pc = "unassign" THEN UnassignEnd(t) ELSE Len(Holds[t])
<1>1. /\ tx[t].pc \in {"unassign", "commit"} /\ tx[t].i <= E /\ UNCHANGED pipe
      /\ DropDnode(Hold(t)) /\ tx' = [tx EXCEPT ![t].i = tx[t].i + 1]
  BY Zenon DEF DropHold, At
<1>2. tx[t].i >= 1 /\ tx[t].pc \in InTxg /\ (tx[t].pc = "unassign" => tx[t].need <= Len(Holds[t]))
  BY Zenon, <1>1 DEF PipeInv, Fits, InTxg
<1>3. E \in Int /\ E <= Len(Holds[t])
  <2>1. CASE tx[t].pc = "unassign"
    BY SMT, <1>2, <2>1, TxTypes DEF UnassignEnd
  <2>2. CASE tx[t].pc # "unassign"
    BY SMT, <2>2, TxTypes
  <2> QED
    BY Zenon, <2>1, <2>2
<1>4. Taken(tx[t], Len(Holds[t])) = tx[t].i .. E
  BY Zenon, <1>1, TakenIs DEF UnassignEnd
<1>5. PICK y : y = [tx[t] EXCEPT !.i = tx[t].i + 1]
  BY Zenon
<1>6. tx[t].i + 1 \in Nat /\ tx[t].i + 1 >= 1 /\ tx[t].i \in 1 .. Len(Holds[t]) /\ tx[t].i \in tx[t].i .. E
  <2> HIDE DEF E
  <2> QED
    BY SMT, <1>1, <1>2, <1>3, TxTypes
<1>7. y \in TxType /\ y.pc = tx[t].pc /\ y.i = tx[t].i + 1 /\ y.need = tx[t].need
  BY Zenon, <1>5, <1>6, TxTypes DEF TxType
<1>8. tx' = [tx EXCEPT ![t] = y]
  BY Zenon, <1>1, <1>5
<1>9. Fits(t, y, tx_txg[t])
  <2>1. ~(y.pc = "hold") /\ ~(y.pc = "dirty") /\ y.pc \in InTxg /\ y.i >= 1
        /\ (y.pc = "unassign" => y.need <= Len(Holds[t]))
    BY Zenon, <1>1, <1>2, <1>6, <1>7
  <2> QED
    BY Zenon, <1>2, <2>1, FitsOn
<1>10. Goes(t, y, tx_txg[t])
  BY Zenon, <1>1, <1>7, <1>8, <1>9, InMoves
<1>11. Taken(y, Len(Holds[t])) = y.i .. E
  <2>1. CASE y.pc = "unassign"
    <3>1. Taken(y, Len(Holds[t])) = y.i .. (IF y.need = 0 THEN Len(Holds[t]) ELSE y.need - 1)
      BY Zenon, <2>1, TakenIs
    <3> QED
      BY Zenon, <1>7, <2>1, <3>1 DEF UnassignEnd
  <2>2. CASE y.pc = "commit"
    <3>1. Taken(y, Len(Holds[t])) = y.i .. Len(Holds[t])
      BY Zenon, <2>2, TakenIs
    <3>2. ~(tx[t].pc = "unassign")
      BY Zenon, <1>7, <2>2
    <3> QED
      BY Zenon, <3>1, <3>2
  <2> QED
    BY Zenon, <1>1, <1>7, <2>1, <2>2
<1>12. y.i .. E = (tx[t].i .. E) \ {tx[t].i}
  <2> HIDE DEF E
  <2> QED
    BY SMT, <1>3, <1>7, TxTypes
<1>13. Drops(t, y, tx_txg[t])
  BY Zenon, <1>1, <1>4, <1>6, <1>11, <1>12 DEF Drops
<1> QED
  BY Zenon, <1>10, <1>13 DEF Moves

LEMMA TxMoves ==
    ASSUME TypeInv, PipeInv, NEW t \in Txs, TxNext(t)
    PROVE  Moves(t)
BY Zenon, TryMoves, HoldMoves, ReserveMoves, DropMoves, UnassignedMoves, WaitMoves, WaitBranchMoves,
   DirtyMoves, CommittedMoves, AbortMoves DEF TxNext

-----------------------------------------------------------------------------
(* The pipeline                                                            *)

LEMMA GoesPipe ==
    ASSUME TypeInv, PipeInv, NEW t \in Txs, NEW y, NEW m, Goes(t, y, m)
    PROVE  TypeInv' /\ PipeInv'
<1>1. TypeInv'
  BY Zenon DEF Goes, TypeInv
<1>2. ASSUME NEW q \in Txs PROVE Fits(q, tx[q], tx_txg[q])'
  <2>1. PICK x, k : x = tx'[q] /\ k = tx_txg'[q]
    OBVIOUS
  <2>2. Fits(q, x, k)
    <3>1. CASE q = t
      <4>1. x = y /\ k = m
        BY Zenon, <2>1, <3>1 DEF Goes, TypeInv
      <4> QED
        BY Zenon, <3>1, <4>1 DEF Goes
    <3>2. CASE q # t
      <4>1. x = tx[q] /\ k = tx_txg[q]
        BY Zenon, <2>1, <3>2 DEF Goes, TypeInv
      <4> QED
        BY Zenon, <4>1 DEF PipeInv
    <3> QED
      BY Zenon, <3>1, <3>2
  <2> QED
    BY Zenon, <2>1, <2>2 DEF Goes, Fits
<1> QED
  BY Zenon, <1>1, <1>2 DEF PipeInv, Goes

LEMMA ClosePipe ==
    ASSUME TypeInv, PipeInv, Close
    PROVE  TypeInv' /\ PipeInv'
<1>1. /\ open - synced < TXG_SIZE - 1 /\ open' = open + 1 /\ synced' = synced
      /\ tx_txg' = tx_txg /\ tx' = tx
      /\ \A t \in Txs : tx_txg[t] \in {0, open} /\ tx[t].pc # "hold"
  BY Zenon DEF Close, Txg!Close, At
<1>2. open' \in Nat /\ synced < open + 1 /\ open + 1 <= synced + 3 /\ (open + 1) - 1 = open
  BY SMT, <1>1 DEF TypeInv, PipeInv, TXG_SIZE
<1>3. TypeInv'
  BY Zenon, <1>1, <1>2 DEF TypeInv
<1>4. ASSUME NEW q \in Txs PROVE Fits(q, tx[q], tx_txg[q])'
  <2>1. Fits(q, tx[q], tx_txg[q]) /\ tx_txg[q] \in {0, open} /\ tx[q].pc # "hold"
    BY Zenon, <1>1 DEF PipeInv
  <2> QED
    BY Zenon, <1>1, <1>2, <2>1 DEF Fits
<1> QED
  BY Zenon, <1>1, <1>2, <1>3, <1>4 DEF PipeInv

LEMMA SyncPipe ==
    ASSUME TypeInv, PipeInv, SyncTxg
    PROVE  TypeInv' /\ PipeInv'
<1>1. /\ synced + 1 < open /\ open' = open /\ synced' = synced + 1 /\ tx_txg' = tx_txg /\ tx' = tx
      /\ \A t \in Txs : tx_txg[t] # synced + 1
  BY Zenon DEF SyncTxg, Txg!MakeDurable
<1>2. synced' \in Nat /\ synced' < open /\ open <= synced' + 3
  BY SMT, <1>1 DEF TypeInv, PipeInv
<1>3. TypeInv'
  BY Zenon, <1>1, <1>2 DEF TypeInv
<1>4. ASSUME NEW q \in Txs PROVE Fits(q, tx[q], tx_txg[q])'
  <2>1. Fits(q, tx[q], tx_txg[q]) /\ tx_txg[q] # synced + 1 /\ tx_txg[q] \in Nat
    BY Zenon, <1>1 DEF PipeInv, TypeInv
  <2>2. tx_txg[q] # 0 => synced' < tx_txg[q]
    <3>1. tx_txg[q] # 0 => synced < tx_txg[q]
      BY Zenon, <2>1 DEF Fits
    <3> QED
      BY SMT, <1>1, <2>1, <3>1 DEF TypeInv
  <2> QED
    BY Zenon, <1>1, <2>1, <2>2 DEF Fits
<1> QED
  BY Zenon, <1>1, <1>2, <1>3, <1>4 DEF PipeInv

LEMMA PipeStep ==
    ASSUME TypeInv, PipeInv, [Next]_vars
    PROVE  TypeInv' /\ PipeInv'
<1>1. ASSUME NEW t \in Txs, TxNext(t) PROVE TypeInv' /\ PipeInv'
  BY Zenon, <1>1, TxMoves, GoesPipe DEF Moves
<1>2. CASE UNCHANGED pipe /\ UNCHANGED tx
  <2>1. open' = open /\ synced' = synced /\ tx_txg' = tx_txg /\ tx' = tx
    BY Zenon, <1>2 DEF pipe
  <2> QED
    BY Zenon, <2>1 DEF TypeInv, PipeInv, Fits
<1>3. PhysDone \/ ShoreUp \/ Suspend \/ Resume \/ UNCHANGED vars => UNCHANGED pipe /\ UNCHANGED tx
  BY Zenon DEF PhysDone, ShoreUp, Suspend, Resume, vars
<1> QED
  BY Zenon, <1>1, <1>2, <1>3, ClosePipe, SyncPipe DEF Next

-----------------------------------------------------------------------------
(* The dirty data                                                          *)

LEMMA Slots ==
    ASSUME NEW a \in Nat, NEW b \in Nat
    PROVE  /\ Slot(a) \in 0 .. 3
           /\ (a < b /\ b <= a + 3) => Slot(a) # Slot(b)
BY SMT DEF Slot, TXG_SIZE

(* A slot changing, the total changes with it.                             *)
LEMMA TotalChange ==
    ASSUME NEW f \in [0 .. 3 -> Nat], NEW s \in 0 .. 3, NEW n \in Nat
    PROVE  Total([f EXCEPT ![s] = n]) = Total(f) + (n - f[s])
<1>1. f[0] \in Nat /\ f[1] \in Nat /\ f[2] \in Nat /\ f[3] \in Nat
  BY SMT
<1>2. \A k \in 0 .. 3 : [f EXCEPT ![s] = n][k] = IF k = s THEN n ELSE f[k]
  BY Zenon
<1>3. 0 \in 0 .. 3 /\ 1 \in 0 .. 3 /\ 2 \in 0 .. 3 /\ 3 \in 0 .. 3
      /\ (s = 0 \/ s = 1 \/ s = 2 \/ s = 3)
  BY SMT
<1>4. PICK g : g = [f EXCEPT ![s] = n]
  BY Zenon
<1>5. \A k \in 0 .. 3 : g[k] = IF k = s THEN n ELSE f[k]
  BY Zenon, <1>2, <1>4
<1>6. Total(g) = Total(f) + (n - f[s])
  <2>1. CASE s = 0
    BY SMT, <1>1, <1>3, <1>5, <2>1 DEF Total
  <2>2. CASE s = 1
    BY SMT, <1>1, <1>3, <1>5, <2>2 DEF Total
  <2>3. CASE s = 2
    BY SMT, <1>1, <1>3, <1>5, <2>3 DEF Total
  <2>4. CASE s = 3
    BY SMT, <1>1, <1>3, <1>5, <2>4 DEF Total
  <2> QED
    BY Zenon, <1>3, <2>1, <2>2, <2>3, <2>4
<1> QED
  BY Zenon, <1>4, <1>6

LEMMA MinTwo ==
    ASSUME NEW a \in Nat, NEW b \in Nat
    PROVE  Min({a, b}) \in Nat /\ Min({a, b}) <= b
<1>1. \E x \in {a, b} : \A y \in {a, b} : x <= y
  BY SMT
<1>2. Min({a, b}) \in {a, b} /\ \A y \in {a, b} : Min({a, b}) <= y
  BY Zenon, <1>1 DEF Min
<1> QED
  BY Zenon, <1>2

LEMMA DirtyChange ==
    ASSUME DirtyInv, TypeInv, NEW txg \in (synced + 1) .. open, NEW n \in Nat,
           dp_dirty_pertxg' = [dp_dirty_pertxg EXCEPT ![Slot(txg)] = n],
           dp_dirty_total' = dp_dirty_total + (n - dp_dirty_pertxg[Slot(txg)]),
           UNCHANGED pipe
    PROVE  DirtyInv'
<1>1. PICK s : s = Slot(txg)
  OBVIOUS
<1>2. txg \in Nat /\ s \in 0 .. 3
  <2>1. txg \in Nat
    BY SMT DEF TypeInv
  <2> QED
    BY Zenon, <1>1, <2>1, Slots
<1>3. dp_dirty_pertxg' = [dp_dirty_pertxg EXCEPT ![s] = n] /\ open' = open /\ synced' = synced
  BY Zenon, <1>1 DEF pipe
<1>4. dp_dirty_pertxg' \in [0 .. 3 -> Nat]
  BY Zenon, <1>2, <1>3 DEF DirtyInv
<1>5. dp_dirty_total' = Total(dp_dirty_pertxg')
  <2>1. Total(dp_dirty_pertxg') = Total(dp_dirty_pertxg) + (n - dp_dirty_pertxg[s])
    BY Zenon, <1>2, <1>3, TotalChange DEF DirtyInv
  <2> QED
    BY Zenon, <1>1, <2>1 DEF DirtyInv
<1>6. ASSUME NEW k \in 0 .. 3, \A x \in (synced + 1) .. open : k # Slot(x) PROVE dp_dirty_pertxg'[k] = 0
  <2>1. k # s /\ dp_dirty_pertxg[k] = 0
    BY Zenon, <1>1, <1>6 DEF DirtyInv
  <2> QED
    BY Zenon, <1>3, <2>1 DEF DirtyInv
<1> QED
  BY Zenon, <1>3, <1>4, <1>5, <1>6 DEF DirtyInv, Total, Slot

LEMMA DirtyDirty ==
    ASSUME TypeInv, PipeInv, DirtyInv, NEW t \in Txs, Dirty(t)
    PROVE  DirtyInv'
<1>1. tx[t].pc = "dirty" /\ UNCHANGED pipe
  BY Zenon DEF Dirty, At
<1>2. PICK space \in Sizes :
          IF space = 0 THEN UNCHANGED dpvars
          ELSE /\ dp_dirty_pertxg' = [dp_dirty_pertxg EXCEPT
                     ![Slot(tx_txg[t])] = dp_dirty_pertxg[Slot(tx_txg[t])] + space]
               /\ DirtyDelta(space)
  BY Zenon DEF Dirty
<1>3. CASE space = 0
  <2>1. dp_dirty_pertxg' = dp_dirty_pertxg /\ dp_dirty_total' = dp_dirty_total /\ open' = open
        /\ synced' = synced
    BY Zenon, <1>1, <1>2, <1>3 DEF dpvars, pipe
  <2> QED
    BY Zenon, <2>1 DEF DirtyInv
<1>4. CASE space # 0
  <2>1. /\ dp_dirty_pertxg' = [dp_dirty_pertxg EXCEPT
                     ![Slot(tx_txg[t])] = dp_dirty_pertxg[Slot(tx_txg[t])] + space]
        /\ dp_dirty_total' = dp_dirty_total + space
    BY Zenon, <1>2, <1>4 DEF DirtyDelta
  <2>2. tx_txg[t] \in {open, open - 1} /\ synced < tx_txg[t] /\ tx_txg[t] \in Nat
    <3>1. tx_txg[t] # 0 /\ tx_txg[t] \in Nat
      BY Zenon, <1>1 DEF PipeInv, Fits, InTxg, TypeInv
    <3> QED
      BY Zenon, <3>1 DEF PipeInv, Fits
  <2>3. tx_txg[t] \in (synced + 1) .. open /\ space \in Nat
    BY SMT, <2>2, BoundsAssumption DEF TypeInv
  <2>4. PICK x : x = dp_dirty_pertxg[Slot(tx_txg[t])]
    OBVIOUS
  <2>5. x \in Nat
    BY Zenon, <2>2, <2>4, Slots DEF DirtyInv
  <2>6. x + space \in Nat /\ space = (x + space) - x
    BY SMT, <2>3, <2>5
  <2>7. /\ dp_dirty_pertxg' = [dp_dirty_pertxg EXCEPT ![Slot(tx_txg[t])] = x + space]
        /\ dp_dirty_total' = dp_dirty_total + ((x + space) - dp_dirty_pertxg[Slot(tx_txg[t])])
    BY Zenon, <2>1, <2>4, <2>6
  <2> QED
    BY Zenon, <1>1, <2>3, <2>6, <2>7, DirtyChange
<1> QED
  BY Zenon, <1>3, <1>4

LEMMA DirtyUndirty ==
    ASSUME TypeInv, PipeInv, DirtyInv, NEW space \in Nat, Undirty(space, synced + 1), UNCHANGED pipe
    PROVE  DirtyInv'
<1>1. synced + 1 \in Nat /\ synced + 1 \in (synced + 1) .. open
  BY SMT DEF TypeInv, PipeInv
<1>2. PICK x : x = dp_dirty_pertxg[Slot(synced + 1)]
  OBVIOUS
<1>3. x \in Nat
  BY Zenon, <1>1, <1>2, Slots DEF DirtyInv
<1>4. PICK n : n = Min({space, x})
  OBVIOUS
<1>5. n \in Nat /\ n <= x
  BY Zenon, <1>3, <1>4, MinTwo
<1>6. x - n \in Nat /\ -n = (x - n) - x
  BY SMT, <1>3, <1>5
<1>7. /\ dp_dirty_pertxg' = [dp_dirty_pertxg EXCEPT ![Slot(synced + 1)] = x - n]
      /\ dp_dirty_total' = dp_dirty_total + (-n)
  BY Zenon, <1>2, <1>4 DEF Undirty, DirtyDelta
<1>8. dp_dirty_total' = dp_dirty_total + ((x - n) - dp_dirty_pertxg[Slot(synced + 1)])
  BY Zenon, <1>2, <1>6, <1>7
<1> QED
  BY Zenon, <1>1, <1>6, <1>7, <1>8, DirtyChange

LEMMA DirtyClose ==
    ASSUME TypeInv, DirtyInv, Close
    PROVE  DirtyInv'
<1>1. /\ open' = open + 1 /\ synced' = synced
      /\ dp_dirty_pertxg' = dp_dirty_pertxg /\ dp_dirty_total' = dp_dirty_total
  BY Zenon DEF Close, Txg!Close, dpvars
<1>2. \A x \in (synced + 1) .. open : x \in (synced + 1) .. (open + 1)
  BY SMT DEF TypeInv
<1>3. ASSUME NEW s \in 0 .. 3, \A x \in (synced + 1) .. (open + 1) : s # Slot(x)
      PROVE  dp_dirty_pertxg[s] = 0
  BY Zenon, <1>2, <1>3 DEF DirtyInv
<1> QED
  BY Zenon, <1>1, <1>3 DEF DirtyInv

LEMMA DirtySync ==
    ASSUME TypeInv, DirtyInv, SyncTxg
    PROVE  DirtyInv'
<1>1. /\ open' = open /\ synced' = synced + 1 /\ dp_dirty_pertxg[Slot(synced + 1)] = 0
      /\ dp_dirty_pertxg' = dp_dirty_pertxg /\ dp_dirty_total' = dp_dirty_total
  BY Zenon DEF SyncTxg, Txg!MakeDurable, dpvars, Written
<1>2. \A x \in (synced + 1) .. open : x = synced + 1 \/ x \in (synced + 1 + 1) .. open
  BY SMT DEF TypeInv
<1>3. ASSUME NEW s \in 0 .. 3, \A x \in (synced + 1 + 1) .. open : s # Slot(x)
      PROVE  dp_dirty_pertxg[s] = 0
  <2>1. CASE s = Slot(synced + 1)
    BY Zenon, <1>1, <2>1
  <2>2. CASE s # Slot(synced + 1)
    BY Zenon, <1>2, <1>3, <2>2 DEF DirtyInv
  <2> QED
    BY Zenon, <2>1, <2>2
<1> QED
  BY Zenon, <1>1, <1>3 DEF DirtyInv

LEMMA DirtyStep ==
    ASSUME TypeInv, PipeInv, DirtyInv, [Next]_vars
    PROVE  DirtyInv'
<1>1. ASSUME NEW t \in Txs, TxNext(t), ~Dirty(t)
      PROVE  dp_dirty_pertxg' = dp_dirty_pertxg /\ dp_dirty_total' = dp_dirty_total
             /\ open' = open /\ synced' = synced
  <2>1. dp_dirty_pertxg' = dp_dirty_pertxg /\ dp_dirty_total' = dp_dirty_total
    BY Zenon, <1>1 DEF TxNext, TryAssign, HoldDnode, Reserve, DropHold, Unassigned, WaitDirty,
       WaitBranch, WaitTxg, WaitDnode, Committed, Abort, dpvars
  <2>2. open' = open /\ synced' = synced
    BY Zenon, <1>1, TxMoves DEF Moves, Goes
  <2> QED
    BY Zenon, <2>1, <2>2
<1>2. CASE Suspend \/ Resume \/ UNCHANGED vars
  <2>1. dp_dirty_pertxg' = dp_dirty_pertxg /\ dp_dirty_total' = dp_dirty_total
        /\ open' = open /\ synced' = synced
    BY Zenon, <1>2 DEF Suspend, Resume, vars, pipe, dpvars
  <2> QED
    BY Zenon, <2>1 DEF DirtyInv
<1>3. CASE \E t \in Txs : TxNext(t) /\ ~Dirty(t)
  BY Zenon, <1>1, <1>3 DEF DirtyInv
<1>4. CASE PhysDone
  <2>1. PICK size \in Sizes : \E space \in 1 .. size : Undirty(space, synced + 1)
    BY Zenon, <1>4 DEF PhysDone
  <2>2. PICK space \in 1 .. size : Undirty(space, synced + 1)
    BY Zenon, <2>1
  <2>3. space \in Nat
    BY SMT, BoundsAssumption
  <2> QED
    BY Zenon, <1>4, <2>2, <2>3, DirtyUndirty DEF PhysDone
<1>5. CASE ShoreUp
  <2>1. synced + 1 \in Nat
    BY SMT DEF TypeInv
  <2>2. dp_dirty_pertxg[Slot(synced + 1)] \in Nat
    BY Zenon, <2>1, Slots DEF DirtyInv
  <2> QED
    BY Zenon, <1>5, <2>2, DirtyUndirty DEF ShoreUp
<1> QED
  BY Zenon, <1>2, <1>3, <1>4, <1>5, DirtyDirty, DirtyClose, DirtySync DEF Next

-----------------------------------------------------------------------------
(* The dnodes' holds                                                       *)

HoldsIn(f, d) ==
    UNION {{q} \X {k \in Taken(f[q], Len(Holds[q])) : Holds[q][k] = d} : q \in Txs}

(* x is thread q's hold k of the dnode d.                                  *)
IsHold(f, d, q, k, x) ==
    q \in Txs /\ k \in Taken(f[q], Len(Holds[q])) /\ Holds[q][k] = d /\ x = <<q, k>>

LEMMA HoldsOfIs == ASSUME NEW d PROVE HoldsOf(d) = HoldsIn(tx, d) /\ HoldsOf(d)' = HoldsIn(tx', d)
<1> DEFINE F(q) == {q} \X {k \in Held(q) : Holds[q][k] = d}
           G(f, q) == {q} \X {k \in Taken(f[q], Len(Holds[q])) : Holds[q][k] = d}
<1>1. ASSUME NEW q \in Txs PROVE F(q) = G(tx, q)
  <2>1. Held(q) = Taken(tx[q], Len(Holds[q]))
    BY Zenon, HeldIs
  <2> QED
    BY Zenon, <2>1
<1>2. ASSUME NEW q \in Txs PROVE F(q)' = G(tx', q)
  <2>1. Held(q)' = Taken(tx'[q], Len(Holds[q]))
    BY Zenon DEF Held, Taken, At, UnassignEnd
  <2> QED
    BY Zenon, <2>1
<1>3. HoldsOf(d) = UNION {F(q) : q \in Txs} /\ HoldsIn(tx, d) = UNION {G(tx, q) : q \in Txs}
  BY Zenon DEF HoldsOf, HoldsIn
<1>4. HoldsOf(d)' = UNION {F(q)' : q \in Txs} /\ HoldsIn(tx', d) = UNION {G(tx', q) : q \in Txs}
  BY Zenon DEF HoldsOf, HoldsIn
<1>5. {F(q) : q \in Txs} = {G(tx, q) : q \in Txs}
  <2> HIDE DEF F, G
  <2> QED
    BY SMT, <1>1
<1>6. {F(q)' : q \in Txs} = {G(tx', q) : q \in Txs}
  <2> HIDE DEF F, G
  <2> QED
    BY SMT, <1>2
<1> QED
  BY Zenon, <1>3, <1>4, <1>5, <1>6

LEMMA HoldIn ==
    ASSUME NEW f, NEW d, NEW q, NEW k, NEW x, IsHold(f, d, q, k, x)
    PROVE  x \in HoldsIn(f, d)
<1> DEFINE F(r) == {r} \X {j \in Taken(f[r], Len(Holds[r])) : Holds[r][j] = d}
<1>1. x \in F(q) /\ q \in Txs
  BY SMT DEF IsHold
<1>2. HoldsIn(f, d) = UNION {F(r) : r \in Txs}
  BY Zenon DEF HoldsIn
<1> HIDE DEF F
<1> QED
  BY Zenon, <1>1, <1>2

LEMMA InHolds ==
    ASSUME NEW f, NEW d, NEW x \in HoldsIn(f, d)
    PROVE  \E q, k : IsHold(f, d, q, k, x)
<1> DEFINE F(r) == {r} \X {j \in Taken(f[r], Len(Holds[r])) : Holds[r][j] = d}
<1>1. HoldsIn(f, d) = UNION {F(r) : r \in Txs}
  BY Zenon DEF HoldsIn
<1>2. PICK q \in Txs : x \in F(q)
  <2> HIDE DEF F
  <2> QED
    BY Zenon, <1>1
<1>3. \E k \in {j \in Taken(f[q], Len(Holds[q])) : Holds[q][j] = d} : x = <<q, k>>
  BY SMT, <1>2
<1> QED
  BY Zenon, <1>3 DEF IsHold

(* How the holds of a dnode change with those of one transaction.          *)
LEMMA HoldsKept ==
    ASSUME TypeInv, NEW t \in Txs, NEW y, tx' = [tx EXCEPT ![t] = y], NEW d,
           \A k : Holds[t][k] = d =>
              (k \in Taken(y, Len(Holds[t])) <=> k \in Taken(tx[t], Len(Holds[t])))
    PROVE  HoldsIn(tx', d) = HoldsIn(tx, d)
<1>1. tx'[t] = y /\ \A q \in Txs : q # t => tx'[q] = tx[q]
  BY Zenon DEF TypeInv
<1>2. ASSUME NEW q \in Txs, NEW k, Holds[q][k] = d
      PROVE  k \in Taken(tx'[q], Len(Holds[q])) <=> k \in Taken(tx[q], Len(Holds[q]))
  BY Zenon, <1>1, <1>2
<1>3. PICK f : f = tx'
  OBVIOUS
<1>4. ASSUME NEW x PROVE x \in HoldsIn(f, d) <=> x \in HoldsIn(tx, d)
  <2>1. ASSUME NEW q, NEW k PROVE IsHold(f, d, q, k, x) <=> IsHold(tx, d, q, k, x)
    BY Zenon, <1>2, <1>3 DEF IsHold
  <2> QED
    BY Zenon, <2>1, InHolds, HoldIn
<1>5. HoldsIn(f, d) = HoldsIn(tx, d)
  BY Zenon, <1>4
<1> QED
  BY Zenon, <1>3, <1>5

(* Only the holds of e change; they gain x; they lose x.                   *)
OnlyHolds(e) == \A d : d # e => HoldsIn(tx', d) = HoldsIn(tx, d)
Added(G, H, x) == G = H \cup {x} /\ x \notin H
Removed(G, H, x) == G = H \ {x} /\ x \in H
Counts(H, n) == IsFiniteSet(H) /\ n = Cardinality(H)

LEMMA CountAdded ==
    ASSUME NEW G, NEW H, NEW x, NEW n, Counts(H, n), Added(G, H, x)
    PROVE  Counts(G, n + 1)
<1>1. IsFiniteSet(H) /\ n = Cardinality(H) /\ G = H \cup {x} /\ x \notin H
  BY Zenon DEF Counts, Added
<1>2. IsFiniteSet(H \cup {x}) /\ Cardinality(H \cup {x}) = Cardinality(H) + 1
  BY SMT, <1>1, FS_AddElement
<1> QED
  BY Zenon, <1>1, <1>2 DEF Counts

LEMMA CountRemoved ==
    ASSUME NEW G, NEW H, NEW x, NEW n, Counts(H, n), Removed(G, H, x)
    PROVE  Counts(G, n - 1)
<1>1. IsFiniteSet(H) /\ n = Cardinality(H) /\ G = H \ {x} /\ x \in H
  BY Zenon DEF Counts, Removed
<1>2. IsFiniteSet(H \ {x}) /\ Cardinality(H \ {x}) = Cardinality(H) - 1
  BY SMT, <1>1, FS_RemoveElement
<1> QED
  BY Zenon, <1>1, <1>2 DEF Counts

LEMMA HoldsTaken ==
    ASSUME TypeInv, NEW t \in Txs, NEW y, tx' = [tx EXCEPT ![t] = y], NEW i,
           Taken(y, Len(Holds[t])) = Taken(tx[t], Len(Holds[t])) \cup {i},
           i \notin Taken(tx[t], Len(Holds[t])), NEW e, e = Holds[t][i]
    PROVE  Added(HoldsIn(tx', e), HoldsIn(tx, e), <<t, i>>) /\ OnlyHolds(e)
<1>1. tx'[t] = y /\ \A q \in Txs : q # t => tx'[q] = tx[q]
  BY Zenon DEF TypeInv
<1>2. ASSUME NEW d, d # Holds[t][i] PROVE HoldsIn(tx', d) = HoldsIn(tx, d)
  <2>1. \A k : Holds[t][k] = d =>
              (k \in Taken(y, Len(Holds[t])) <=> k \in Taken(tx[t], Len(Holds[t])))
    BY Zenon, <1>2
  <2> QED
    BY Zenon, <2>1, HoldsKept
<1>3. PICK d : d = Holds[t][i]
  OBVIOUS
<1>4. <<t, i>> \notin HoldsIn(tx, d)
  <2>1. ASSUME NEW q, NEW k, IsHold(tx, d, q, k, <<t, i>>) PROVE FALSE
    <3>1. q = t /\ k = i
      BY SMT, <2>1 DEF IsHold
    <3> QED
      BY Zenon, <2>1, <3>1 DEF IsHold
  <2> QED
    BY Zenon, <2>1, InHolds
<1>5. PICK f : f = tx'
  OBVIOUS
<1>6. ASSUME NEW x PROVE x \in HoldsIn(f, d) <=> x \in HoldsIn(tx, d) \/ x = <<t, i>>
  <2>1. ASSUME x \in HoldsIn(f, d) PROVE x \in HoldsIn(tx, d) \/ x = <<t, i>>
    <3>1. PICK q, k : IsHold(f, d, q, k, x)
      BY Zenon, <2>1, InHolds
    <3>2. q \in Txs /\ k \in Taken(f[q], Len(Holds[q])) /\ Holds[q][k] = d /\ x = <<q, k>>
      BY Zenon, <3>1 DEF IsHold
    <3>3. k \in Taken(tx[q], Len(Holds[q])) \/ (q = t /\ k = i)
      <4>1. CASE q = t
        <5>1. k \in Taken(y, Len(Holds[t]))
          BY Zenon, <1>1, <1>5, <3>2, <4>1
        <5> QED
          BY Zenon, <4>1, <5>1
      <4>2. CASE q # t
        BY Zenon, <1>1, <1>5, <3>2, <4>2
      <4> QED
        BY Zenon, <4>1, <4>2
    <3> QED
      BY Zenon, <3>2, <3>3, HoldIn DEF IsHold
  <2>2. ASSUME x \in HoldsIn(tx, d) PROVE x \in HoldsIn(f, d)
    <3>1. PICK q, k : IsHold(tx, d, q, k, x)
      BY Zenon, <2>2, InHolds
    <3>2. q \in Txs /\ k \in Taken(tx[q], Len(Holds[q])) /\ Holds[q][k] = d /\ x = <<q, k>>
      BY Zenon, <3>1 DEF IsHold
    <3>3. k \in Taken(f[q], Len(Holds[q]))
      BY Zenon, <1>1, <1>5, <3>2
    <3> QED
      BY Zenon, <3>2, <3>3, HoldIn DEF IsHold
  <2>3. ASSUME x = <<t, i>> PROVE x \in HoldsIn(f, d)
    <3>1. i \in Taken(f[t], Len(Holds[t])) /\ Holds[t][i] = d
      BY Zenon, <1>1, <1>3, <1>5
    <3> QED
      BY Zenon, <2>3, <3>1, HoldIn DEF IsHold
  <2> QED
    BY Zenon, <2>1, <2>2, <2>3
<1>7. HoldsIn(f, d) = HoldsIn(tx, d) \cup {<<t, i>>}
  BY Zenon, <1>6
<1> QED
  BY Zenon, <1>2, <1>3, <1>4, <1>5, <1>7 DEF Added, OnlyHolds

LEMMA HoldsDropped ==
    ASSUME TypeInv, NEW t \in Txs, NEW y, tx' = [tx EXCEPT ![t] = y], NEW i,
           Taken(y, Len(Holds[t])) = Taken(tx[t], Len(Holds[t])) \ {i},
           i \in Taken(tx[t], Len(Holds[t])), NEW e, e = Holds[t][i]
    PROVE  Removed(HoldsIn(tx', e), HoldsIn(tx, e), <<t, i>>) /\ OnlyHolds(e)
<1>1. tx'[t] = y /\ \A q \in Txs : q # t => tx'[q] = tx[q]
  BY Zenon DEF TypeInv
<1>2. ASSUME NEW d, d # Holds[t][i] PROVE HoldsIn(tx', d) = HoldsIn(tx, d)
  <2>1. \A k : Holds[t][k] = d =>
              (k \in Taken(y, Len(Holds[t])) <=> k \in Taken(tx[t], Len(Holds[t])))
    BY Zenon, <1>2
  <2> QED
    BY Zenon, <2>1, HoldsKept
<1>3. PICK d : d = Holds[t][i]
  OBVIOUS
<1>4. <<t, i>> \in HoldsIn(tx, d)
  BY Zenon, <1>3, HoldIn DEF IsHold
<1>5. PICK f : f = tx'
  OBVIOUS
<1>6. ASSUME NEW x PROVE x \in HoldsIn(f, d) <=> x \in HoldsIn(tx, d) /\ x # <<t, i>>
  <2>1. ASSUME x \in HoldsIn(f, d) PROVE x \in HoldsIn(tx, d) /\ x # <<t, i>>
    <3>1. PICK q, k : IsHold(f, d, q, k, x)
      BY Zenon, <2>1, InHolds
    <3>2. q \in Txs /\ k \in Taken(f[q], Len(Holds[q])) /\ Holds[q][k] = d /\ x = <<q, k>>
      BY Zenon, <3>1 DEF IsHold
    <3>3. k \in Taken(tx[q], Len(Holds[q])) /\ ~(q = t /\ k = i)
      BY Zenon, <1>1, <1>5, <3>2
    <3>4. x # <<t, i>>
      BY SMT, <3>2, <3>3
    <3> QED
      BY Zenon, <3>2, <3>3, <3>4, HoldIn DEF IsHold
  <2>2. ASSUME x \in HoldsIn(tx, d), x # <<t, i>> PROVE x \in HoldsIn(f, d)
    <3>1. PICK q, k : IsHold(tx, d, q, k, x)
      BY Zenon, <2>2, InHolds
    <3>2. q \in Txs /\ k \in Taken(tx[q], Len(Holds[q])) /\ Holds[q][k] = d /\ x = <<q, k>>
      BY Zenon, <3>1 DEF IsHold
    <3>3. ~(q = t /\ k = i)
      BY Zenon, <2>2, <3>2
    <3>4. k \in Taken(f[q], Len(Holds[q]))
      BY Zenon, <1>1, <1>5, <3>2, <3>3
    <3> QED
      BY Zenon, <3>2, <3>4, HoldIn DEF IsHold
  <2> QED
    BY Zenon, <2>1, <2>2
<1>7. HoldsIn(f, d) = HoldsIn(tx, d) \ {<<t, i>>}
  BY Zenon, <1>6
<1> QED
  BY Zenon, <1>2, <1>3, <1>4, <1>5, <1>7 DEF Removed, OnlyHolds

(* One dnode's share of the invariant.                                     *)
DnodeOk(H, holds, assigned, member) ==
    /\ Counts(H, holds) /\ holds \in Nat /\ assigned \in Nat
    /\ assigned # 0 <=> holds > 0
    /\ \A h \in H : member[h[1]] = assigned

LEMMA HoldInvIs ==
    HoldInv <=> /\ dn_tx_holds \in [Dnodes -> Nat] /\ dn_assigned_txg \in [Dnodes -> Nat]
                /\ \A d \in Dnodes : DnodeOk(HoldsIn(tx, d), dn_tx_holds[d], dn_assigned_txg[d], tx_txg)
<1>1. \A d \in Dnodes : HoldsOf(d) = HoldsIn(tx, d)
  BY Zenon, HoldsOfIs
<1> QED
  BY Zenon, <1>1 DEF HoldInv, DnodeInOneTxg, DnodeOk, Counts

LEMMA HoldInvNext ==
    ASSUME dn_tx_holds' \in [Dnodes -> Nat], dn_assigned_txg' \in [Dnodes -> Nat],
           \A d \in Dnodes : DnodeOk(HoldsIn(tx', d), dn_tx_holds'[d], dn_assigned_txg'[d], tx_txg')
    PROVE  HoldInv'
<1>1. ASSUME NEW d \in Dnodes
      PROVE  /\ IsFiniteSet(HoldsOf(d)')
             /\ dn_tx_holds'[d] = Cardinality(HoldsOf(d)')
             /\ dn_assigned_txg'[d] # 0 <=> dn_tx_holds'[d] > 0
             /\ \A h \in HoldsOf(d)' : tx_txg'[h[1]] = dn_assigned_txg'[d]
  <2>1. HoldsOf(d)' = HoldsIn(tx', d)
    BY Zenon, HoldsOfIs
  <2>2. DnodeOk(HoldsIn(tx', d), dn_tx_holds'[d], dn_assigned_txg'[d], tx_txg')
    BY Zenon
  <2> QED
    BY Zenon, <2>1, <2>2 DEF DnodeOk, Counts
<1> QED
  BY Zenon, <1>1 DEF HoldInv, DnodeInOneTxg

(* The thread of a hold, and the txg it is in.                             *)
LEMMA Holders ==
    ASSUME PipeInv, NEW d, NEW h \in HoldsIn(tx, d)
    PROVE  /\ h[1] \in Txs /\ Taken(tx[h[1]], Len(Holds[h[1]])) # {}
           /\ tx_txg[h[1]] \in {open, open - 1}
<1>1. PICK q, k : IsHold(tx, d, q, k, h)
  BY Zenon, InHolds
<1>2. h[1] = q
  BY SMT, <1>1 DEF IsHold
<1>3. q \in Txs /\ Taken(tx[q], Len(Holds[q])) # {}
  BY Zenon, <1>1 DEF IsHold
<1>4. tx[q].pc \in InTxg
  BY Zenon, <1>3, TakenIs
<1>5. Fits(q, tx[q], tx_txg[q])
  BY Zenon, <1>3 DEF PipeInv
<1>6. tx_txg[q] \in {open, open - 1}
  BY Zenon, <1>4, <1>5 DEF Fits
<1> QED
  BY Zenon, <1>2, <1>3, <1>6

LEMMA KeepsHolds ==
    ASSUME TypeInv, PipeInv, HoldInv, NEW t \in Txs, NEW y, NEW m, Goes(t, y, m), Keeps(t, y, m)
    PROVE  HoldInv'
<1>1. /\ tx' = [tx EXCEPT ![t] = y] /\ tx_txg' = [tx_txg EXCEPT ![t] = m]
      /\ dn_assigned_txg' = dn_assigned_txg /\ dn_tx_holds' = dn_tx_holds
      /\ Taken(y, Len(Holds[t])) = Taken(tx[t], Len(Holds[t]))
      /\ m = tx_txg[t] \/ Taken(y, Len(Holds[t])) = {}
  BY Zenon DEF Goes, Keeps
<1>2. ASSUME NEW d \in Dnodes
      PROVE  DnodeOk(HoldsIn(tx', d), dn_tx_holds'[d], dn_assigned_txg'[d], tx_txg')
  <2>1. HoldsIn(tx', d) = HoldsIn(tx, d)
    BY Zenon, <1>1, HoldsKept
  <2>2. ASSUME NEW h \in HoldsIn(tx, d) PROVE tx_txg'[h[1]] = tx_txg[h[1]]
    BY Zenon, <1>1, <2>2, Holders DEF TypeInv
  <2>3. DnodeOk(HoldsIn(tx, d), dn_tx_holds[d], dn_assigned_txg[d], tx_txg)
    BY Zenon, HoldInvIs
  <2>4. DnodeOk(HoldsIn(tx, d), dn_tx_holds[d], dn_assigned_txg[d], tx_txg')
    BY Zenon, <2>2, <2>3 DEF DnodeOk
  <2> QED
    BY Zenon, <1>1, <2>1, <2>4
<1> QED
  BY Zenon, <1>1, <1>2, HoldInvIs, HoldInvNext

LEMMA TakesHolds ==
    ASSUME TypeInv, PipeInv, HoldInv, NEW t \in Txs, NEW y, NEW m, Goes(t, y, m), Takes(t, y, m)
    PROVE  HoldInv'
<1>1. PICK i, e : i = tx[t].i /\ e = Holds[t][i]
  OBVIOUS
<1>2. /\ tx' = [tx EXCEPT ![t] = y] /\ tx_txg' = tx_txg /\ m = open /\ tx_txg[t] = m /\ m # 0
      /\ i \in 1 .. Len(Holds[t]) /\ i \notin Taken(tx[t], Len(Holds[t]))
      /\ Taken(y, Len(Holds[t])) = Taken(tx[t], Len(Holds[t])) \cup {i}
      /\ dn_assigned_txg[e] # m - 1
      /\ dn_assigned_txg' = [dn_assigned_txg EXCEPT
                                ![e] = IF dn_assigned_txg[e] = 0 THEN m ELSE dn_assigned_txg[e]]
      /\ dn_tx_holds' = [dn_tx_holds EXCEPT ![e] = dn_tx_holds[e] + 1]
  BY Zenon, <1>1, TxTypes DEF Goes, Takes, Hold
<1>3. e \in Dnodes
  <2>1. Holds[t] \in Seq(Dnodes)
    BY Zenon, HoldsAssumption
  <2> QED
    BY SMT, <1>1, <1>2, <2>1
<1>4. PICK n, a : n = dn_tx_holds[e] /\ a = dn_assigned_txg[e]
  OBVIOUS
<1>5. DnodeOk(HoldsIn(tx, e), n, a, tx_txg)
  BY Zenon, <1>3, <1>4, HoldInvIs
<1>6. n \in Nat /\ a \in Nat /\ n + 1 \in Nat /\ n + 1 > 0 /\ m \in Nat
  <2>1. n \in Nat /\ a \in Nat /\ m \in Nat
    BY Zenon, <1>2, <1>5 DEF DnodeOk, TypeInv
  <2> QED
    BY SMT, <2>1
<1>7. Added(HoldsIn(tx', e), HoldsIn(tx, e), <<t, i>>) /\ OnlyHolds(e)
  BY Zenon, <1>1, <1>2, HoldsTaken
<1>8. DnodeOk(HoldsIn(tx', e), n + 1, m, tx_txg) /\ (a # 0 => a = m)
  <2>1. CASE a = 0
    <3>1. n = 0
      <4>1. ~(n > 0)
        BY Zenon, <1>5, <2>1 DEF DnodeOk
      <4> QED
        BY SMT, <1>6, <4>1
    <3>2. HoldsIn(tx, e) = {}
      BY Zenon, <1>5, <3>1, FS_EmptySet DEF DnodeOk, Counts
    <3> QED
      <4>1. \A h \in HoldsIn(tx, e) : tx_txg[h[1]] = m
        BY Zenon, <3>2
      <4>2. <<t, i>>[1] = t
        BY SMT
      <4>3. \A h \in HoldsIn(tx', e) : tx_txg[h[1]] = m
        BY Zenon, <1>2, <1>7, <4>1, <4>2 DEF Added
      <4>4. Counts(HoldsIn(tx', e), n + 1)
        BY Zenon, <1>5, <1>7, CountAdded DEF DnodeOk
      <4> QED
        BY Zenon, <1>2, <1>6, <2>1, <4>3, <4>4 DEF DnodeOk
  <2>2. CASE a # 0
    <3>1. n > 0
      BY Zenon, <1>5, <2>2 DEF DnodeOk
    <3>2. HoldsIn(tx, e) # {}
      <4>1. n # 0
        BY SMT, <1>6, <3>1
      <4> QED
        BY Zenon, <1>5, <4>1, FS_EmptySet DEF DnodeOk, Counts
    <3>3. PICK h : h \in HoldsIn(tx, e)
      BY Zenon, <3>2
    <3>4. a \in {open, open - 1} /\ a # m - 1
      BY Zenon, <1>2, <1>4, <1>5, <3>3, Holders DEF DnodeOk
    <3>5. a = m
      BY Zenon, <1>2, <3>4
    <3> QED
      <4>1. \A g \in HoldsIn(tx, e) : tx_txg[g[1]] = m
        BY Zenon, <1>5, <3>5 DEF DnodeOk
      <4>2. <<t, i>>[1] = t
        BY SMT
      <4>3. \A g \in HoldsIn(tx', e) : tx_txg[g[1]] = m
        BY Zenon, <1>2, <1>7, <4>1, <4>2 DEF Added
      <4>4. Counts(HoldsIn(tx', e), n + 1)
        BY Zenon, <1>5, <1>7, CountAdded DEF DnodeOk
      <4> QED
        BY Zenon, <1>2, <1>6, <3>5, <4>3, <4>4 DEF DnodeOk
  <2> QED
    BY Zenon, <2>1, <2>2
<1>9. dn_assigned_txg' = [dn_assigned_txg EXCEPT ![e] = m]
      /\ dn_tx_holds' = [dn_tx_holds EXCEPT ![e] = n + 1]
  BY Zenon, <1>2, <1>4, <1>8
<1>10. dn_tx_holds' \in [Dnodes -> Nat] /\ dn_assigned_txg' \in [Dnodes -> Nat]
  BY Zenon, <1>6, <1>9 DEF HoldInv
<1>11. ASSUME NEW d \in Dnodes
       PROVE  DnodeOk(HoldsIn(tx', d), dn_tx_holds'[d], dn_assigned_txg'[d], tx_txg')
  <2>1. CASE d = e
    <3>1. dn_tx_holds'[d] = n + 1 /\ dn_assigned_txg'[d] = m
      BY Zenon, <1>9, <2>1 DEF HoldInv
    <3> QED
      BY Zenon, <1>2, <1>8, <2>1, <3>1
  <2>2. CASE d # e
    <3>1. dn_tx_holds'[d] = dn_tx_holds[d] /\ dn_assigned_txg'[d] = dn_assigned_txg[d]
          /\ HoldsIn(tx', d) = HoldsIn(tx, d)
      BY Zenon, <1>7, <1>9, <2>2 DEF HoldInv, OnlyHolds
    <3>2. DnodeOk(HoldsIn(tx, d), dn_tx_holds[d], dn_assigned_txg[d], tx_txg)
      BY Zenon, HoldInvIs
    <3> QED
      BY Zenon, <1>2, <3>1, <3>2
  <2> QED
    BY Zenon, <2>1, <2>2
<1> QED
  BY Zenon, <1>10, <1>11, HoldInvNext

LEMMA DropsHolds ==
    ASSUME TypeInv, PipeInv, HoldInv, NEW t \in Txs, NEW y, NEW m, Goes(t, y, m), Drops(t, y, m)
    PROVE  HoldInv'
<1>1. PICK i, e : i = tx[t].i /\ e = Holds[t][i]
  OBVIOUS
<1>2. /\ tx' = [tx EXCEPT ![t] = y] /\ tx_txg' = tx_txg
      /\ i \in 1 .. Len(Holds[t]) /\ i \in Taken(tx[t], Len(Holds[t]))
      /\ Taken(y, Len(Holds[t])) = Taken(tx[t], Len(Holds[t])) \ {i}
      /\ DropDnode(e)
  BY Zenon, <1>1, TxTypes DEF Goes, Drops, Hold
<1>3. e \in Dnodes
  <2>1. Holds[t] \in Seq(Dnodes)
    BY Zenon, HoldsAssumption
  <2> QED
    BY SMT, <1>1, <1>2, <2>1
<1>4. PICK n, a : n = dn_tx_holds[e] /\ a = dn_assigned_txg[e]
  OBVIOUS
<1>5. DnodeOk(HoldsIn(tx, e), n, a, tx_txg)
  BY Zenon, <1>3, <1>4, HoldInvIs
<1>6. Removed(HoldsIn(tx', e), HoldsIn(tx, e), <<t, i>>) /\ OnlyHolds(e)
  BY Zenon, <1>1, <1>2, HoldsDropped
<1>7. n \in Nat /\ a \in Nat /\ n # 0 /\ n - 1 \in Nat /\ 0 \in Nat
  <2>1. n \in Nat /\ a \in Nat /\ Counts(HoldsIn(tx, e), n)
    BY Zenon, <1>5 DEF DnodeOk
  <2>2. n # 0
    BY Zenon, <1>6, <2>1, FS_EmptySet DEF Counts, Removed
  <2> QED
    BY SMT, <2>1, <2>2
<1>8. Counts(HoldsIn(tx', e), n - 1)
  BY Zenon, <1>5, <1>6, CountRemoved DEF DnodeOk
<1>9. PICK b : b = IF n = 1 THEN 0 ELSE a
  OBVIOUS
<1>10. /\ dn_tx_holds' = [dn_tx_holds EXCEPT ![e] = n - 1]
       /\ dn_assigned_txg' = [dn_assigned_txg EXCEPT ![e] = b]
  <2>1. dn_assigned_txg = [dn_assigned_txg EXCEPT ![e] = a]
    BY Zenon, <1>4 DEF HoldInv
  <2> QED
    BY Zenon, <1>2, <1>4, <1>9, <2>1 DEF DropDnode
<1>11. DnodeOk(HoldsIn(tx', e), n - 1, b, tx_txg)
  <2>1. CASE n = 1
    <3>1. n - 1 = 0 /\ ~(n - 1 > 0)
      BY SMT, <2>1
    <3>2. HoldsIn(tx', e) = {}
      BY Zenon, <1>8, <3>1, FS_EmptySet DEF Counts
    <3> QED
      BY Zenon, <1>7, <1>8, <1>9, <2>1, <3>1, <3>2 DEF DnodeOk
  <2>2. CASE n # 1
    <3>1. n > 0 /\ n - 1 > 0
      BY SMT, <1>7, <2>2
    <3>2. b = a /\ a # 0
      BY Zenon, <1>5, <1>9, <2>2, <3>1 DEF DnodeOk
    <3>3. \A h \in HoldsIn(tx', e) : tx_txg[h[1]] = a
      BY Zenon, <1>5, <1>6 DEF DnodeOk, Removed
    <3> QED
      BY Zenon, <1>7, <1>8, <3>1, <3>2, <3>3 DEF DnodeOk
  <2> QED
    BY Zenon, <2>1, <2>2
<1>12. dn_tx_holds' \in [Dnodes -> Nat] /\ dn_assigned_txg' \in [Dnodes -> Nat]
  BY Zenon, <1>7, <1>9, <1>10 DEF HoldInv
<1>13. ASSUME NEW d \in Dnodes
       PROVE  DnodeOk(HoldsIn(tx', d), dn_tx_holds'[d], dn_assigned_txg'[d], tx_txg')
  <2>1. CASE d = e
    <3>1. dn_tx_holds'[d] = n - 1 /\ dn_assigned_txg'[d] = b
      BY Zenon, <1>10, <2>1 DEF HoldInv
    <3> QED
      BY Zenon, <1>2, <1>11, <2>1, <3>1
  <2>2. CASE d # e
    <3>1. dn_tx_holds'[d] = dn_tx_holds[d] /\ dn_assigned_txg'[d] = dn_assigned_txg[d]
          /\ HoldsIn(tx', d) = HoldsIn(tx, d)
      BY Zenon, <1>6, <1>10, <2>2 DEF HoldInv, OnlyHolds
    <3>2. DnodeOk(HoldsIn(tx, d), dn_tx_holds[d], dn_assigned_txg[d], tx_txg)
      BY Zenon, HoldInvIs
    <3> QED
      BY Zenon, <1>2, <3>1, <3>2
  <2> QED
    BY Zenon, <2>1, <2>2
<1> QED
  BY Zenon, <1>12, <1>13, HoldInvNext

LEMMA HoldStep ==
    ASSUME TypeInv, PipeInv, HoldInv, [Next]_vars
    PROVE  HoldInv'
<1>1. ASSUME NEW t \in Txs, TxNext(t) PROVE HoldInv'
  BY Zenon, <1>1, TxMoves, KeepsHolds, TakesHolds, DropsHolds DEF Moves
<1>2. ASSUME tx' = tx, tx_txg' = tx_txg, UNCHANGED dnvars PROVE HoldInv'
  <2>1. dn_tx_holds' = dn_tx_holds /\ dn_assigned_txg' = dn_assigned_txg
    BY Zenon, <1>2 DEF dnvars
  <2>2. ASSUME NEW d \in Dnodes
        PROVE  DnodeOk(HoldsIn(tx', d), dn_tx_holds'[d], dn_assigned_txg'[d], tx_txg')
    BY Zenon, <1>2, <2>1, HoldInvIs
  <2> QED
    BY Zenon, <2>1, <2>2, HoldInvIs, HoldInvNext
<1>3. Close \/ SyncTxg \/ PhysDone \/ ShoreUp \/ Suspend \/ Resume \/ UNCHANGED vars
        => tx' = tx /\ tx_txg' = tx_txg /\ UNCHANGED dnvars
  BY Zenon DEF Close, SyncTxg, PhysDone, ShoreUp, Suspend, Resume, vars, pipe, Txg!Close,
     Txg!MakeDurable
<1> QED
  BY Zenon, <1>1, <1>2, <1>3 DEF Next

-----------------------------------------------------------------------------
(* The theorems                                                            *)

TxInv == TypeInv /\ PipeInv /\ DirtyInv /\ HoldInv

LEMMA TxInit == Init => TxInv
<1> SUFFICES ASSUME Init PROVE TxInv
  OBVIOUS
<1>1. /\ open = InitTxg /\ synced = InitTxg - 1 /\ tx_txg = [t \in Txs |-> 0]
      /\ tx = [t \in Txs |-> NewTx]
      /\ dn_assigned_txg = [d \in Dnodes |-> 0] /\ dn_tx_holds = [d \in Dnodes |-> 0]
      /\ dp_dirty_total = 0 /\ dp_dirty_pertxg = [s \in 0 .. (TXG_SIZE - 1) |-> 0]
  BY Zenon DEF Init, Txg!Init
<1>2. 0 \in Nat /\ 1 \in Nat /\ ~(0 > 0) /\ TXG_SIZE - 1 = 3
  BY SMT DEF TXG_SIZE
<1>3. open \in Nat /\ synced \in Nat /\ synced < open /\ open <= synced + 3
  BY SMT, <1>1, BoundsAssumption
<1>4. NewTx \in TxType /\ NewTx.pc = "try"
  BY Zenon, <1>2 DEF NewTx, TxType, Places
<1>5. TypeInv
  BY Zenon, <1>1, <1>2, <1>3, <1>4 DEF TypeInv
<1>6. PipeInv
  BY Zenon, <1>1, <1>3, <1>4 DEF PipeInv, Fits, InTxg
<1>7. DirtyInv
  <2>1. dp_dirty_pertxg \in [0 .. 3 -> Nat] /\ \A s \in 0 .. 3 : dp_dirty_pertxg[s] = 0
    BY Zenon, <1>1, <1>2
  <2>2. dp_dirty_total = Total(dp_dirty_pertxg)
    BY SMT, <1>1, <2>1 DEF Total
  <2> QED
    BY Zenon, <2>1, <2>2 DEF DirtyInv
<1>8. HoldInv
  <2>1. ASSUME NEW d \in Dnodes PROVE HoldsIn(tx, d) = {}
    <3>1. ASSUME NEW q, NEW k, NEW x, IsHold(tx, d, q, k, x) PROVE FALSE
      <4>1. q \in Txs /\ k \in Taken(tx[q], Len(Holds[q]))
        BY Zenon, <3>1 DEF IsHold
      <4>2. tx[q].pc \notin InTxg
        BY Zenon, <1>1, <1>4, <4>1 DEF InTxg
      <4> QED
        BY Zenon, <4>1, <4>2, TakenIs
    <3> QED
      BY Zenon, <3>1, InHolds
  <2>2. Counts({}, 0)
    BY Zenon, FS_EmptySet DEF Counts
  <2>3. ASSUME NEW d \in Dnodes
        PROVE  DnodeOk(HoldsIn(tx, d), dn_tx_holds[d], dn_assigned_txg[d], tx_txg)
    BY Zenon, <1>1, <1>2, <2>1, <2>2 DEF DnodeOk
  <2> QED
    BY Zenon, <1>1, <1>2, <2>3, HoldInvIs
<1> QED
  BY Zenon, <1>5, <1>6, <1>7, <1>8 DEF TxInv

LEMMA TxInvariant == Spec => []TxInv
<1>1. TxInv /\ [Next]_vars => TxInv'
  BY Zenon, PipeStep, DirtyStep, HoldStep DEF TxInv
<1> QED
  BY PTL, TxInit, <1>1 DEF Spec

(* The dirty-data accounting of dsl_pool.c: dp_dirty_total is the sum of   *)
(* dp_dirty_pertxg, whatever dsl_pool_dirty_space and the clamped          *)
(* dsl_pool_undirty_space were given, and the slot of the next txg is back *)
(* to zero: dsl_pool_sync wrote off its txg of TXG_SIZE before.            *)
THEOREM DirtyDataAdded == Spec => []DirtyAccounted
<1>1. TxInv => DirtyAccounted
  <2> SUFFICES ASSUME TxInv PROVE DirtyAccounted
    OBVIOUS
  <2>1. TypeInv /\ PipeInv /\ DirtyInv
    BY Zenon DEF TxInv
  <2>2. dp_dirty_total = SumFunction(dp_dirty_pertxg)
    <3>1. dp_dirty_pertxg \in [0 .. 3 -> Nat] /\ dp_dirty_total = Total(dp_dirty_pertxg)
      BY Zenon, <2>1 DEF DirtyInv
    <3>2. SumFunction(dp_dirty_pertxg) = Total(dp_dirty_pertxg)
      BY SumFour, <3>1
    <3> QED
      BY Zenon, <3>1, <3>2
  <2>3. open + 1 \in Nat /\ \A x \in (synced + 1) .. open : x \in Nat /\ x < open + 1 /\ open + 1 <= x + 3
    BY SMT, <2>1 DEF TypeInv, PipeInv
  <2>4. ASSUME NEW x \in (synced + 1) .. open PROVE Slot(open + 1) # Slot(x)
    BY Zenon, <2>3, Slots
  <2>5. dp_dirty_pertxg[Slot(open + 1)] = 0
    BY Zenon, <2>1, <2>3, <2>4, Slots DEF DirtyInv
  <2> QED
    BY Zenon, <2>2, <2>5 DEF DirtyAccounted
<1> QED
  BY PTL, TxInvariant, <1>1

(* A dnode is held in one txg: the ASSERT3Us on dn_assigned_txg of         *)
(* dmu_tx_try_assign, dmu_tx_unassign and dmu_tx_commit hold, and          *)
(* dn_tx_holds counts the holds in progress, for any threads and any lists *)
(* of holds, the same dnode held more than once included.                  *)
THEOREM OneTxgEach == Spec => []DnodeInOneTxg
<1>1. TxInv => DnodeInOneTxg
  BY Zenon DEF TxInv, HoldInv
<1> QED
  BY PTL, TxInvariant, <1>1

-----------------------------------------------------------------------------
(* Who sleeps on dn_notxholds                                              *)

(* A thread that sleeps takes no step.                                     *)
LEMMA AsleepRests ==
    ASSUME WaitInv, NEW q \in Txs, TxNext(q), NEW d \in Dnodes
    PROVE  q \notin dn_notxholds[d]
<1> SUFFICES ASSUME q \in dn_notxholds[d] PROVE FALSE
  OBVIOUS
<1>1. tx[q].pc = "waitdnode" /\ Holds[q][tx[q].need] = d
  BY Zenon DEF WaitInv, At
<1>2. WaitDnode(q)
  BY Zenon, <1>1 DEF TxNext, TryAssign, HoldDnode, Reserve, DropHold, Unassigned, WaitDirty, WaitBranch,
     WaitTxg, Dirty, Committed, Abort, At
<1> QED
  BY Zenon, <1>1, <1>2 DEF WaitDnode

(* What it was refused for: the first transaction in assigns the dnode,    *)
(* the last one out clears it and wakes everybody.                         *)
LEMMA AssignedStep ==
    ASSUME HoldInv, WaitInv, NEW q \in Txs, TxNext(q), NEW d \in Dnodes
    PROVE  dn_assigned_txg'[d] = dn_assigned_txg[d] \/ dn_assigned_txg[d] = 0 \/ dn_notxholds'[d] = {}
<1>1. CASE HoldDnode(q)
  <2>1. CASE Conflict(q, Hold(q))
    BY Zenon, <1>1, <2>1 DEF HoldDnode
  <2>2. CASE ~Conflict(q, Hold(q))
    <3>1. PICK e, m : e = Hold(q) /\ m = IF dn_assigned_txg[e] = 0 THEN tx_txg[q] ELSE dn_assigned_txg[e]
      OBVIOUS
    <3>2. dn_assigned_txg' = [dn_assigned_txg EXCEPT ![e] = m]
      BY Zenon, <1>1, <2>2, <3>1 DEF HoldDnode
    <3> QED
      BY Zenon, <3>1, <3>2 DEF HoldInv
  <2> QED
    BY Zenon, <2>1, <2>2
<1>2. CASE DropHold(q)
  <2>1. PICK e : e = Hold(q)
    OBVIOUS
  <2>2. DropDnode(e)
    BY Zenon, <1>2, <2>1 DEF DropHold
  <2> QED
    BY Zenon, <2>2 DEF DropDnode, HoldInv, WaitInv
<1>3. ASSUME ~HoldDnode(q), ~DropHold(q) PROVE dn_assigned_txg' = dn_assigned_txg
  BY Zenon, <1>3 DEF TxNext, TryAssign, Reserve, Unassigned, WaitDirty, WaitBranch, WaitTxg, WaitDnode,
     Dirty, Committed, Abort, dnvars
<1> QED
  BY Zenon, <1>1, <1>2, <1>3

(* Who joins the sleepers has just seen the dnode assigned.                *)
LEMMA SleepersStep ==
    ASSUME WaitInv, NEW q \in Txs, TxNext(q), NEW d \in Dnodes, NEW t \in dn_notxholds'[d]
    PROVE  \/ t \in dn_notxholds[d]
           \/ /\ t = q /\ At(q, "waitdnode") /\ Holds[q][tx[q].need] = d /\ Blocked(q, d)
              /\ tx' = tx /\ dn_assigned_txg' = dn_assigned_txg
<1>1. CASE WaitDnode(q)
  <2>1. PICK e : e = Holds[q][tx[q].need]
    OBVIOUS
  <2>2. CASE Blocked(q, e)
    <3>1. /\ dn_notxholds' = [dn_notxholds EXCEPT ![e] = dn_notxholds[e] \cup {q}]
          /\ tx' = tx /\ dn_assigned_txg' = dn_assigned_txg /\ At(q, "waitdnode")
      BY Zenon, <1>1, <2>1, <2>2 DEF WaitDnode
    <3> QED
      BY Zenon, <2>1, <2>2, <3>1 DEF WaitInv
  <2>3. CASE ~Blocked(q, e)
    BY Zenon, <1>1, <2>1, <2>3 DEF WaitDnode
  <2> QED
    BY Zenon, <2>2, <2>3
<1>2. CASE DropHold(q)
  <2>1. PICK e : e = Hold(q)
    OBVIOUS
  <2>2. DropDnode(e)
    BY Zenon, <1>2, <2>1 DEF DropHold
  <2> QED
    BY Zenon, <2>2 DEF DropDnode, WaitInv
<1>3. ASSUME ~WaitDnode(q), ~DropHold(q) PROVE dn_notxholds' = dn_notxholds
  BY Zenon, <1>3 DEF TxNext, TryAssign, HoldDnode, Reserve, Unassigned, WaitDirty, WaitBranch, WaitTxg,
     Dirty, Committed, Abort, dnvars
<1> QED
  BY Zenon, <1>1, <1>2, <1>3

LEMMA SleepersType ==
    ASSUME WaitInv, NEW q \in Txs, TxNext(q)
    PROVE  dn_notxholds' \in [Dnodes -> SUBSET Txs]
<1>1. \/ dn_notxholds' = dn_notxholds
      \/ \E e : \/ dn_notxholds' = [dn_notxholds EXCEPT ![e] = dn_notxholds[e] \cup {q}]
                \/ dn_notxholds' = [dn_notxholds EXCEPT ![e] = {}]
  <2>1. CASE WaitDnode(q)
    BY Zenon, <2>1 DEF WaitDnode
  <2>2. CASE DropHold(q)
    BY Zenon, <2>2 DEF DropHold, DropDnode
  <2>3. ASSUME ~WaitDnode(q), ~DropHold(q) PROVE dn_notxholds' = dn_notxholds
    BY Zenon, <2>3 DEF TxNext, TryAssign, HoldDnode, Reserve, Unassigned, WaitDirty, WaitBranch, WaitTxg,
       Dirty, Committed, Abort, dnvars
  <2> QED
    BY Zenon, <2>1, <2>2, <2>3
<1> QED
  BY SMT, <1>1 DEF WaitInv

(* What a dmu_tx_t, x, may remember of the txg it was refused in, tx_txg   *)
(* being m.                                                                *)
Tried(x, m) ==
    /\ x.lasttried # 0 => x.lasttried \in InitTxg .. m
    /\ x.pc = "waitdnode" => x.lasttried # 0

(* A step either keeps tx_lasttried_txg, sets it to the txg left, or       *)
(* starts a new transaction.                                               *)
LEMMA TriedStep ==
    ASSUME TypeInv, PipeInv, WaitInv, NEW q \in Txs, TxNext(q)
    PROVE  Tried(tx'[q], open)
<1>1. tx[q] \in TxType /\ tx \in [Txs -> TxType]
  BY Zenon, TxTypes DEF TypeInv
<1>2. Tried(tx[q], open)
  BY Zenon DEF WaitInv, Tried, At
<1>3. ASSUME NEW y, tx'[q] = y, y.lasttried = tx[q].lasttried \/ y.lasttried = 0, y.pc # "waitdnode"
      PROVE  Tried(tx'[q], open)
  BY Zenon, <1>2, <1>3 DEF Tried
<1>4. CASE TryAssign(q)
  <2>1. ASSUME NEW p \in {"wait", "abort"}, tx' = [tx EXCEPT ![q].pc = p] PROVE Tried(tx'[q], open)
    <3>1. tx'[q].lasttried = tx[q].lasttried /\ tx'[q].pc # "waitdnode"
      BY SMT, <1>1, <2>1 DEF TxType
    <3> QED
      BY Zenon, <1>3, <3>1
  <2>2. ASSUME tx' = [tx EXCEPT ![q].wait_dirty = TRUE, ![q].pc = "wait"] PROVE Tried(tx'[q], open)
    <3>1. tx'[q].lasttried = tx[q].lasttried /\ tx'[q].pc # "waitdnode"
      BY SMT, <1>1, <2>2 DEF TxType
    <3> QED
      BY Zenon, <1>3, <3>1
  <2>3. ASSUME tx' = [tx EXCEPT ![q].need = 0, ![q].i = 1, ![q].pc = "hold"] PROVE Tried(tx'[q], open)
    <3>1. tx'[q].lasttried = tx[q].lasttried /\ tx'[q].pc # "waitdnode"
      BY SMT, <1>1, <2>3 DEF TxType
    <3> QED
      BY Zenon, <1>3, <3>1
  <2>4. ASSUME NEW p \in {"wait"} \cup IF How[q] = "WAIT" THEN {} ELSE {"abort"}
        PROVE  p \in {"wait", "abort"}
    BY Zenon, <2>4
  <2> QED
    BY Zenon, <1>4, <2>1, <2>2, <2>3, <2>4 DEF TryAssign
<1>5. CASE HoldDnode(q) \/ Reserve(q) \/ DropHold(q) \/ Dirty(q)
  <2>1. CASE HoldDnode(q)
    <3>1. PICK i, k : i = tx[q].i /\ k = tx[q].i + 1
      OBVIOUS
    <3>2. \/ tx' = [tx EXCEPT ![q].need = i, ![q].err = "ERESTART", ![q].i = 1, ![q].pc = "unassign"]
          \/ tx' = [tx EXCEPT ![q].i = k] /\ tx[q].pc = "hold"
      BY Zenon, <2>1, <3>1 DEF HoldDnode, At
    <3>3. tx'[q].lasttried = tx[q].lasttried /\ tx'[q].pc # "waitdnode"
      BY ONLY SMT, <1>1, <3>2 DEF TxType
    <3> QED
      BY Zenon, <1>3, <3>3
  <2>2. CASE Reserve(q)
    <3>1. PICK e : \/ tx' = [tx EXCEPT ![q].i = 1, ![q].pc = "dirty"]
                   \/ tx' = [tx EXCEPT ![q].i = 1, ![q].err = e, ![q].pc = "unassign"]
      BY Zenon, <2>2 DEF Reserve
    <3>2. tx'[q].lasttried = tx[q].lasttried /\ tx'[q].pc # "waitdnode"
      BY ONLY SMT, <1>1, <3>1 DEF TxType
    <3> QED
      BY Zenon, <1>3, <3>2
  <2>3. CASE DropHold(q) \/ Dirty(q)
    <3>1. \/ tx' = [tx EXCEPT ![q].i = tx[q].i + 1] /\ tx[q].pc \in {"unassign", "commit"}
          \/ tx' = [tx EXCEPT ![q].pc = "commit"]
      BY Zenon, <2>3 DEF DropHold, Dirty, At
    <3>2. tx'[q].lasttried = tx[q].lasttried /\ tx'[q].pc # "waitdnode"
      BY SMT, <1>1, <3>1 DEF TxType
    <3> QED
      BY Zenon, <1>3, <3>2
  <2> QED
    BY Zenon, <1>5, <2>1, <2>2, <2>3
<1>6. CASE Unassigned(q)
  <2>1. tx[q].pc = "unassign" /\ tx'[q].lasttried = tx_txg[q] /\ tx'[q].pc \in {"wait", "abort"}
    BY Zenon, <1>1, <1>6 DEF Unassigned, TxType, At
  <2>2. tx_txg[q] \in {open, open - 1} /\ synced < tx_txg[q]
    BY Zenon, <2>1 DEF PipeInv, Fits, InTxg
  <2>3. tx_txg[q] \in InitTxg .. open
    BY SMT, <2>2, BoundsAssumption DEF WaitInv, TypeInv
  <2> QED
    BY Zenon, <2>1, <2>3 DEF Tried
<1>7. CASE WaitDirty(q) \/ WaitTxg(q) \/ WaitDnode(q)
  <2>1. ASSUME NEW w \in BOOLEAN
        PROVE  /\ AfterWait(q, w) \in TxType /\ AfterWait(q, w).pc = "try"
               /\ AfterWait(q, w).lasttried \in {tx[q].lasttried, 0}
    <3>1. AfterWait(q, w) \in TxType /\ AfterWait(q, w).pc = "try"
      BY Zenon, AfterWaitType
    <3>2. CASE How[q] = "WAIT"
      BY Zenon, <1>1, <3>1, <3>2 DEF AfterWait, TxType
    <3>3. CASE How[q] # "WAIT"
      BY Zenon, <3>1, <3>3 DEF AfterWait, NewTx
    <3> QED
      BY Zenon, <3>1, <3>2, <3>3
  <2>2. ASSUME NEW w \in BOOLEAN, tx' = [tx EXCEPT ![q] = AfterWait(q, w)]
        PROVE  Tried(tx'[q], open)
    <3>1. tx'[q] = AfterWait(q, w)
      BY Zenon, <1>1, <2>2
    <3> QED
      BY Zenon, <1>3, <2>1, <3>1
  <2>3. ASSUME NEW w \in BOOLEAN, tx' = [tx EXCEPT ![q] = [AfterWait(q, w) EXCEPT !.need = 0]]
        PROVE  Tried(tx'[q], open)
    <3>1. PICK y : y = AfterWait(q, w)
      OBVIOUS
    <3>2. tx'[q] = [y EXCEPT !.need = 0] /\ y \in TxType /\ y.pc = "try"
          /\ y.lasttried \in {tx[q].lasttried, 0}
      BY Zenon, <1>1, <2>1, <2>3, <3>1
    <3>3. [y EXCEPT !.need = 0].pc = "try" /\ [y EXCEPT !.need = 0].lasttried = y.lasttried
      BY Zenon, <3>2 DEF TxType
    <3> QED
      BY Zenon, <1>3, <3>2, <3>3
  <2>4. tx[q].waited \in BOOLEAN
    BY Zenon, <1>1 DEF TxType
  <2> QED
    BY Zenon, <1>2, <1>7, <2>2, <2>3, <2>4 DEF WaitDirty, WaitTxg, WaitDnode
<1>8. CASE WaitBranch(q)
  <2>1. tx'[q].lasttried = tx[q].lasttried /\ (tx'[q].pc = "waitdnode" => tx[q].lasttried # 0)
    <3>1. CASE suspended \/ tx[q].lasttried = 0
      BY Zenon, <1>1, <1>8, <3>1 DEF WaitBranch, TxType
    <3>2. CASE ~(suspended \/ tx[q].lasttried = 0)
      BY Zenon, <1>1, <1>8, <3>2 DEF WaitBranch, TxType
    <3> QED
      BY Zenon, <3>1, <3>2
  <2> QED
    BY Zenon, <1>2, <2>1 DEF Tried
<1>9. CASE Committed(q) \/ Abort(q)
  <2>1. Destroy(q)
    BY Zenon, <1>9 DEF Committed, Abort
  <2>2. tx'[q].lasttried = 0 /\ tx'[q].pc \in {"done", "try"}
    BY Zenon, <1>1, <2>1 DEF Destroy, NewTx
  <2> QED
    BY Zenon, <1>3, <2>2
<1> QED
  BY Zenon, <1>4, <1>5, <1>6, <1>7, <1>8, <1>9 DEF TxNext

LEMMA WaitStep ==
    ASSUME TypeInv, PipeInv, HoldInv, WaitInv, [Next]_vars
    PROVE  WaitInv'
<1>1. ASSUME NEW q \in Txs, TxNext(q) PROVE WaitInv'
  <2>1. PICK y, m : Goes(q, y, m)
    BY Zenon, <1>1, TxMoves DEF Moves
  <2>2. /\ tx' = [tx EXCEPT ![q] = y] /\ tx \in [Txs -> TxType] /\ open' = open /\ synced' = synced
    BY Zenon, <2>1 DEF Goes, TypeInv
  <2>3. ASSUME NEW t \in Txs PROVE Tried(tx'[t], open)
    <3>1. CASE t = q
      BY Zenon, <1>1, <3>1, TriedStep
    <3>2. CASE t # q
      BY Zenon, <2>2, <3>2 DEF WaitInv, Tried, At
    <3> QED
      BY Zenon, <3>1, <3>2
  <2>4. ASSUME NEW d \in Dnodes, NEW t \in dn_notxholds'[d]
        PROVE  /\ tx'[t].pc = "waitdnode" /\ Holds[t][tx'[t].need] = d
               /\ dn_assigned_txg'[d] = tx'[t].lasttried - 1
    <3>1. CASE t \in dn_notxholds[d]
      <4>1. t \in Txs /\ t # q
        BY Zenon, <1>1, <3>1, AsleepRests DEF WaitInv
      <4>2. tx'[t] = tx[t]
        BY Zenon, <2>2, <4>1
      <4>3. /\ tx[t].pc = "waitdnode" /\ Holds[t][tx[t].need] = d
            /\ dn_assigned_txg[d] = tx[t].lasttried - 1 /\ tx[t].lasttried \in InitTxg .. open
        BY Zenon, <3>1, <4>1 DEF WaitInv, At, Blocked
      <4>4. dn_assigned_txg[d] # 0
        BY SMT, <4>3, BoundsAssumption DEF TypeInv
      <4>5. dn_assigned_txg'[d] = dn_assigned_txg[d]
        BY Zenon, <1>1, <2>4, <4>4, AssignedStep
      <4> QED
        BY Zenon, <4>2, <4>3, <4>5
    <3>2. CASE t \notin dn_notxholds[d]
      BY ZenonT(40), <1>1, <2>4, <3>2, SleepersStep DEF At, Blocked
    <3> QED
      BY Zenon, <3>1, <3>2
  <2>5. dn_notxholds' \in [Dnodes -> SUBSET Txs]
    BY Zenon, <1>1, SleepersType
  <2> QED
    BY Zenon, <2>2, <2>3, <2>4, <2>5 DEF WaitInv, Tried, At, Blocked
<1>2. ASSUME tx' = tx, UNCHANGED dnvars, open' = open \/ open' = open + 1,
             synced' = synced \/ synced' = synced + 1
      PROVE  WaitInv'
  <2>1. dn_notxholds' = dn_notxholds /\ dn_assigned_txg' = dn_assigned_txg
    BY Zenon, <1>2 DEF dnvars
  <2>2. InitTxg <= synced' + 1
    BY SMT, <1>2, BoundsAssumption DEF WaitInv, TypeInv
  <2>3. ASSUME NEW n \in InitTxg .. open PROVE n \in InitTxg .. open'
    BY SMT, <1>2, BoundsAssumption DEF TypeInv
  <2> QED
    BY Zenon, <1>2, <2>1, <2>2, <2>3 DEF WaitInv, At, Blocked
<1>3. ASSUME Close \/ SyncTxg \/ PhysDone \/ ShoreUp \/ Suspend \/ Resume \/ UNCHANGED vars
      PROVE  /\ tx' = tx /\ UNCHANGED dnvars
             /\ open' = open \/ open' = open + 1
             /\ synced' = synced \/ synced' = synced + 1
  BY Zenon, <1>3 DEF Close, SyncTxg, PhysDone, ShoreUp, Suspend, Resume, vars, pipe, Txg!Close,
     Txg!MakeDurable
<1> QED
  BY Zenon, <1>1, <1>2, <1>3 DEF Next

LEMMA WaitInvariance == Spec => []WaitInv
<1>1. Init => WaitInv
  <2> SUFFICES ASSUME Init PROVE WaitInv
    OBVIOUS
  <2>1. /\ synced = InitTxg - 1 /\ tx = [t \in Txs |-> NewTx] /\ dn_notxholds = [d \in Dnodes |-> {}]
    BY Zenon DEF Init, Txg!Init
  <2>2. InitTxg <= synced + 1
    BY SMT, <2>1, BoundsAssumption
  <2>3. NewTx.lasttried = 0 /\ NewTx.pc = "try"
    BY Zenon DEF NewTx
  <2> QED
    BY Zenon, <2>1, <2>2, <2>3 DEF WaitInv, At
<1>2. TxInv /\ WaitInv /\ [Next]_vars => WaitInv'
  BY Zenon, WaitStep DEF TxInv
<1> QED
  BY PTL, TxInvariant, <1>1, <1>2 DEF Spec

(* No transaction waits for one that waits: a thread asleep on             *)
(* dn_notxholds (dmu_tx_wait) is in no txg, so holds up no quiesce, and    *)
(* the dnode is held by a transaction of the quiescing txg that has all    *)
(* its holds or gives them back, whose last one broadcasts; for any        *)
(* threads and any lists of holds, taken in any order.                     *)
THEOREM NoDnodeDeadlock == Spec => []SleepersServed
<1>1. ASSUME TxInv, WaitInv, NEW d \in Dnodes, NEW t \in dn_notxholds[d]
      PROVE  /\ tx_txg[t] = 0
             /\ \E h \in HoldsOf(d) : tx_txg[h[1]] = open - 1 /\ ~At(h[1], "hold")
  <2>1. TypeInv /\ PipeInv /\ HoldInv /\ t \in Txs
    BY Zenon, <1>1 DEF TxInv, WaitInv
  <2>2. /\ tx[t].pc = "waitdnode" /\ dn_assigned_txg[d] = tx[t].lasttried - 1
        /\ tx[t].lasttried \in InitTxg .. open
    BY Zenon, <1>1, <2>1 DEF WaitInv, At, Blocked
  <2>3. dn_assigned_txg[d] # 0 /\ dn_assigned_txg[d] # open /\ open # open - 1
    BY SMT, <2>1, <2>2, BoundsAssumption DEF TypeInv
  <2>4. tx_txg[t] = 0
    BY Zenon, <2>1, <2>2 DEF PipeInv, Fits, InTxg
  <2>5. DnodeOk(HoldsIn(tx, d), dn_tx_holds[d], dn_assigned_txg[d], tx_txg)
    BY Zenon, <2>1, HoldInvIs
  <2>6. HoldsIn(tx, d) # {}
    <3>1. dn_tx_holds[d] \in Nat /\ dn_tx_holds[d] > 0
      BY Zenon, <2>3, <2>5 DEF DnodeOk
    <3>2. dn_tx_holds[d] # 0
      BY SMT, <3>1
    <3> QED
      BY Zenon, <2>5, <3>2, FS_EmptySet DEF DnodeOk, Counts
  <2>7. PICK h : h \in HoldsIn(tx, d)
    BY Zenon, <2>6
  <2>8. h[1] \in Txs /\ tx_txg[h[1]] \in {open, open - 1} /\ tx_txg[h[1]] = dn_assigned_txg[d]
    BY Zenon, <2>1, <2>5, <2>7, Holders DEF DnodeOk
  <2>9. tx_txg[h[1]] = open - 1 /\ tx_txg[h[1]] # open
    BY Zenon, <2>3, <2>8
  <2>10. ~At(h[1], "hold")
    BY Zenon, <2>1, <2>8, <2>9 DEF PipeInv, Fits, At
  <2> QED
    BY Zenon, <2>4, <2>7, <2>9, <2>10, HoldsOfIs
<1>2. TxInv /\ WaitInv => SleepersServed
  BY Zenon, <1>1 DEF SleepersServed
<1> QED
  BY PTL, TxInvariant, WaitInvariance, <1>2
=============================================================================
