---------------------------- MODULE ZEventProofs ----------------------------
(***************************************************************************)
(* Proofs about the event queue of fm.c, for any posters and readers, any  *)
(* length of the list and any number of events.                            *)
(***************************************************************************)
EXTENDS ZEvent, FiniteSetTheorems, TLAPS

-----------------------------------------------------------------------------
(* The inductive invariants.                                               *)

Asleep == {r \in Readers : reader_pc[r] = "asleep"}

(* zevent_waiters counts the readers inside cv_wait, and ZEVENT_SHUTDOWN   *)
(* keeps others out.                                                       *)
WaitInv ==
    /\ reader_pc \in [Readers -> {"next", "reset", "wait", "asleep", "exit"}]
    /\ IsFiniteSet(Asleep) /\ zevent_waiters = Cardinality(Asleep)
    /\ fini_pc \in {"shutdown", "destroyed"} => zevent_shutdown
    /\ fini_pc = "destroyed" => zevent_waiters = 0

Eids == Nat \ {0}

QueueType ==
    /\ zevent_list \in Seq(Eids) /\ zevent_len_cur = Len(zevent_list)
    /\ posted \in Seq(Eids) /\ zevent_eid \in Nat
    /\ post_eid \in [Posters -> Nat]
    /\ ze_zevent \in [Readers -> Nat]
    /\ delivered \in [Readers -> Seq(Eids)]

(* An EID is taken once, though they are not inserted in their order.      *)
Injective(s) == \A i, j \in 1 .. Len(s) : s[i] = s[j] => i = j
EidInv ==
    /\ \A i \in 1 .. Len(posted) : posted[i] <= zevent_eid
    /\ Injective(posted)
    /\ \A p \in Posters :
         /\ post_eid[p] <= zevent_eid
         /\ \A i \in 1 .. Len(posted) : posted[i] # post_eid[p]
         /\ \A q \in Posters : post_eid[p] # 0 /\ post_eid[p] = post_eid[q] => p = q

(* The list has the events that were posted last, the newest first.        *)
Recent(list, events) ==
    /\ Len(list) <= Len(events)
    /\ \A i \in 1 .. Len(list) : list[i] = events[Len(events) + 1 - i]

OnList(e, list) == \E i \in 1 .. Len(list) : e = list[i]

(* What a reader has got, d, and its cursor, c, when the last m of the     *)
(* events are on the list.                                                 *)
InOrder(d, events) ==
    /\ \A i \in 1 .. Len(d) : \E a \in 1 .. Len(events) : d[i] = events[a]
    /\ \A i, j \in 1 .. Len(d) : \A a, b \in 1 .. Len(events) :
         i < j /\ d[i] = events[a] /\ d[j] = events[b] => a < b
NoneMissed(d, events, m) ==
    Len(d) > 0 => \A a, b \in 1 .. Len(events) :
        d[Len(d)] = events[b] /\ a <= b /\ a > Len(events) - m
            => \E i \in 1 .. Len(d) : d[i] = events[a]
CursorAtLast(d, c, events, m) ==
    /\ c # 0 => Len(d) > 0 /\ c = d[Len(d)]
    /\ c = 0 /\ Len(d) > 0 =>
         \A a \in 1 .. Len(events) : d[Len(d)] = events[a] => a <= Len(events) - m

Good(d, c, events, m) ==
    InOrder(d, events) /\ NoneMissed(d, events, m) /\ CursorAtLast(d, c, events, m)

ReadInv ==
    /\ \A r \in Readers : ze_zevent[r] # 0 => OnList(ze_zevent[r], zevent_list)
    /\ \A r \in Readers \ Seekers :
         Good(delivered[r], ze_zevent[r], posted, Len(zevent_list))

QueueInv == QueueType /\ EidInv /\ Recent(zevent_list, posted) /\ ReadInv

-----------------------------------------------------------------------------
(* Sleeping and shutdown                                                   *)

LEMMA AsleepSame ==
    ASSUME WaitInv, NEW r \in Readers, NEW pc \in {"next", "reset", "wait", "exit"},
           reader_pc[r] # "asleep", reader_pc' = [reader_pc EXCEPT ![r] = pc]
    PROVE  /\ Asleep' = Asleep
           /\ reader_pc' \in [Readers -> {"next", "reset", "wait", "asleep", "exit"}]
<1>1. \A q \in Readers : reader_pc'[q] = "asleep" <=> reader_pc[q] = "asleep"
  BY Zenon DEF WaitInv
<1>2. Asleep' = Asleep
  BY Zenon, <1>1 DEF Asleep
<1> QED
  BY Zenon, <1>2 DEF WaitInv

LEMMA WaitInit == Init => WaitInv
<1> SUFFICES ASSUME Init PROVE WaitInv
  OBVIOUS
<1>1. Asleep = {}
  BY Zenon DEF Init, Asleep
<1>2. IsFiniteSet(Asleep) /\ Cardinality(Asleep) = 0
  BY Zenon, <1>1, FS_EmptySet
<1> QED
  BY Zenon, <1>2 DEF Init, WaitInv

LEMMA WaitStep == WaitInv /\ [Next]_vars => WaitInv'
<1> SUFFICES ASSUME WaitInv, [Next]_vars PROVE WaitInv'
  OBVIOUS
<1>c. IsFiniteSet(Asleep) /\ zevent_waiters = Cardinality(Asleep) /\ Cardinality(Asleep) \in Nat
  BY Zenon, FS_CardinalityType DEF WaitInv
<1>1. CASE reader_pc' = reader_pc /\ zevent_waiters' = zevent_waiters
           /\ zevent_shutdown' = zevent_shutdown /\ fini_pc' = fini_pc
  <2>1. Asleep' = Asleep
    BY Zenon, <1>1 DEF Asleep
  <2> QED
    BY Zenon, <1>1, <2>1 DEF WaitInv
<1>2. ASSUME NEW r \in Readers, ZeventNextNone(r) \/ ZeventNext(r) \/ ZeventNextReset(r)
      PROVE  WaitInv'
  <2>1. PICK pc \in {"next", "reset", "wait", "exit"} :
          reader_pc' = [reader_pc EXCEPT ![r] = pc] /\ reader_pc[r] # "asleep"
    BY Zenon, <1>2 DEF ZeventNextNone, ZeventNext, ZeventNextReset
  <2>2. zevent_waiters' = zevent_waiters /\ zevent_shutdown' = zevent_shutdown /\ fini_pc' = fini_pc
    BY Zenon, <1>2 DEF ZeventNextNone, ZeventNext, ZeventNextReset, sleep
  <2> QED
    BY Zenon, <2>1, <2>2, AsleepSame DEF WaitInv
<1>3. ASSUME NEW r \in Readers, ZeventWait(r) PROVE WaitInv'
  <2>0. reader_pc[r] = "wait" /\ zevent_shutdown' = zevent_shutdown /\ fini_pc' = fini_pc
    BY Zenon, <1>3 DEF ZeventWait
  <2>1. CASE zevent_shutdown
    <3>1. reader_pc' = [reader_pc EXCEPT ![r] = "exit"] /\ zevent_waiters' = zevent_waiters
      BY Zenon, <1>3, <2>1 DEF ZeventWait, sleep
    <3> QED
      BY Zenon, <2>0, <3>1, AsleepSame DEF WaitInv
  <2>2. CASE ~zevent_shutdown
    <3>1. reader_pc' = [reader_pc EXCEPT ![r] = "asleep"] /\ zevent_waiters' = zevent_waiters + 1
      BY Zenon, <1>3, <2>2 DEF ZeventWait
    <3>2. r \notin Asleep /\ Asleep' = Asleep \cup {r}
      BY Zenon, <2>0, <3>1 DEF Asleep, WaitInv
    <3>3. IsFiniteSet(Asleep') /\ Cardinality(Asleep') = Cardinality(Asleep) + 1
      BY Zenon, <1>c, <3>2, FS_AddElement
    <3>4. reader_pc' \in [Readers -> {"next", "reset", "wait", "asleep", "exit"}]
      BY Zenon, <3>1 DEF WaitInv
    <3>5. fini_pc' \notin {"shutdown", "destroyed"}
      BY Zenon, <2>0, <2>2 DEF WaitInv
    <3> QED
      BY Zenon, <1>c, <3>1, <3>3, <3>4, <3>5 DEF WaitInv
  <2> QED
    BY Zenon, <2>1, <2>2
<1>4. ASSUME NEW r \in Readers, ZeventWaitReturn(r) PROVE WaitInv'
  <2>1. /\ reader_pc[r] = "asleep" /\ reader_pc' = [reader_pc EXCEPT ![r] = "next"]
        /\ zevent_waiters' = zevent_waiters - 1
        /\ zevent_shutdown' = zevent_shutdown /\ fini_pc' = fini_pc
    BY Zenon, <1>4 DEF ZeventWaitReturn
  <2>2. r \in Asleep /\ Asleep' = Asleep \ {r}
    BY Zenon, <2>1 DEF Asleep, WaitInv
  <2>3. IsFiniteSet(Asleep') /\ Cardinality(Asleep') = Cardinality(Asleep) - 1
    BY Zenon, <1>c, <2>2, FS_RemoveElement
  <2>4. Cardinality(Asleep) # 0
    BY Zenon, <1>c, <2>2, FS_EmptySet
  <2>5. reader_pc' \in [Readers -> {"next", "reset", "wait", "asleep", "exit"}]
    BY Zenon, <2>1 DEF WaitInv
  <2> QED
    BY Zenon, <1>c, <2>1, <2>3, <2>4, <2>5 DEF WaitInv
<1>5. CASE FmFini \/ FmFiniShutdown \/ FmFiniDestroy
  <2>1. Asleep' = Asleep
    BY Zenon, <1>5 DEF Asleep, FmFini, FmFiniShutdown, FmFiniDestroy
  <2> QED
    BY Zenon, <1>5, <2>1 DEF WaitInv, FmFini, FmFiniShutdown, FmFiniDestroy, sleep
<1>6. \/ reader_pc' = reader_pc /\ zevent_waiters' = zevent_waiters
           /\ zevent_shutdown' = zevent_shutdown /\ fini_pc' = fini_pc
      \/ \E r \in Readers : ReaderNext(r)
      \/ FmFini \/ FmFiniShutdown \/ FmFiniDestroy
  BY Zenon DEF Next, PostTakeEid, PostFail, PostInsert, FmErptDroppedIncrement, ZeventSeek,
     ZfsIocEventsClear, vars, sleep
<1> QED
  BY Zenon, <1>1, <1>2, <1>3, <1>4, <1>5, <1>6 DEF ReaderNext

(* fm_fini destroys zevent_lock and zevent_cv only when no reader is       *)
(* inside zfs_zevent_wait: its loop on zevent_waiters sees them all, and   *)
(* none enters after ZEVENT_SHUTDOWN is set.                               *)
THEOREM FiniSafe == Spec => []FiniAfterWaiters
<1>1. WaitInv => FiniAfterWaiters
  <2> SUFFICES ASSUME WaitInv, fini_pc = "destroyed", NEW r \in Readers, reader_pc[r] = "asleep"
               PROVE  FALSE
    BY Zenon DEF FiniAfterWaiters
  <2>1. Asleep = {}
    BY Zenon, FS_EmptySet DEF WaitInv
  <2> QED
    BY Zenon, <2>1 DEF Asleep
<1> QED
  BY <1>1, WaitInit, WaitStep, PTL DEF Spec

-----------------------------------------------------------------------------
(* What a reader has got                                                   *)

LEMMA GoodEmpty ==
    ASSUME NEW events \in Seq(Eids), NEW m \in Nat
    PROVE  Good(<<>>, 0, events, m)
BY SMT DEF Good, InOrder, NoneMissed, CursorAtLast

(* An event is posted; the tail may be drained.                            *)
LEMMA GoodPost ==
    ASSUME NEW d \in Seq(Eids), NEW c \in Nat, NEW c2 \in Nat, NEW events \in Seq(Eids),
           NEW e \in Eids, NEW m \in Nat, NEW m2 \in Nat, m2 \in {m, m + 1},
           \A i \in 1 .. Len(events) : events[i] # e,
           Good(d, c, events, m),
           c2 = c \/ (c2 = 0 /\ m2 = m /\ m > 0 /\ m <= Len(events)
                        /\ c = events[Len(events) + 1 - m] /\ Injective(events))
    PROVE  Good(d, c2, Append(events, e), m2)
<1> DEFINE new == Append(events, e)
<1>1. /\ new \in Seq(Eids) /\ Len(new) = Len(events) + 1 /\ Len(events) \in Nat /\ Len(d) \in Nat
      /\ \A a \in 1 .. Len(events) : new[a] = events[a]
      /\ new[Len(events) + 1] = e
  BY SMT
<1> HIDE DEF new
<1>2. ASSUME NEW i \in 1 .. Len(d), NEW a \in 1 .. Len(new), d[i] = new[a]
      PROVE  a \in 1 .. Len(events) /\ d[i] = events[a]
  <2>1. PICK b \in 1 .. Len(events) : d[i] = events[b]
    BY Zenon DEF Good, InOrder
  <2>2. a # Len(events) + 1
    BY Zenon, <1>1, <1>2, <2>1
  <2>3. a \in 1 .. Len(events)
    BY SMT, <1>1, <2>2
  <2> QED
    BY Zenon, <1>1, <1>2, <2>3
<1>3. InOrder(d, new)
  <2>1. ASSUME NEW i \in 1 .. Len(d) PROVE \E a \in 1 .. Len(new) : d[i] = new[a]
    <3>1. PICK a \in 1 .. Len(events) : d[i] = events[a]
      BY Zenon DEF Good, InOrder
    <3>2. a \in 1 .. Len(new)
      BY SMT, <1>1
    <3> QED
      BY Zenon, <1>1, <3>1, <3>2
  <2>2. ASSUME NEW i \in 1 .. Len(d), NEW j \in 1 .. Len(d), NEW a \in 1 .. Len(new),
               NEW b \in 1 .. Len(new), i < j, d[i] = new[a], d[j] = new[b]
        PROVE  a < b
    <3>1. a \in 1 .. Len(events) /\ d[i] = events[a] /\ b \in 1 .. Len(events) /\ d[j] = events[b]
      BY Zenon, <1>2, <2>2
    <3> QED
      BY Zenon, <2>2, <3>1 DEF Good, InOrder
  <2> QED
    BY Zenon, <2>1, <2>2 DEF InOrder
<1>4. NoneMissed(d, new, m2)
  <2> SUFFICES ASSUME Len(d) > 0, NEW a \in 1 .. Len(new), NEW b \in 1 .. Len(new),
                      d[Len(d)] = new[b], a <= b, a > Len(new) - m2
               PROVE  \E i \in 1 .. Len(d) : d[i] = new[a]
    BY Zenon DEF NoneMissed
  <2>1. Len(d) \in 1 .. Len(d)
    BY SMT, <1>1
  <2>2. b \in 1 .. Len(events) /\ d[Len(d)] = events[b]
    BY Zenon, <1>2, <2>1
  <2>3. a \in 1 .. Len(events) /\ a > Len(events) - m
    BY SMT, <1>1, <2>2
  <2>4. \E i \in 1 .. Len(d) : d[i] = events[a]
    BY Zenon, <2>2, <2>3 DEF Good, NoneMissed
  <2> QED
    BY Zenon, <1>1, <2>3, <2>4
<1>5. CursorAtLast(d, c2, new, m2)
  <2>1. c2 # 0 => Len(d) > 0 /\ c2 = d[Len(d)]
    BY Zenon DEF Good, CursorAtLast
  <2>2. ASSUME c2 = 0, Len(d) > 0, NEW a \in 1 .. Len(new), d[Len(d)] = new[a]
        PROVE  a <= Len(new) - m2
    <3>1. Len(d) \in 1 .. Len(d)
      BY SMT, <1>1, <2>2
    <3>2. a \in 1 .. Len(events) /\ d[Len(d)] = events[a]
      BY Zenon, <1>2, <2>2, <3>1
    <3>3. CASE c2 = c
      <4>1. a <= Len(events) - m
        BY Zenon, <2>2, <3>2, <3>3 DEF Good, CursorAtLast
      <4> QED
        BY SMT, <1>1, <3>2, <4>1
    <3>4. CASE c2 # c
      <4>0. c # 0 /\ m2 = m /\ m > 0 /\ m <= Len(events)
            /\ c = events[Len(events) + 1 - m] /\ Injective(events)
        BY Zenon, <2>2, <3>4
      <4>1. c = events[a]
        BY Zenon, <3>2, <4>0 DEF Good, CursorAtLast
      <4>2. Len(events) + 1 - m \in 1 .. Len(events)
        BY SMT, <1>1, <4>0
      <4>3. a = Len(events) + 1 - m
        BY Zenon, <3>2, <4>0, <4>1, <4>2 DEF Injective
      <4> QED
        BY SMT, <1>1, <4>0, <4>3
    <3> QED
      BY Zenon, <3>3, <3>4
  <2> QED
    BY Zenon, <2>1, <2>2 DEF CursorAtLast
<1> QED
  BY Zenon, <1>3, <1>4, <1>5 DEF Good, new

(* All events are drained.                                                 *)
LEMMA GoodDrain ==
    ASSUME NEW d \in Seq(Eids), NEW c, NEW events \in Seq(Eids), NEW m \in Nat,
           Good(d, c, events, m)
    PROVE  Good(d, 0, events, 0)
<1>1. InOrder(d, events)
  BY Zenon DEF Good
<1>2. Len(events) \in Nat
  BY SMT
<1>3. NoneMissed(d, events, 0) /\ CursorAtLast(d, 0, events, 0)
  BY SMT, <1>2 DEF NoneMissed, CursorAtLast
<1> QED
  BY Zenon, <1>1, <1>3 DEF Good

(* The next event, number k of events, is read.                            *)
LEMMA GoodNext ==
    ASSUME NEW d \in Seq(Eids), NEW c \in Nat, NEW events \in Seq(Eids), NEW m \in Nat,
           m <= Len(events), Injective(events), Good(d, c, events, m),
           NEW k \in 1 .. Len(events), k > Len(events) - m,
           c = 0 => k = Len(events) + 1 - m,
           c # 0 => k > 1 /\ c = events[k - 1]
    PROVE  Good(Append(d, events[k]), events[k], events, m)
<1> DEFINE e == events[k]
           new == Append(d, e)
<1>1. /\ e \in Eids /\ Len(d) \in Nat /\ Len(events) \in Nat
      /\ new \in Seq(Eids) /\ Len(new) = Len(d) + 1
      /\ \A i \in 1 .. Len(d) : new[i] = d[i]
      /\ new[Len(d) + 1] = e
  BY SMT
<1>i. InOrder(d, events) /\ NoneMissed(d, events, m) /\ CursorAtLast(d, c, events, m)
  BY Zenon DEF Good
<1>u. \A a \in 1 .. Len(events) : events[a] = e => a = k
  BY Zenon DEF Injective
<1> HIDE DEF e, new
(* what came before has a lower number *)
<1>2. ASSUME Len(d) > 0, NEW a \in 1 .. Len(events), d[Len(d)] = events[a] PROVE a < k
  <2>1. CASE c = 0
    <3>1. a <= Len(events) - m
      BY Zenon, <1>i, <1>2, <2>1 DEF CursorAtLast
    <3> QED
      BY SMT, <1>1, <3>1
  <2>2. CASE c # 0
    <3>1. events[a] = events[k - 1] /\ k > 1
      BY Zenon, <1>i, <1>2, <2>2 DEF CursorAtLast
    <3>2. k - 1 \in 1 .. Len(events)
      BY SMT, <1>1, <3>1
    <3>3. a = k - 1
      BY Zenon, <3>1, <3>2 DEF Injective
    <3> QED
      BY SMT, <3>3
  <2> QED
    BY Zenon, <2>1, <2>2
<1>3. ASSUME NEW i \in 1 .. Len(d), NEW a \in 1 .. Len(events), d[i] = events[a] PROVE a < k
  <2>1. Len(d) > 0 /\ Len(d) \in 1 .. Len(d) /\ (i = Len(d) \/ i < Len(d))
    BY SMT, <1>1
  <2>2. PICK b \in 1 .. Len(events) : d[Len(d)] = events[b]
    BY Zenon, <1>i, <2>1 DEF InOrder
  <2>3. b < k
    BY Zenon, <1>2, <2>1, <2>2
  <2>4. CASE i = Len(d)
    BY Zenon, <1>2, <1>3, <2>1, <2>4
  <2>5. CASE i < Len(d)
    <3>1. a < b
      BY Zenon, <1>i, <1>3, <2>1, <2>2, <2>5 DEF InOrder
    <3> QED
      BY SMT, <2>3, <3>1
  <2> QED
    BY Zenon, <2>1, <2>4, <2>5
<1>4. ASSUME NEW i \in 1 .. Len(new)
      PROVE  (i \in 1 .. Len(d) /\ new[i] = d[i]) \/ (i = Len(d) + 1 /\ new[i] = e)
  BY SMT, <1>1
<1>5. InOrder(new, events)
  <2>1. ASSUME NEW i \in 1 .. Len(new) PROVE \E a \in 1 .. Len(events) : new[i] = events[a]
    BY Zenon, <1>4, <1>i DEF InOrder, e
  <2>2. ASSUME NEW i \in 1 .. Len(new), NEW j \in 1 .. Len(new), NEW a \in 1 .. Len(events),
               NEW b \in 1 .. Len(events), i < j, new[i] = events[a], new[j] = events[b]
        PROVE  a < b
    <3>1. i \in 1 .. Len(d) /\ new[i] = d[i]
      <4>1. i # Len(d) + 1
        BY SMT, <1>1, <2>2
      <4> QED
        BY Zenon, <1>4, <4>1
    <3>2. CASE j \in 1 .. Len(d) /\ new[j] = d[j]
      BY Zenon, <1>i, <2>2, <3>1, <3>2 DEF InOrder
    <3>3. CASE j = Len(d) + 1 /\ new[j] = e
      <4>1. b = k
        BY Zenon, <1>u, <2>2, <3>3
      <4> QED
        BY Zenon, <1>3, <2>2, <3>1, <4>1
    <3> QED
      BY Zenon, <1>4, <3>2, <3>3
  <2> QED
    BY Zenon, <2>1, <2>2 DEF InOrder
<1>6. NoneMissed(new, events, m)
  <2> SUFFICES ASSUME NEW a \in 1 .. Len(events), NEW b \in 1 .. Len(events),
                      new[Len(new)] = events[b], a <= b, a > Len(events) - m
               PROVE  \E i \in 1 .. Len(new) : new[i] = events[a]
    BY Zenon DEF NoneMissed
  <2>1. new[Len(new)] = e /\ Len(new) \in 1 .. Len(new)
    <3>1. Len(new) \in 1 .. Len(new)
      BY SMT, <1>1
    <3> QED
      BY Zenon, <1>1, <3>1
  <2>2. b = k
    BY Zenon, <1>u, <2>1
  <2>3. CASE a = k
    BY Zenon, <2>1, <2>3 DEF e
  <2>4. CASE a # k
    <3>1. a < k
      BY SMT, <2>2, <2>4
    <3>2. c # 0
      <4>1. k # Len(events) + 1 - m
        BY SMT, <1>1, <3>1
      <4> QED
        BY Zenon, <4>1
    <3>3. Len(d) > 0 /\ d[Len(d)] = events[k - 1] /\ k > 1
      BY Zenon, <1>i, <3>2 DEF CursorAtLast
    <3>4. k - 1 \in 1 .. Len(events) /\ a <= k - 1
      BY SMT, <1>1, <3>1, <3>3
    <3>5. PICK i \in 1 .. Len(d) : d[i] = events[a]
      BY Zenon, <1>i, <3>3, <3>4 DEF NoneMissed
    <3>6. i \in 1 .. Len(new)
      BY SMT, <1>1
    <3> QED
      BY Zenon, <1>1, <3>5, <3>6
  <2> QED
    BY Zenon, <2>3, <2>4
<1>7. CursorAtLast(new, e, events, m)
  <2>1. e # 0 /\ Len(new) > 0 /\ Len(new) = Len(d) + 1
    BY SMT, <1>1 DEF Eids
  <2>2. new[Len(new)] = e
    BY Zenon, <1>1
  <2> QED
    BY Zenon, <2>1, <2>2 DEF CursorAtLast
<1> QED
  BY Zenon, <1>5, <1>6, <1>7 DEF Good, e, new

-----------------------------------------------------------------------------
(* QueueInv is inductive.                                                  *)

LEMMA QueueInit == Init => QueueInv
<1> SUFFICES ASSUME Init PROVE QueueInv
  OBVIOUS
<1>1. /\ zevent_list = <<>> /\ zevent_len_cur = 0 /\ zevent_eid = 0 /\ posted = <<>>
      /\ ze_zevent = [r \in Readers |-> 0] /\ post_eid = [p \in Posters |-> 0]
      /\ delivered = [r \in Readers |-> <<>>]
  BY Zenon DEF Init
<1>2. <<>> \in Seq(Eids) /\ Len(<<>>) = 0 /\ 0 \in Nat
  BY SMT
<1>3. QueueType
  BY Zenon, <1>1, <1>2 DEF QueueType
<1>4. EidInv
  BY SMT, <1>1, <1>2 DEF EidInv, Injective
<1>5. Recent(zevent_list, posted)
  BY SMT, <1>1, <1>2 DEF Recent
<1>6. ReadInv
  <2>1. \A r \in Readers : ze_zevent[r] = 0 /\ delivered[r] = <<>>
    BY Zenon, <1>1
  <2>2. Good(<<>>, 0, posted, Len(zevent_list))
    BY Zenon, <1>1, <1>2, GoodEmpty
  <2> QED
    BY Zenon, <2>1, <2>2 DEF ReadInv
<1> QED
  BY Zenon, <1>3, <1>4, <1>5, <1>6 DEF QueueInv

LEMMA QueueSame ==
    ASSUME QueueInv, UNCHANGED <<zevent_list, zevent_len_cur, posted, zevent_eid, post_eid,
                                 ze_zevent, delivered>>
    PROVE  QueueInv'
<1>1. QueueType' /\ EidInv'
  BY Zenon DEF QueueInv, QueueType, EidInv
<1>2. Recent(zevent_list, posted)'
  BY Zenon DEF QueueInv
<1>3. ReadInv'
  BY Zenon DEF QueueInv, ReadInv
<1> QED
  BY Zenon, <1>1, <1>2, <1>3 DEF QueueInv

LEMMA TakeEidQueue ==
    ASSUME QueueInv, NEW p \in Posters, PostTakeEid(p) PROVE QueueInv'
<1>i. QueueType /\ EidInv /\ Recent(zevent_list, posted) /\ ReadInv
  BY Zenon DEF QueueInv
<1>1. /\ zevent_eid' = zevent_eid + 1 /\ post_eid' = [post_eid EXCEPT ![p] = zevent_eid + 1]
      /\ zevent_list' = zevent_list /\ zevent_len_cur' = zevent_len_cur /\ posted' = posted
      /\ ze_zevent' = ze_zevent /\ delivered' = delivered
  BY Zenon DEF PostTakeEid, queue, cursors
<1>2. zevent_eid \in Nat /\ zevent_eid + 1 \in Nat
  BY SMT, <1>i DEF QueueType
<1>3. QueueType'
  BY Zenon, <1>i, <1>1, <1>2 DEF QueueType
<1>t. /\ \A i \in 1 .. Len(posted) : posted[i] \in Nat
      /\ \A q \in Posters : post_eid[q] \in Nat
  BY SMT, <1>i DEF QueueType, Eids
<1>4. /\ \A i \in 1 .. Len(posted) : posted[i] <= zevent_eid + 1 /\ posted[i] # zevent_eid + 1
      /\ \A q \in Posters : post_eid[q] <= zevent_eid + 1 /\ post_eid[q] # zevent_eid + 1
      /\ zevent_eid + 1 <= zevent_eid + 1
  BY SMT, <1>i, <1>2, <1>t DEF EidInv
<1>5. \A q \in Posters : post_eid'[q] = IF q = p THEN zevent_eid + 1 ELSE post_eid[q]
  BY Zenon, <1>i, <1>1 DEF QueueType
<1>6. EidInv'
  <2>1. \A i \in 1 .. Len(posted) : posted[i] <= zevent_eid'
    BY Zenon, <1>1, <1>4
  <2>2. ASSUME NEW q \in Posters
        PROVE  /\ post_eid'[q] <= zevent_eid'
               /\ \A i \in 1 .. Len(posted) : posted[i] # post_eid'[q]
               /\ \A o \in Posters : post_eid'[q] # 0 /\ post_eid'[q] = post_eid'[o] => q = o
    <3>1. CASE q = p
      BY Zenon, <1>1, <1>4, <1>5, <3>1
    <3>2. CASE q # p
      <4>1. post_eid'[q] = post_eid[q]
        BY Zenon, <1>5, <3>2
      <4>2. /\ \A i \in 1 .. Len(posted) : posted[i] # post_eid[q]
            /\ \A o \in Posters : post_eid[q] # 0 /\ post_eid[q] = post_eid[o] => q = o
        BY Zenon, <1>i DEF EidInv
      <4> QED
        BY Zenon, <1>1, <1>4, <1>5, <4>1, <4>2
    <3> QED
      BY Zenon, <3>1, <3>2
  <2>3. Injective(posted)
    BY Zenon, <1>i DEF EidInv
  <2> QED
    BY Zenon, <1>1, <2>1, <2>2, <2>3 DEF EidInv
<1>7. Recent(zevent_list, posted)' /\ ReadInv'
  BY Zenon, <1>i, <1>1 DEF ReadInv
<1> QED
  BY Zenon, <1>3, <1>6, <1>7 DEF QueueInv

LEMMA FailQueue ==
    ASSUME QueueInv, NEW p \in Posters, PostFail(p) PROVE QueueInv'
<1>i. QueueType /\ EidInv /\ Recent(zevent_list, posted) /\ ReadInv
  BY Zenon DEF QueueInv
<1>1. /\ zevent_eid' = zevent_eid /\ post_eid' = [post_eid EXCEPT ![p] = 0]
      /\ zevent_list' = zevent_list /\ zevent_len_cur' = zevent_len_cur /\ posted' = posted
      /\ ze_zevent' = ze_zevent /\ delivered' = delivered
  BY Zenon DEF PostFail, queue, cursors
<1>2. zevent_eid \in Nat /\ 0 \in Nat /\ 0 <= zevent_eid
  BY SMT, <1>i DEF QueueType
<1>3. QueueType'
  BY Zenon, <1>i, <1>1, <1>2 DEF QueueType
<1>4. \A i \in 1 .. Len(posted) : posted[i] # 0
  BY SMT, <1>i DEF QueueType, Eids
<1>5. \A q \in Posters : post_eid'[q] = IF q = p THEN 0 ELSE post_eid[q]
  BY Zenon, <1>i, <1>1 DEF QueueType
<1>6. EidInv'
  <2>1. ASSUME NEW q \in Posters
        PROVE  /\ post_eid'[q] <= zevent_eid
               /\ \A i \in 1 .. Len(posted) : posted[i] # post_eid'[q]
               /\ \A o \in Posters : post_eid'[q] # 0 /\ post_eid'[q] = post_eid'[o] => q = o
    <3>1. /\ post_eid[q] <= zevent_eid
          /\ \A i \in 1 .. Len(posted) : posted[i] # post_eid[q]
          /\ \A o \in Posters : post_eid[q] # 0 /\ post_eid[q] = post_eid[o] => q = o
      BY Zenon, <1>i DEF EidInv
    <3> QED
      BY Zenon, <1>2, <1>4, <1>5, <3>1
  <2>2. /\ \A i \in 1 .. Len(posted) : posted[i] <= zevent_eid
        /\ Injective(posted)
    BY Zenon, <1>i DEF EidInv
  <2> QED
    BY Zenon, <1>1, <2>1, <2>2 DEF EidInv
<1>7. Recent(zevent_list, posted)' /\ ReadInv'
  BY Zenon, <1>i, <1>1 DEF ReadInv
<1> QED
  BY Zenon, <1>3, <1>6, <1>7 DEF QueueInv

(* The list after an insertion, whether or not the tail was drained.       *)
LEMMA InsertedList ==
    ASSUME NEW list \in Seq(Eids), NEW e \in Eids
    PROVE  LET inserted == <<e>> \o list
               kept == SubSeq(inserted, 1, Len(inserted) - 1)
           IN  /\ inserted \in Seq(Eids) /\ Len(inserted) = Len(list) + 1
               /\ inserted[1] = e /\ \A i \in 1 .. Len(list) : inserted[i + 1] = list[i]
               /\ kept \in Seq(Eids) /\ Len(kept) = Len(list)
               /\ \A i \in 1 .. Len(list) : kept[i] = inserted[i]
BY SMT

LEMMA RecentPost ==
    ASSUME NEW list \in Seq(Eids), NEW new \in Seq(Eids), NEW events \in Seq(Eids), NEW e \in Eids,
           Recent(list, events), Len(new) \in {Len(list), Len(list) + 1},
           \A i \in 1 .. Len(new) : new[i] = IF i = 1 THEN e ELSE list[i - 1]
    PROVE  Recent(new, Append(events, e))
<1>1. /\ Len(Append(events, e)) = Len(events) + 1
      /\ Append(events, e)[Len(events) + 1] = e
      /\ \A i \in 1 .. Len(events) : Append(events, e)[i] = events[i]
      /\ Len(events) \in Nat /\ Len(list) \in Nat /\ Len(new) \in Nat
  BY SMT
<1>2. /\ Len(list) <= Len(events)
      /\ \A i \in 1 .. Len(list) : list[i] = events[Len(events) + 1 - i]
  BY Zenon DEF Recent
<1> DEFINE all == Append(events, e)
<1> HIDE DEF all
<1>3. ASSUME NEW i \in 1 .. Len(new) PROVE new[i] = all[Len(all) + 1 - i]
  <2>1. Len(all) + 1 - i = Len(events) + 1 - (i - 1)
    BY SMT, <1>1 DEF all
  <2>2. CASE i = 1
    <3>1. Len(all) + 1 - i = Len(events) + 1
      BY SMT, <1>1, <2>2 DEF all
    <3> QED
      BY Zenon, <1>1, <2>2, <3>1 DEF all
  <2>3. CASE i # 1
    <3>1. i - 1 \in 1 .. Len(list) /\ Len(events) + 1 - (i - 1) \in 1 .. Len(events)
      BY SMT, <1>1, <1>2, <2>3
    <3>2. new[i] = events[Len(events) + 1 - (i - 1)]
      BY Zenon, <1>2, <2>3, <3>1
    <3> QED
      BY Zenon, <1>1, <2>1, <3>1, <3>2 DEF all
  <2> QED
    BY Zenon, <2>2, <2>3
<1>4. Len(new) <= Len(all)
  BY SMT, <1>1, <1>2 DEF all
<1> QED
  BY Zenon, <1>3, <1>4 DEF Recent, all

LEMMA InsertQueue ==
    ASSUME QueueInv, NEW p \in Posters, PostInsert(p) PROVE QueueInv'
<1>i. QueueType /\ EidInv /\ Recent(zevent_list, posted) /\ ReadInv
  BY Zenon DEF QueueInv
<1> DEFINE e == post_eid[p]
           inserted == <<e>> \o zevent_list
           tail == inserted[Len(inserted)]
           kept == SubSeq(inserted, 1, Len(inserted) - 1)
<1>e. e \in Eids /\ e # 0
  BY SMT, <1>i DEF PostInsert, QueueType, Eids
<1>1. /\ posted' = Append(posted, e) /\ post_eid' = [post_eid EXCEPT ![p] = 0]
      /\ zevent_eid' = zevent_eid /\ delivered' = delivered
  BY Zenon DEF PostInsert
<1>2. \/ /\ zevent_len_cur >= LenMax /\ zevent_list' = kept
         /\ zevent_len_cur' = zevent_len_cur /\ DropCursors({tail})
      \/ /\ zevent_list' = inserted /\ zevent_len_cur' = zevent_len_cur + 1
         /\ UNCHANGED cursors
  BY Zenon DEF PostInsert
<1>3. /\ inserted \in Seq(Eids) /\ Len(inserted) = Len(zevent_list) + 1
      /\ inserted[1] = e /\ \A i \in 1 .. Len(zevent_list) : inserted[i + 1] = zevent_list[i]
      /\ kept \in Seq(Eids) /\ Len(kept) = Len(zevent_list)
      /\ \A i \in 1 .. Len(zevent_list) : kept[i] = inserted[i]
  BY Zenon, <1>i, <1>e, InsertedList DEF QueueType
<1>4. /\ Len(zevent_list) \in Nat /\ Len(posted) \in Nat /\ zevent_len_cur = Len(zevent_list)
      /\ Append(posted, e) \in Seq(Eids) /\ Len(Append(posted, e)) = Len(posted) + 1
      /\ \A i \in 1 .. Len(posted) : Append(posted, e)[i] = posted[i]
      /\ Append(posted, e)[Len(posted) + 1] = e
      /\ LenMax > 0
      /\ \A i \in 1 .. Len(posted) : posted[i] # 0
  BY SMT, <1>i, <1>e, LenMaxAssumption DEF QueueType, Eids
<1> HIDE DEF e, inserted, tail, kept
<1>5. ASSUME NEW i \in 1 .. Len(inserted) PROVE inserted[i] = IF i = 1 THEN e ELSE zevent_list[i - 1]
  <2>1. i = 1 \/ (i # 1 /\ i - 1 \in 1 .. Len(zevent_list) /\ (i - 1) + 1 = i)
    BY SMT, <1>3, <1>4
  <2> QED
    BY Zenon, <1>3, <2>1
<1>6. ASSUME NEW i \in 1 .. Len(kept) PROVE kept[i] = IF i = 1 THEN e ELSE zevent_list[i - 1]
  <2>1. i \in 1 .. Len(inserted)
    BY SMT, <1>3, <1>4
  <2> QED
    BY Zenon, <1>3, <1>5, <2>1
<1>7. /\ zevent_list' \in Seq(Eids) /\ Len(zevent_list') \in {Len(zevent_list), Len(zevent_list) + 1}
      /\ zevent_len_cur' = Len(zevent_list')
      /\ \A i \in 1 .. Len(zevent_list') : zevent_list'[i] = IF i = 1 THEN e ELSE zevent_list[i - 1]
  BY Zenon, <1>2, <1>3, <1>4, <1>5, <1>6
<1>8. Recent(zevent_list, posted)'
  <2>1. zevent_list \in Seq(Eids) /\ posted \in Seq(Eids)
    BY Zenon, <1>i DEF QueueType
  <2>2. Recent(zevent_list', Append(posted, e))
    BY Zenon, <1>i, <1>e, <1>7, <2>1, RecentPost
  <2> QED
    BY Zenon, <1>1, <2>2
<1>9. ASSUME NEW r \in Readers
      PROVE  /\ ze_zevent'[r] \in Nat
             /\ \/ ze_zevent'[r] = ze_zevent[r]
                \/ /\ ze_zevent'[r] = 0 /\ Len(zevent_list') = Len(zevent_list)
                   /\ Len(zevent_list) > 0 /\ ze_zevent[r] = zevent_list[Len(zevent_list)]
             /\ ze_zevent'[r] # 0 => OnList(ze_zevent'[r], zevent_list')
  <2>0. ze_zevent[r] \in Nat /\ 0 \in Nat
    BY SMT, <1>i DEF QueueType
  <2>m. ASSUME ze_zevent[r] # 0,
               Len(zevent_list') = Len(zevent_list) => ze_zevent[r] # zevent_list[Len(zevent_list)]
        PROVE  OnList(ze_zevent[r], zevent_list')
    <3>1. PICK i \in 1 .. Len(zevent_list) : ze_zevent[r] = zevent_list[i]
      BY Zenon, <1>i, <2>m DEF ReadInv, OnList
    <3>2. i + 1 \in 1 .. Len(zevent_list') /\ i + 1 # 1 /\ (i + 1) - 1 = i
      <4>1. Len(zevent_list') = Len(zevent_list) => i # Len(zevent_list)
        BY Zenon, <2>m, <3>1
      <4> QED
        BY SMT, <1>4, <1>7, <4>1
    <3>3. zevent_list'[i + 1] = zevent_list[i]
      BY Zenon, <1>7, <3>2
    <3> QED
      BY Zenon, <3>1, <3>2, <3>3 DEF OnList
  <2>1. CASE zevent_len_cur >= LenMax /\ zevent_list' = kept /\ DropCursors({tail})
    <3>1. ze_zevent'[r] = IF ze_zevent[r] = tail THEN 0 ELSE ze_zevent[r]
      BY Zenon, <2>1 DEF DropCursors
    <3>2. Len(zevent_list) > 0
      BY SMT, <1>4, <2>1, LenMaxAssumption
    <3>3. tail = zevent_list[Len(zevent_list)]
      <4>1. Len(zevent_list) \in 1 .. Len(zevent_list)
        BY SMT, <1>4, <3>2
      <4> QED
        BY Zenon, <1>3, <4>1 DEF tail
    <3>4. Len(zevent_list') = Len(zevent_list)
      BY Zenon, <1>3, <2>1
    <3> QED
      BY Zenon, <2>0, <2>m, <3>1, <3>2, <3>3, <3>4
  <2>2. CASE zevent_list' = inserted /\ UNCHANGED cursors
    <3>1. ze_zevent'[r] = ze_zevent[r]
      BY Zenon, <2>2 DEF cursors
    <3>2. Len(zevent_list') # Len(zevent_list)
      <4>1. Len(zevent_list) + 1 # Len(zevent_list)
        BY SMT, <1>4
      <4> QED
        BY Zenon, <1>3, <2>2, <4>1
    <3> QED
      BY Zenon, <2>0, <2>m, <3>1, <3>2
  <2> QED
    BY Zenon, <1>2, <2>1, <2>2
<1>10. QueueType'
  <2>1. ze_zevent' \in [Readers -> Nat]
    <3>1. ze_zevent' = [r \in Readers |-> ze_zevent'[r]]
      BY Zenon, <1>2, <1>i DEF DropCursors, cursors, QueueType
    <3> QED
      BY Zenon, <1>9, <3>1
  <2>2. post_eid' \in [Posters -> Nat]
    <3>1. 0 \in Nat
      BY SMT
    <3> QED
      BY Zenon, <1>i, <1>1, <3>1 DEF QueueType
  <2>3. posted' \in Seq(Eids) /\ zevent_eid' \in Nat /\ delivered' \in [Readers -> Seq(Eids)]
    BY Zenon, <1>i, <1>1, <1>4 DEF QueueType
  <2> QED
    BY Zenon, <1>7, <2>1, <2>2, <2>3 DEF QueueType
<1>n. \A i \in 1 .. Len(posted) : posted[i] # e
  BY Zenon, <1>i DEF EidInv, e
<1>11. EidInv'
  <2>0. /\ \A i \in 1 .. Len(posted) : posted[i] <= zevent_eid
        /\ Injective(posted) /\ e <= zevent_eid
    BY Zenon, <1>i DEF EidInv, e
  <2>1. ASSUME NEW i \in 1 .. Len(posted')
        PROVE  (i \in 1 .. Len(posted) /\ posted'[i] = posted[i]) \/ (i = Len(posted) + 1 /\ posted'[i] = e)
    <3>1. i \in 1 .. Len(posted) \/ i = Len(posted) + 1
      BY SMT, <1>1, <1>4
    <3> QED
      BY Zenon, <1>1, <1>4, <3>1
  <2>2. \A i \in 1 .. Len(posted') : posted'[i] <= zevent_eid'
    BY Zenon, <1>1, <2>0, <2>1
  <2>3. Injective(posted)'
    <3> SUFFICES ASSUME NEW i \in 1 .. Len(posted'), NEW j \in 1 .. Len(posted'),
                        posted'[i] = posted'[j]
                 PROVE  i = j
      BY Zenon DEF Injective
    <3> QED
      BY Zenon, <1>n, <2>0, <2>1 DEF Injective
  <2>4. \A q \in Posters : post_eid'[q] = IF q = p THEN 0 ELSE post_eid[q]
    BY Zenon, <1>i, <1>1 DEF QueueType
  <2>5. ASSUME NEW q \in Posters
        PROVE  /\ post_eid'[q] <= zevent_eid'
               /\ \A i \in 1 .. Len(posted') : posted'[i] # post_eid'[q]
               /\ \A o \in Posters : post_eid'[q] # 0 /\ post_eid'[q] = post_eid'[o] => q = o
    <3>1. CASE q = p
      <4>1. 0 <= zevent_eid
        BY SMT, <1>i DEF QueueType
      <4> QED
        BY Zenon, <1>1, <1>4, <1>e, <2>1, <2>4, <3>1, <4>1
    <3>2. CASE q # p
      <4>1. post_eid'[q] = post_eid[q]
        BY Zenon, <2>4, <3>2
      <4>2. /\ post_eid[q] <= zevent_eid
            /\ \A i \in 1 .. Len(posted) : posted[i] # post_eid[q]
            /\ \A o \in Posters : post_eid[q] # 0 /\ post_eid[q] = post_eid[o] => q = o
        BY Zenon, <1>i DEF EidInv
      <4>3. e # post_eid[q]
        BY Zenon, <1>e, <3>2, <4>2 DEF e
      <4> QED
        BY Zenon, <1>1, <2>1, <2>4, <4>1, <4>2, <4>3
    <3> QED
      BY Zenon, <3>1, <3>2
  <2> QED
    BY Zenon, <2>2, <2>3, <2>5 DEF EidInv
<1>12. ReadInv'
  <2>1. ASSUME NEW r \in Readers \ Seekers
        PROVE  Good(delivered[r], ze_zevent'[r], Append(posted, e), Len(zevent_list'))
    <3>1. /\ delivered[r] \in Seq(Eids) /\ ze_zevent[r] \in Nat /\ posted \in Seq(Eids)
          /\ Good(delivered[r], ze_zevent[r], posted, Len(zevent_list))
          /\ Injective(posted)
      BY Zenon, <1>i DEF QueueType, ReadInv, EidInv
    <3>2. Len(zevent_list') \in Nat
      BY SMT, <1>4, <1>7
    <3>3. ASSUME Len(zevent_list) > 0
          PROVE  /\ Len(zevent_list) <= Len(posted)
                 /\ zevent_list[Len(zevent_list)] = posted[Len(posted) + 1 - Len(zevent_list)]
      <4>1. Len(zevent_list) \in 1 .. Len(zevent_list)
        BY SMT, <1>4, <3>3
      <4> QED
        BY Zenon, <1>i, <4>1 DEF Recent
    <3>4. \/ ze_zevent'[r] = ze_zevent[r]
          \/ /\ ze_zevent'[r] = 0 /\ Len(zevent_list') = Len(zevent_list)
             /\ Len(zevent_list) > 0 /\ Len(zevent_list) <= Len(posted)
             /\ ze_zevent[r] = posted[Len(posted) + 1 - Len(zevent_list)]
             /\ Injective(posted)
      BY Zenon, <1>9, <3>1, <3>3
    <3>5. PICK c2 \in Nat : c2 = ze_zevent'[r]
      BY Zenon, <1>9
    <3>6. PICK m2 \in Nat : m2 = Len(zevent_list')
      BY Zenon, <3>2
    <3>7. Good(delivered[r], c2, Append(posted, e), m2)
      BY Zenon, <1>e, <1>n, <1>4, <1>7, <3>1, <3>4, <3>5, <3>6, GoodPost
    <3> QED
      BY Zenon, <3>5, <3>6, <3>7
  <2> QED
    BY Zenon, <1>1, <1>9, <2>1 DEF ReadInv
<1> QED
  BY Zenon, <1>8, <1>10, <1>11, <1>12 DEF QueueInv

(* zfs_zevent_next finds the event that was posted after the one under the *)
(* cursor, or the oldest on the list.                                      *)
LEMMA NextEventIs ==
    ASSUME QueueInv, NEW r \in Readers, NextEvent(r) # 0
    PROVE  \E k \in 1 .. Len(posted) :
               /\ NextEvent(r) = posted[k] /\ k > Len(posted) - Len(zevent_list)
               /\ ze_zevent[r] = 0 => k = Len(posted) + 1 - Len(zevent_list)
               /\ ze_zevent[r] # 0 => k > 1 /\ ze_zevent[r] = posted[k - 1]
               /\ OnList(NextEvent(r), zevent_list)
<1>i. QueueType /\ Recent(zevent_list, posted) /\ ReadInv
  BY Zenon DEF QueueInv
<1>1. /\ zevent_list \in Seq(Eids) /\ Len(zevent_list) \in Nat /\ Len(posted) \in Nat
      /\ Len(zevent_list) <= Len(posted)
  BY SMT, <1>i DEF QueueType, Recent
<1>2. \A i \in 1 .. Len(zevent_list) : zevent_list[i] = posted[Len(posted) + 1 - i]
  BY Zenon, <1>i DEF Recent
<1>3. CASE ze_zevent[r] = 0
  <2>1. zevent_list # <<>> /\ NextEvent(r) = zevent_list[Len(zevent_list)]
    BY Zenon, <1>3 DEF NextEvent
  <2>2. Len(zevent_list) \in 1 .. Len(zevent_list)
    BY SMT, <1>1, <2>1
  <2> DEFINE k == Len(posted) + 1 - Len(zevent_list)
  <2>3. k \in 1 .. Len(posted) /\ k > Len(posted) - Len(zevent_list)
    BY SMT, <1>1, <2>2
  <2>4. NextEvent(r) = posted[k]
    BY Zenon, <1>2, <2>1, <2>2
  <2> QED
    BY Zenon, <1>3, <2>1, <2>2, <2>3, <2>4 DEF OnList
<1>4. CASE ze_zevent[r] # 0
  <2> DEFINE i == Index(zevent_list, ze_zevent[r])
  <2>1. i \in 1 .. Len(zevent_list) /\ zevent_list[i] = ze_zevent[r]
    <3>1. \E j \in 1 .. Len(zevent_list) : zevent_list[j] = ze_zevent[r]
      BY Zenon, <1>4, <1>i DEF ReadInv, OnList
    <3> QED
      BY Zenon, <3>1 DEF Index
  <2>2. i # 1 /\ NextEvent(r) = zevent_list[i - 1]
    BY Zenon, <1>4 DEF NextEvent
  <2> HIDE DEF i
  <2>3. i - 1 \in 1 .. Len(zevent_list)
    BY SMT, <1>1, <2>1, <2>2
  <2> DEFINE k == Len(posted) + 1 - (i - 1)
  <2>4. /\ k \in 1 .. Len(posted) /\ k > Len(posted) - Len(zevent_list) /\ k > 1
        /\ k - 1 = Len(posted) + 1 - i
    BY SMT, <1>1, <2>1, <2>3
  <2>5. NextEvent(r) = posted[k] /\ ze_zevent[r] = posted[Len(posted) + 1 - i]
    BY Zenon, <1>2, <2>1, <2>2, <2>3
  <2>6. OnList(NextEvent(r), zevent_list)
    BY Zenon, <2>2, <2>3 DEF OnList
  <2> HIDE DEF k
  <2> QED
    BY Zenon, <1>4, <2>4, <2>5, <2>6
<1> QED
  BY Zenon, <1>3, <1>4

LEMMA NextQueue ==
    ASSUME QueueInv, NEW r \in Readers, ZeventNext(r) PROVE QueueInv'
<1>i. QueueType /\ EidInv /\ Recent(zevent_list, posted) /\ ReadInv
  BY Zenon DEF QueueInv
<1> DEFINE e == NextEvent(r)
<1>1. /\ ze_zevent' = [ze_zevent EXCEPT ![r] = e]
      /\ delivered' = [delivered EXCEPT ![r] = Append(delivered[r], e)]
      /\ e # 0
      /\ zevent_list' = zevent_list /\ zevent_len_cur' = zevent_len_cur /\ posted' = posted
      /\ zevent_eid' = zevent_eid /\ post_eid' = post_eid
  BY Zenon DEF ZeventNext, queue
<1>2. PICK k \in 1 .. Len(posted) :
               /\ e = posted[k] /\ k > Len(posted) - Len(zevent_list)
               /\ ze_zevent[r] = 0 => k = Len(posted) + 1 - Len(zevent_list)
               /\ ze_zevent[r] # 0 => k > 1 /\ ze_zevent[r] = posted[k - 1]
               /\ OnList(e, zevent_list)
  BY Zenon, <1>1, NextEventIs
<1> HIDE DEF e
<1>3. /\ e \in Eids /\ e \in Nat /\ delivered[r] \in Seq(Eids) /\ ze_zevent[r] \in Nat
      /\ posted \in Seq(Eids) /\ Len(zevent_list) \in Nat /\ Len(zevent_list) <= Len(posted)
      /\ Append(delivered[r], e) \in Seq(Eids)
  BY SMT, <1>i, <1>2 DEF QueueType, Recent, Eids
<1>4. QueueType'
  BY Zenon, <1>i, <1>1, <1>3 DEF QueueType
<1>5. EidInv' /\ Recent(zevent_list, posted)'
  BY Zenon, <1>i, <1>1 DEF EidInv
<1>6. ASSUME NEW q \in Readers
      PROVE  /\ ze_zevent'[q] = IF q = r THEN e ELSE ze_zevent[q]
             /\ delivered'[q] = IF q = r THEN Append(delivered[r], e) ELSE delivered[q]
  BY Zenon, <1>i, <1>1 DEF QueueType
<1>7. r \notin Seekers => Good(Append(delivered[r], e), e, posted, Len(zevent_list))
  <2>1. r \notin Seekers => Good(delivered[r], ze_zevent[r], posted, Len(zevent_list))
    BY Zenon, <1>i DEF ReadInv
  <2>2. Injective(posted)
    BY Zenon, <1>i DEF EidInv
  <2>3. r \notin Seekers => Good(Append(delivered[r], posted[k]), posted[k], posted, Len(zevent_list))
    BY Zenon, <1>2, <1>3, <2>1, <2>2, GoodNext
  <2> QED
    BY Zenon, <1>2, <2>3
<1>8. ReadInv'
  <2>1. \A q \in Readers : ze_zevent'[q] # 0 => OnList(ze_zevent'[q], zevent_list)
    BY Zenon, <1>i, <1>2, <1>6 DEF ReadInv
  <2>2. ASSUME NEW q \in Readers \ Seekers
        PROVE  Good(delivered'[q], ze_zevent'[q], posted, Len(zevent_list))
    BY Zenon, <1>i, <1>6, <1>7 DEF ReadInv
  <2> QED
    BY Zenon, <1>1, <2>1, <2>2 DEF ReadInv
<1> QED
  BY Zenon, <1>4, <1>5, <1>8 DEF QueueInv

LEMMA SeekQueue ==
    ASSUME QueueInv, NEW r \in Seekers, ZeventSeek(r) PROVE QueueInv'
<1>i. QueueType /\ EidInv /\ Recent(zevent_list, posted) /\ ReadInv
  BY Zenon DEF QueueInv
<1>1. PICK e \in {0} \cup Elements(zevent_list) : ze_zevent' = [ze_zevent EXCEPT ![r] = e]
  BY Zenon DEF ZeventSeek
<1>2. /\ zevent_list' = zevent_list /\ zevent_len_cur' = zevent_len_cur /\ posted' = posted
      /\ zevent_eid' = zevent_eid /\ post_eid' = post_eid /\ delivered' = delivered
  BY Zenon DEF ZeventSeek, queue
<1>3. e \in Nat /\ (e # 0 => OnList(e, zevent_list))
  BY SMT, <1>i DEF Elements, OnList, QueueType, Eids
<1>4. \A q \in Readers : ze_zevent'[q] = IF q = r THEN e ELSE ze_zevent[q]
  BY Zenon, <1>i, <1>1 DEF QueueType
<1>5. QueueType'
  BY Zenon, <1>i, <1>1, <1>2, <1>3 DEF QueueType
<1>6. EidInv' /\ Recent(zevent_list, posted)'
  BY Zenon, <1>i, <1>2 DEF EidInv
<1>7. ReadInv'
  <2>1. \A q \in Readers : ze_zevent'[q] # 0 => OnList(ze_zevent'[q], zevent_list)
    BY Zenon, <1>i, <1>3, <1>4 DEF ReadInv
  <2>2. \A q \in Readers \ Seekers : ze_zevent'[q] = ze_zevent[q]
    BY Zenon, <1>4
  <2> QED
    BY Zenon, <1>i, <1>2, <2>1, <2>2 DEF ReadInv
<1> QED
  BY Zenon, <1>5, <1>6, <1>7 DEF QueueInv

LEMMA DrainQueue ==
    ASSUME QueueInv, DrainAll, UNCHANGED <<zevent_eid, post_eid, delivered>> PROVE QueueInv'
<1>i. QueueType /\ EidInv /\ Recent(zevent_list, posted) /\ ReadInv
  BY Zenon DEF QueueInv
<1>1. /\ zevent_list' = <<>> /\ zevent_len_cur' = 0 /\ posted' = posted
      /\ ze_zevent' = [r \in Readers |->
                         IF ze_zevent[r] \in Elements(zevent_list) THEN 0 ELSE ze_zevent[r]]
  BY Zenon DEF DrainAll, DropCursors
<1>2. ASSUME NEW r \in Readers PROVE ze_zevent'[r] = 0
  <2>1. ze_zevent[r] # 0 => ze_zevent[r] \in Elements(zevent_list)
    BY Zenon, <1>i DEF ReadInv, OnList, Elements
  <2> QED
    BY Zenon, <1>1, <2>1
<1>3. <<>> \in Seq(Eids) /\ Len(<<>>) = 0 /\ 0 \in Nat /\ Len(zevent_list) \in Nat
  BY SMT, <1>i DEF QueueType
<1>4. QueueType'
  <2>1. ze_zevent' \in [Readers -> Nat]
    BY Zenon, <1>1, <1>i, <1>3 DEF QueueType
  <2> QED
    BY Zenon, <1>i, <1>1, <1>3, <2>1 DEF QueueType
<1>5. EidInv'
  BY Zenon, <1>i, <1>1 DEF EidInv
<1>6. Recent(zevent_list, posted)'
  <2>1. Recent(<<>>, posted)
    BY SMT, <1>i DEF Recent, QueueType
  <2> QED
    BY Zenon, <1>1, <2>1
<1>7. ReadInv'
  <2>1. ASSUME NEW r \in Readers \ Seekers PROVE Good(delivered[r], 0, posted, 0)
    <3>1. /\ delivered[r] \in Seq(Eids) /\ posted \in Seq(Eids)
          /\ Good(delivered[r], ze_zevent[r], posted, Len(zevent_list))
      BY Zenon, <1>i DEF QueueType, ReadInv
    <3> QED
      BY Zenon, <1>3, <3>1, GoodDrain
  <2> QED
    BY Zenon, <1>1, <1>2, <1>3, <2>1 DEF ReadInv
<1> QED
  BY Zenon, <1>4, <1>5, <1>6, <1>7 DEF QueueInv

LEMMA QueueStep == QueueInv /\ [Next]_vars => QueueInv'
<1> SUFFICES ASSUME QueueInv, [Next]_vars PROVE QueueInv'
  OBVIOUS
<1>1. CASE \E p \in Posters : PostTakeEid(p) \/ PostFail(p) \/ PostInsert(p)
  BY Zenon, <1>1, TakeEidQueue, FailQueue, InsertQueue
<1>2. ASSUME NEW r \in Readers, ReaderNext(r) PROVE QueueInv'
  <2>1. CASE ZeventNext(r)
    BY Zenon, <2>1, NextQueue
  <2>2. CASE ZeventNextNone(r) \/ ZeventNextReset(r) \/ ZeventWait(r) \/ ZeventWaitReturn(r)
    <3>1. UNCHANGED <<zevent_list, zevent_len_cur, posted, zevent_eid, post_eid,
                      ze_zevent, delivered>>
      BY Zenon, <2>2 DEF ZeventNextNone, ZeventNextReset, ZeventWait, ZeventWaitReturn,
         queue, cursors
    <3> QED
      BY Zenon, <3>1, QueueSame
  <2> QED
    BY Zenon, <1>2, <2>1, <2>2 DEF ReaderNext
<1>3. CASE \E r \in Seekers : ZeventSeek(r)
  BY Zenon, <1>3, SeekQueue
<1>4. CASE ZfsIocEventsClear \/ FmFini
  BY Zenon, <1>4, DrainQueue DEF ZfsIocEventsClear, FmFini
<1>5. CASE FmErptDroppedIncrement \/ FmFiniShutdown \/ FmFiniDestroy \/ UNCHANGED vars
  <2>1. UNCHANGED <<zevent_list, zevent_len_cur, posted, zevent_eid, post_eid,
                    ze_zevent, delivered>>
    BY Zenon, <1>5 DEF FmErptDroppedIncrement, FmFiniShutdown, FmFiniDestroy, vars, queue, cursors
  <2> QED
    BY Zenon, <2>1, QueueSame
<1> QED
  BY Zenon, <1>1, <1>2, <1>3, <1>4, <1>5 DEF Next

LEMMA PositionIs ==
    ASSUME NEW a \in 1 .. Len(posted), Injective(posted), NEW e, e = posted[a]
    PROVE  Position(e) = a
<1>1. \E i \in 1 .. Len(posted) : posted[i] = e
  BY Zenon
<1>2. Position(e) \in 1 .. Len(posted) /\ posted[Position(e)] = e
  BY Zenon, <1>1 DEF Position, Index
<1> QED
  BY Zenon, <1>2 DEF Injective

(* A reader that does not seek gets each event at most once and in the     *)
(* order of the list (zfs_zevent_next), and misses one that is still on    *)
(* the list never, whatever was drained, cleared and posted meanwhile,     *)
(* also if the EIDs are not in the order of the list.                      *)
THEOREM ReadersInOrder == Spec => []DeliveryInOrder
<1>1. QueueInv => DeliveryInOrder
  <2> SUFFICES ASSUME QueueInv, NEW r \in Readers \ Seekers
               PROVE  LET d == delivered[r] IN
                      /\ \A i, j \in 1 .. Len(d) : i < j => Position(d[i]) < Position(d[j])
                      /\ d # <<>> =>
                           \A e \in Elements(zevent_list) :
                               Position(e) < Position(d[Len(d)]) => e \in Elements(d)
    BY Zenon DEF DeliveryInOrder
  <2> DEFINE d == delivered[r]
  <2>1. /\ d \in Seq(Eids) /\ zevent_list \in Seq(Eids) /\ posted \in Seq(Eids)
        /\ InOrder(d, posted) /\ NoneMissed(d, posted, Len(zevent_list))
        /\ Injective(posted)
    BY Zenon DEF QueueInv, QueueType, EidInv, ReadInv, Good
  <2>2. Len(d) \in Nat /\ Len(zevent_list) \in Nat /\ Len(posted) \in Nat
    BY SMT, <2>1
  <2>d. d # <<>> => Len(d) > 0 /\ Len(d) \in 1 .. Len(d)
    BY SMT, <2>1
  <2> HIDE DEF d
  <2>3. ASSUME NEW i \in 1 .. Len(d), NEW j \in 1 .. Len(d), i < j
        PROVE  Position(d[i]) < Position(d[j])
    <3>1. PICK a \in 1 .. Len(posted) : d[i] = posted[a]
      BY Zenon, <2>1 DEF InOrder
    <3>2. PICK b \in 1 .. Len(posted) : d[j] = posted[b]
      BY Zenon, <2>1 DEF InOrder
    <3>3. a < b
      BY Zenon, <2>1, <2>3, <3>1, <3>2 DEF InOrder
    <3>4. Position(d[i]) = a /\ Position(d[j]) = b
      BY Zenon, <2>1, <3>1, <3>2, PositionIs
    <3> QED
      BY Zenon, <3>3, <3>4
  <2>4. ASSUME d # <<>>, NEW e \in Elements(zevent_list), Position(e) < Position(d[Len(d)])
        PROVE  e \in Elements(d)
    <3>1. PICK i \in 1 .. Len(zevent_list) : e = zevent_list[i]
      BY Zenon DEF Elements
    <3> DEFINE a == Len(posted) + 1 - i
    <3>2. e = posted[a] /\ Len(zevent_list) <= Len(posted)
      BY Zenon, <3>1 DEF QueueInv, Recent
    <3>3. a \in 1 .. Len(posted) /\ a > Len(posted) - Len(zevent_list)
      BY SMT, <2>2, <3>2
    <3> HIDE DEF a
    <3>4. PICK b \in 1 .. Len(posted) : d[Len(d)] = posted[b]
      BY Zenon, <2>1, <2>4, <2>d DEF InOrder
    <3>5. Position(e) = a /\ Position(d[Len(d)]) = b
      BY Zenon, <2>1, <3>2, <3>3, <3>4, PositionIs
    <3>6. a <= b
      BY SMT, <2>4, <3>3, <3>5
    <3>7. \E k \in 1 .. Len(d) : d[k] = posted[a]
      BY Zenon, <2>1, <2>4, <2>d, <3>3, <3>4, <3>6 DEF NoneMissed
    <3> QED
      BY Zenon, <3>2, <3>7 DEF Elements
  <2> QED
    BY Zenon, <2>3, <2>4 DEF d
<1> QED
  BY <1>1, QueueInit, QueueStep, PTL DEF Spec
=============================================================================
