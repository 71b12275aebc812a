--------------------------- MODULE RRWLockProofs ---------------------------
(***************************************************************************)
(* Safety of the re-entrant and reader-mostly locks, for any number of     *)
(* threads, tags and locks: IndInv of RRWLock is inductive, and the        *)
(* properties the runs check follow from it.                               *)
(***************************************************************************)
EXTENDS RRWLock, FiniteSetTheorems, WellFoundedInduction, TLAPS

-----------------------------------------------------------------------------
(* The holds on a lock.                                                    *)

\* The holds of a finite set on one lock can be counted.
LEMMA OnFinite ==
    ASSUME NEW S, IsFiniteSet(S), NEW l
    PROVE  /\ IsFiniteSet(On(S, l)) /\ Cardinality(On(S, l)) \in Nat
           /\ Cardinality(On(S, l)) = 0 <=> On(S, l) = {}
<1>1. On(S, l) \subseteq S
  BY Zenon DEF On
<1>2. IsFiniteSet(On(S, l))
  BY Zenon, <1>1, FS_Subset
<1> QED
  BY Zenon, <1>2, FS_CardinalityType, FS_EmptySet

\* rrn_add and refcount_add: a new hold counts once, on its thread's lock.
LEMMA OnAdd ==
    ASSUME NEW S, IsFiniteSet(S), NEW h, h \notin S, NEW l
    PROVE  /\ IsFiniteSet(S \cup {h})
           /\ TdLock[h.thread] = l =>
                Cardinality(On(S \cup {h}, l)) = Cardinality(On(S, l)) + 1
           /\ TdLock[h.thread] # l => On(S \cup {h}, l) = On(S, l)
<1>1. IsFiniteSet(S \cup {h})
  BY Zenon, FS_AddElement
<1>2. ASSUME TdLock[h.thread] = l
      PROVE  Cardinality(On(S \cup {h}, l)) = Cardinality(On(S, l)) + 1
  <2>1. On(S \cup {h}, l) = On(S, l) \cup {h} /\ h \notin On(S, l)
    BY Zenon, <1>2 DEF On
  <2> QED
    BY ZenonT(20), <2>1, OnFinite, FS_AddElement
<1>3. ASSUME TdLock[h.thread] # l PROVE On(S \cup {h}, l) = On(S, l)
  BY Zenon, <1>3 DEF On
<1> QED
  BY Zenon, <1>1, <1>2, <1>3

\* rrn_find_and_remove and refcount_remove.
LEMMA OnRemove ==
    ASSUME NEW S, IsFiniteSet(S), NEW h \in S, NEW l
    PROVE  /\ IsFiniteSet(S \ {h})
           /\ TdLock[h.thread] = l =>
                /\ Cardinality(On(S, l)) # 0
                /\ Cardinality(On(S \ {h}, l)) = Cardinality(On(S, l)) - 1
           /\ TdLock[h.thread] # l => On(S \ {h}, l) = On(S, l)
<1>1. IsFiniteSet(S \ {h})
  BY Zenon, FS_RemoveElement
<1>2. ASSUME TdLock[h.thread] = l
      PROVE  /\ Cardinality(On(S, l)) # 0
             /\ Cardinality(On(S \ {h}, l)) = Cardinality(On(S, l)) - 1
  <2>1. On(S \ {h}, l) = On(S, l) \ {h} /\ h \in On(S, l)
    BY Zenon, <1>2 DEF On
  <2> QED
    BY ZenonT(20), <2>1, OnFinite, FS_RemoveElement
<1>3. ASSUME TdLock[h.thread] # l PROVE On(S \ {h}, l) = On(S, l)
  BY <1>3 DEF On
<1> QED
  BY Zenon, <1>1, <1>2, <1>3

\* A thread with a linked (anonymous) hold makes its lock's linked
\* (anonymous) count nonzero, and its lock has no writer.
LEMMA HolderCounted ==
    ASSUME TypeOK, FreshInv, CountsExact, ExclusionInv,
           NEW h \in tsd \cup anon
    PROVE  /\ h.thread \in Threads /\ TdLock[h.thread] \in Locks
           /\ h \in tsd => rr_linked_rcount[TdLock[h.thread]] # 0
           /\ h \in anon => rr_anon_rcount[TdLock[h.thread]] # 0
           /\ rr_writer[TdLock[h.thread]] = NoThread
<1> DEFINE l == TdLock[h.thread]
<1>1. h.thread \in Threads /\ l \in Locks
  BY Zenon, TdLockAssumption DEF TypeOK, Hold
<1>2. ASSUME h \in tsd PROVE rr_linked_rcount[l] # 0
  <2>1. On(tsd, l) # {}
    BY Zenon, <1>2 DEF On
  <2>2. Cardinality(On(tsd, l)) # 0
    BY Zenon, <2>1, OnFinite DEF FreshInv
  <2> QED
    BY Zenon, <1>1, <2>2 DEF CountsExact
<1>3. ASSUME h \in anon PROVE rr_anon_rcount[l] # 0
  <2>1. On(anon, l) # {}
    BY Zenon, <1>3 DEF On
  <2>2. Cardinality(On(anon, l)) # 0
    BY Zenon, <2>1, OnFinite DEF FreshInv
  <2> QED
    BY Zenon, <1>1, <2>2 DEF CountsExact
<1> QED
  BY ZenonT(20), <1>1, <1>2, <1>3 DEF ExclusionInv

\* The converse: a nonzero count has a hold.
LEMMA CountedHolder ==
    ASSUME FreshInv, CountsExact, NEW l \in Locks
    PROVE  /\ rr_linked_rcount[l] = 0 <=> On(tsd, l) = {}
           /\ rr_anon_rcount[l] = 0 <=> On(anon, l) = {}
BY Zenon, OnFinite DEF FreshInv, CountsExact

\* Nobody who holds the lock, and no helper of a holder, meets the condition
\* of the cv_wait in rrw_enter_read_impl.
LEMMA ReentryFree ==
    ASSUME IndInv, NEW t \in Threads, ReadBlocked(t)
    PROVE  Holds(t) = {} /\ pc[t] # "prio"
<1>i. TypeOK /\ FreshInv /\ CountsExact /\ ExclusionInv /\ HelperInv
  BY Zenon DEF IndInv
<1>1. ASSUME NEW h \in Holds(t) PROVE FALSE
  <2>1. h \in tsd \cup anon /\ h.thread = t
    BY Zenon DEF Holds
  <2>2. /\ h \in tsd => rr_linked_rcount[TdLock[t]] # 0
        /\ h \in anon => rr_anon_rcount[TdLock[t]] # 0
        /\ rr_writer[TdLock[t]] = NoThread
    BY Zenon, <1>i, <2>1, HolderCounted
  <2> QED
    BY Zenon, <2>1, <2>2 DEF ReadBlocked, RrnFind
<1>2. ASSUME pc[t] = "prio" PROVE FALSE
  <2>1. t \in Helpers /\ Parent[t] \in Threads
    BY Zenon, <1>2, <1>i, RRWThreads DEF HelperInv
  <2>2. pc[Parent[t]] = "await"
    BY Zenon, <1>2, <1>i, <2>1 DEF HelperInv
  <2>3. PICK h \in Holds(Parent[t]) : TRUE
    BY Zenon, <1>i, <2>1, <2>2 DEF HelperInv
  <2>4. h \in tsd \cup anon /\ h.thread = Parent[t]
    BY Zenon DEF Holds
  <2>5. rr_writer[TdLock[Parent[t]]] = NoThread
    BY Zenon, <1>i, <2>4, HolderCounted
  <2>6. TdLock[Parent[t]] = TdLock[t]
    BY <2>1, PrioAssumption, TdLockAssumption DEF Locks
  <2> QED
    BY Zenon, <1>2, <2>5, <2>6 DEF ReadBlocked
<1> QED
  BY Zenon, <1>1, <1>2

-----------------------------------------------------------------------------
(* Init.                                                                   *)

\* rrw_init establishes the invariant.
LEMMA InitIndInv == Init => IndInv
<1> SUFFICES ASSUME Init PROVE IndInv
  BY Zenon
<1>1. tsd = {} /\ anon = {}
  BY Zenon DEF Init
<1>2. \A t : Holds(t) = {}
  BY Zenon, <1>1 DEF Holds
<1>3. TypeOK
  BY NumLocksAssumption, MaxHoldsAssumption
     DEF Init, TypeOK, Locks, B_TRUE, B_FALSE
<1>4. IsFiniteSet({}) /\ Cardinality({}) = 0
  BY Zenon, FS_EmptySet
<1>5. FreshInv
  BY Zenon, <1>1, <1>4, MaxHoldsAssumption DEF Init, FreshInv
<1>6. CountsExact
  <2>1. \A l : On({}, l) = {}
    BY Zenon DEF On
  <2> QED
    BY Zenon, <1>1, <1>4, <2>1 DEF Init, CountsExact
<1>7. OwnerInv
  BY Zenon, RRWThreads DEF Init, OwnerInv, Owns
<1>8. ExclusionInv /\ TrackInv /\ HelperInv
  BY Zenon, <1>2, RRWThreads DEF Init, ExclusionInv, TrackInv, HelperInv
<1>9. SleepersBlocked /\ ReentryNeverSleeps
  BY Zenon DEF Init, SleepersBlocked, ReentryNeverSleeps
<1> QED
  BY Zenon, <1>3, <1>5, <1>6, <1>7, <1>8, <1>9 DEF IndInv

-----------------------------------------------------------------------------
(* Steps that leave the locks and the holds alone.                         *)

\* What does not depend on a thread outside its waiting loops.
LEMMA LockFrame ==
    ASSUME IndInv, UNCHANGED <<lockvars, tsd, anon>>,
           \A u \in Threads : pc[u] \in {"read", "prio", "write"} =>
               pc'[u] = pc[u] /\ idx'[u] = idx[u]
    PROVE  /\ CountsExact' /\ ExclusionInv' /\ TrackInv'
           /\ SleepersBlocked' /\ ReentryNeverSleeps'
           /\ \A u : Holds(u)' = Holds(u)
<1>i. /\ TypeOK /\ CountsExact /\ ExclusionInv /\ TrackInv
      /\ SleepersBlocked /\ ReentryNeverSleeps
  BY Zenon DEF IndInv
<1>1. /\ rr_writer' = rr_writer /\ rr_anon_rcount' = rr_anon_rcount
      /\ rr_linked_rcount' = rr_linked_rcount
      /\ rr_writer_wanted' = rr_writer_wanted
      /\ rr_track_all' = rr_track_all /\ rr_cv' = rr_cv
      /\ tsd' = tsd /\ anon' = anon
  BY Zenon DEF lockvars
<1>2. CountsExact' /\ ExclusionInv' /\ TrackInv'
  BY ZenonT(20), <1>i, <1>1 DEF CountsExact, On, ExclusionInv, TrackInv
<1>3. \A u : Holds(u)' = Holds(u)
  BY ZenonT(20), <1>1 DEF Holds
<1>4. ASSUME NEW l \in Locks, NEW u \in rr_cv[l]
      PROVE  /\ u \in Threads /\ pc[u] \in {"read", "prio", "write"}
             /\ pc'[u] = pc[u] /\ idx'[u] = idx[u]
  BY Zenon, <1>i DEF TypeOK, SleepersBlocked
<1>5. \A u \in Threads : pc'[u] = pc[u] =>
          (ReadBlocked(u)' <=> ReadBlocked(u))
  BY ZenonT(20), <1>1 DEF ReadBlocked, RrnFind
<1>6. \A l \in Locks : WriteBlocked(l)' <=> WriteBlocked(l)
  BY ZenonT(20), <1>1 DEF WriteBlocked
<1>7. SleepersBlocked'
  BY ZenonT(20), <1>i, <1>1, <1>4, <1>5, <1>6 DEF SleepersBlocked
<1>8. ReentryNeverSleeps'
  BY ZenonT(20), <1>i, <1>1, <1>3, <1>4 DEF ReentryNeverSleeps
<1> QED
  BY Zenon, <1>2, <1>3, <1>7, <1>8

\* EnterRead: a helper re-enters only while its parent waits for it.
LEMMA EnterReadStep ==
    ASSUME IndInv, NEW t \in Threads, EnterRead(t)
    PROVE  IndInv'
<1>i. TypeOK /\ FreshInv /\ OwnerInv /\ HelperInv
  BY Zenon DEF IndInv
<1>1. TypeOK'
  BY <1>i DEF TypeOK, EnterRead, lockvars
<1>2. /\ pc[t] = "idle" /\ pc'[t] = "read" /\ enters[t] < MaxHolds
      /\ \A u \in Threads \ {t} : pc'[u] = pc[u]
      /\ t \in Helpers => Holds(t) # {}
      /\ idx' = idx /\ enters' = enters /\ tsd' = tsd /\ anon' = anon
      /\ rr_writer' = rr_writer
  BY Zenon, <1>i DEF TypeOK, EnterRead, lockvars
<1>3. /\ CountsExact' /\ ExclusionInv' /\ TrackInv'
      /\ SleepersBlocked' /\ ReentryNeverSleeps'
      /\ \A u : Holds(u)' = Holds(u)
  <2>1. \A u \in Threads : pc[u] \in {"read", "prio", "write"} =>
            pc'[u] = pc[u] /\ idx'[u] = idx[u]
    BY Zenon, <1>2
  <2>2. UNCHANGED <<lockvars, tsd, anon>>
    BY Zenon DEF EnterRead
  <2> QED
    BY ONLY ZenonT(20), <2>1, <2>2, LockFrame, IndInv
<1>4. FreshInv'
  BY Zenon, <1>i, <1>2, <1>3 DEF FreshInv
<1>5. OwnerInv'
  <2>1. \A u \in Threads, l \in Locks : Owns(u, l)' <=> Owns(u, l)
    BY Zenon, <1>2 DEF Owns
  <2> QED
    BY Zenon, <1>i, <1>2, <1>3, <2>1 DEF OwnerInv
<1>6. HelperInv'
  BY Zenon, <1>i, <1>2, <1>3, RRWThreads DEF HelperInv
<1> QED
  BY ONLY ZenonT(20), <1>1, <1>3, <1>4, <1>5, <1>6 DEF IndInv

\* Dispatch: the helpers are idle and hold nothing when their parent starts
\* them.
LEMMA DispatchStep ==
    ASSUME IndInv, NEW t \in Threads, Dispatch(t)
    PROVE  IndInv'
<1>i. TypeOK /\ FreshInv /\ OwnerInv /\ HelperInv
  BY Zenon DEF IndInv
<1>1. TypeOK'
  BY Zenon, <1>i DEF TypeOK, Dispatch, lockvars
<1>2. /\ pc[t] = "idle" /\ pc'[t] = "await" /\ Holds(t) # {}
      /\ \A u \in Threads \ {t} :
            pc'[u] = IF u \in HelpersOf(t) THEN "prio" ELSE pc[u]
      /\ idx' = idx /\ enters' = enters /\ tsd' = tsd /\ anon' = anon
      /\ rr_writer' = rr_writer
  BY Zenon, <1>i DEF TypeOK, Dispatch, lockvars
<1>3. \A u \in HelpersOf(t) : /\ u \in Helpers /\ u \in Threads
                              /\ Parent[u] = t /\ u # t
                              /\ pc[u] = "idle" /\ Holds(u) = {}
  BY Zenon, <1>i, <1>2, RRWThreads DEF HelpersOf, HelperInv
<1>4. /\ CountsExact' /\ ExclusionInv' /\ TrackInv'
      /\ SleepersBlocked' /\ ReentryNeverSleeps'
      /\ \A u : Holds(u)' = Holds(u)
  <2>1. \A u \in Threads : pc[u] \in {"read", "prio", "write"} =>
            pc'[u] = pc[u] /\ idx'[u] = idx[u]
    BY Zenon, <1>2, <1>3
  <2>2. UNCHANGED <<lockvars, tsd, anon>>
    BY Zenon DEF Dispatch
  <2> QED
    BY ONLY ZenonT(20), <2>1, <2>2, LockFrame, IndInv
<1>5. FreshInv'
  BY Zenon, <1>i, <1>2, <1>3, <1>4 DEF FreshInv
<1>6. OwnerInv'
  <2>1. \A u \in Threads, l \in Locks : Owns(u, l)' <=> Owns(u, l)
    BY Zenon, <1>2, <1>3 DEF Owns
  <2> QED
    BY Zenon, <1>i, <1>2, <1>3, <1>4, <2>1 DEF OwnerInv
<1>7. HelperInv'
  <2>1. \A h \in Helpers : /\ h \in Threads /\ Parent[h] \in Threads \ Helpers
                           /\ Parent[h] = t => h \in HelpersOf(t)
    BY Zenon, RRWThreads DEF HelpersOf
  <2> QED
    BY Zenon, <1>i, <1>2, <1>3, <1>4, <2>1 DEF HelperInv
<1> QED
  BY ONLY ZenonT(20), <1>1, <1>4, <1>5, <1>6, <1>7 DEF IndInv

\* AwaitDone: taskq_wait returns when every helper is done.
LEMMA AwaitDoneStep ==
    ASSUME IndInv, NEW t \in Threads, AwaitDone(t)
    PROVE  IndInv'
<1>i. TypeOK /\ FreshInv /\ OwnerInv /\ HelperInv
  BY Zenon DEF IndInv
<1>1. TypeOK'
  BY Zenon, <1>i DEF TypeOK, AwaitDone, lockvars
<1>2. /\ pc[t] = "await" /\ pc'[t] = "idle"
      /\ \A u \in Threads \ {t} : pc'[u] = pc[u]
      /\ \A h \in HelpersOf(t) : pc[h] = "idle" /\ Holds(h) = {}
      /\ idx' = idx /\ enters' = enters /\ tsd' = tsd /\ anon' = anon
      /\ rr_writer' = rr_writer
  BY Zenon, <1>i DEF TypeOK, AwaitDone, lockvars
<1>3. /\ CountsExact' /\ ExclusionInv' /\ TrackInv'
      /\ SleepersBlocked' /\ ReentryNeverSleeps'
      /\ \A u : Holds(u)' = Holds(u)
  <2>1. \A u \in Threads : pc[u] \in {"read", "prio", "write"} =>
            pc'[u] = pc[u] /\ idx'[u] = idx[u]
    BY Zenon, <1>2
  <2>2. UNCHANGED <<lockvars, tsd, anon>>
    BY Zenon DEF AwaitDone
  <2> QED
    BY ONLY ZenonT(20), <2>1, <2>2, LockFrame, IndInv
<1>4. FreshInv'
  BY Zenon, <1>i, <1>2, <1>3 DEF FreshInv
<1>5. OwnerInv'
  <2>1. \A u \in Threads, l \in Locks : Owns(u, l)' <=> Owns(u, l)
    BY Zenon, <1>2 DEF Owns
  <2> QED
    BY Zenon, <1>i, <1>2, <1>3, <2>1 DEF OwnerInv
<1>6. HelperInv'
  <2>1. \A h \in Helpers : /\ h \in Threads /\ Parent[h] \in Threads
                           /\ Parent[h] = t => h \in HelpersOf(t)
    BY Zenon, RRWThreads DEF HelpersOf
  <2> QED
    BY Zenon, <1>i, <1>2, <1>3, <2>1 DEF HelperInv
<1> QED
  BY ONLY ZenonT(20), <1>1, <1>3, <1>4, <1>5, <1>6 DEF IndInv

\* EnterWrite
LEMMA EnterWriteStep ==
    ASSUME IndInv, NEW t \in Writers, EnterWrite(t)
    PROVE  IndInv'
<1>i. TypeOK /\ FreshInv /\ OwnerInv /\ HelperInv
  BY Zenon DEF IndInv
<1>0. t \in Threads /\ t \notin Helpers /\ 0 \in Locks
  BY RRWThreads, NumLocksAssumption DEF Locks
<1>1. TypeOK'
  BY Zenon, <1>i, <1>0 DEF TypeOK, EnterWrite, lockvars
<1>2. /\ pc[t] = "idle" /\ pc'[t] = "write" /\ Holds(t) = {}
      /\ \A u \in Threads \ {t} : pc'[u] = pc[u] /\ idx'[u] = idx[u]
      /\ idx'[t] = 0 /\ enters' = enters /\ tsd' = tsd /\ anon' = anon
      /\ rr_writer' = rr_writer
  BY Zenon, <1>i, <1>0 DEF TypeOK, EnterWrite, lockvars
<1>3. /\ CountsExact' /\ ExclusionInv' /\ TrackInv'
      /\ SleepersBlocked' /\ ReentryNeverSleeps'
      /\ \A u : Holds(u)' = Holds(u)
  <2>1. \A u \in Threads : pc[u] \in {"read", "prio", "write"} =>
            pc'[u] = pc[u] /\ idx'[u] = idx[u]
    BY Zenon, <1>2
  <2>2. UNCHANGED <<lockvars, tsd, anon>>
    BY Zenon DEF EnterWrite
  <2> QED
    BY ONLY ZenonT(20), <2>1, <2>2, LockFrame, IndInv
<1>4. FreshInv'
  BY Zenon, <1>i, <1>2, <1>3 DEF FreshInv
<1>5. OwnerInv'
  <2>1. \A u \in Threads, l \in Locks : Owns(u, l)' <=> Owns(u, l)
    BY <1>2 DEF Owns, Locks
  <2> QED
    BY Zenon, <1>i, <1>2, <1>3, <2>1 DEF OwnerInv
<1>6. HelperInv'
  <2>1. \A h \in Helpers : h \in Threads /\ Parent[h] \in Threads
    BY Zenon, RRWThreads
  <2> QED
    BY Zenon, <1>i, <1>0, <1>2, <1>3, <2>1 DEF HelperInv
<1> QED
  BY ONLY ZenonT(20), <1>1, <1>3, <1>4, <1>5, <1>6 DEF IndInv

-----------------------------------------------------------------------------
(* Going to sleep.                                                         *)

\* ReadWait: by ReentryFree only a thread without a hold gets here.
LEMMA ReadWaitStep ==
    ASSUME IndInv, NEW t \in Threads, ReadWait(t)
    PROVE  IndInv'
<1>i. /\ TypeOK /\ FreshInv /\ CountsExact /\ OwnerInv /\ ExclusionInv
      /\ TrackInv /\ HelperInv /\ SleepersBlocked /\ ReentryNeverSleeps
  BY Zenon DEF IndInv
<1> DEFINE l == TdLock[t]
<1>0. l \in Locks
  BY Zenon, TdLockAssumption
<1>1. TypeOK'
  BY Zenon, <1>i, <1>0 DEF TypeOK, ReadWait, threadvars
<1>2. /\ rr_writer' = rr_writer /\ rr_anon_rcount' = rr_anon_rcount
      /\ rr_linked_rcount' = rr_linked_rcount
      /\ rr_writer_wanted' = rr_writer_wanted
      /\ rr_track_all' = rr_track_all /\ tsd' = tsd /\ anon' = anon
      /\ pc' = pc /\ enters' = enters /\ idx' = idx
  BY Zenon DEF ReadWait, threadvars
<1>3. /\ FreshInv' /\ CountsExact' /\ OwnerInv' /\ ExclusionInv'
      /\ TrackInv' /\ HelperInv'
  <2>1. \A u : Holds(u)' = Holds(u)
    BY ZenonT(20), <1>2 DEF Holds
  <2>2. \A u, m : Owns(u, m)' <=> Owns(u, m)
    BY ZenonT(20), <1>2 DEF Owns
  <2>3. FreshInv'
    BY ZenonT(20), <1>i, <1>2, <2>1 DEF FreshInv
  <2>4. CountsExact' /\ ExclusionInv' /\ TrackInv'
    BY ZenonT(20), <1>i, <1>2 DEF CountsExact, On, ExclusionInv, TrackInv
  <2>5. OwnerInv'
    BY ZenonT(20), <1>i, <1>2, <2>1, <2>2 DEF OwnerInv
  <2>6. HelperInv'
    BY ZenonT(20), <1>i, <1>2, <2>1 DEF HelperInv
  <2> QED
    BY Zenon, <2>3, <2>4, <2>5, <2>6
<1>4. /\ \A u : ReadBlocked(u)' <=> ReadBlocked(u)
      /\ \A m : WriteBlocked(m)' <=> WriteBlocked(m)
      /\ \A u : Holds(u)' = Holds(u)
  BY ZenonT(20), <1>2 DEF ReadBlocked, RrnFind, WriteBlocked, Holds
<1>5. \A m \in Locks : rr_cv'[m] = IF m = l THEN rr_cv[m] \cup {t} ELSE rr_cv[m]
  BY ZenonT(20), <1>i, <1>0 DEF ReadWait, TypeOK
<1>6. pc[t] \in {"read", "prio"} /\ ReadBlocked(t)
  BY Zenon DEF ReadWait
<1>7. SleepersBlocked'
  <2> SUFFICES ASSUME NEW m \in Locks, NEW u \in rr_cv'[m]
               PROVE  \/ /\ pc[u] \in {"read", "prio"} /\ TdLock[u] = m
                         /\ ReadBlocked(u)
                      \/ /\ pc[u] = "write" /\ idx[u] = m
                         /\ WriteBlocked(m)
                         /\ \/ rr_writer[m] # NoThread
                            \/ rr_writer_wanted[m] = B_TRUE
    BY ZenonT(20), <1>2, <1>4 DEF SleepersBlocked
  <2>1. u \in rr_cv[m] \/ (u = t /\ m = l)
    BY ZenonT(20), <1>5
  <2> QED
    BY ZenonT(20), <1>i, <1>6, <2>1 DEF SleepersBlocked
<1>8. ReentryNeverSleeps'
  <2>1. Holds(t) = {} /\ pc[t] # "prio"
    BY ONLY Zenon, <1>6, ReentryFree, IndInv, t \in Threads
  <2> QED
    BY ZenonT(20), <1>i, <1>2, <1>4, <1>5, <2>1 DEF ReentryNeverSleeps
<1> QED
  BY ONLY ZenonT(20), <1>1, <1>3, <1>7, <1>8 DEF IndInv

\* WriteWait: the sleeper is announced, and announcing it unblocks nobody.
LEMMA WriteWaitStep ==
    ASSUME IndInv, NEW t \in Threads, WriteWait(t)
    PROVE  IndInv'
<1>i. /\ TypeOK /\ FreshInv /\ CountsExact /\ OwnerInv /\ ExclusionInv
      /\ TrackInv /\ HelperInv /\ SleepersBlocked /\ ReentryNeverSleeps
  BY Zenon DEF IndInv
<1> DEFINE l == idx[t]
<1>0. l \in Locks
  BY Zenon, <1>i DEF TypeOK
<1>1. TypeOK'
  BY Zenon, <1>i, <1>0 DEF TypeOK, WriteWait, threadvars
<1>2. /\ rr_writer' = rr_writer /\ rr_anon_rcount' = rr_anon_rcount
      /\ rr_linked_rcount' = rr_linked_rcount
      /\ rr_track_all' = rr_track_all /\ tsd' = tsd /\ anon' = anon
      /\ pc' = pc /\ enters' = enters /\ idx' = idx
  BY Zenon DEF WriteWait, threadvars
<1>3. /\ FreshInv' /\ CountsExact' /\ OwnerInv' /\ ExclusionInv'
      /\ TrackInv' /\ HelperInv'
  <2>1. \A u : Holds(u)' = Holds(u)
    BY ZenonT(20), <1>2 DEF Holds
  <2>2. \A u, m : Owns(u, m)' <=> Owns(u, m)
    BY ZenonT(20), <1>2 DEF Owns
  <2>3. FreshInv'
    BY ZenonT(20), <1>i, <1>2, <2>1 DEF FreshInv
  <2>4. CountsExact' /\ ExclusionInv' /\ TrackInv'
    BY ZenonT(20), <1>i, <1>2 DEF CountsExact, On, ExclusionInv, TrackInv
  <2>5. OwnerInv'
    BY ZenonT(20), <1>i, <1>2, <2>1, <2>2 DEF OwnerInv
  <2>6. HelperInv'
    BY ZenonT(20), <1>i, <1>2, <2>1 DEF HelperInv
  <2> QED
    BY Zenon, <2>3, <2>4, <2>5, <2>6
<1>4. \A m \in Locks :
        /\ rr_cv'[m] = IF m = l THEN rr_cv[m] \cup {t} ELSE rr_cv[m]
        /\ rr_writer_wanted'[m] = IF m = l THEN B_TRUE ELSE rr_writer_wanted[m]
  BY ZenonT(20), <1>i, <1>0 DEF WriteWait, TypeOK
<1>5. /\ \A m : WriteBlocked(m)' <=> WriteBlocked(m)
      /\ \A u : Holds(u)' = Holds(u) /\ RrnFind(u)' = RrnFind(u)
  BY ZenonT(20), <1>2 DEF RrnFind, WriteBlocked, Holds
<1>6. \A u \in Threads : ReadBlocked(u) => ReadBlocked(u)'
  <2>1. \A u \in Threads : TdLock[u] \in Locks
    BY Zenon, TdLockAssumption
  <2> QED
    BY ZenonT(20), <1>2, <1>4, <1>5, <2>1 DEF ReadBlocked
<1>7. pc[t] = "write" /\ WriteBlocked(l) /\ Holds(t) = {}
  BY Zenon, <1>i DEF WriteWait, OwnerInv
<1>8. SleepersBlocked'
  <2> SUFFICES ASSUME NEW m \in Locks, NEW u \in rr_cv'[m]
               PROVE  \/ /\ pc'[u] \in {"read", "prio"} /\ TdLock[u] = m
                         /\ ReadBlocked(u)'
                      \/ /\ pc'[u] = "write" /\ idx'[u] = m
                         /\ WriteBlocked(m)'
                         /\ \/ rr_writer'[m] # NoThread
                            \/ rr_writer_wanted'[m] = B_TRUE
    BY Zenon DEF SleepersBlocked
  <2>1. CASE u \in rr_cv[m]
    <3>1. u \in Threads
      BY Zenon, <1>i, <2>1 DEF TypeOK
    <3>2. \/ pc[u] \in {"read", "prio"} /\ TdLock[u] = m /\ ReadBlocked(u)
          \/ /\ pc[u] = "write" /\ idx[u] = m /\ WriteBlocked(m)
             /\ rr_writer[m] # NoThread \/ rr_writer_wanted[m] = B_TRUE
      BY Zenon, <1>i, <2>1 DEF SleepersBlocked
    <3> QED
      BY ZenonT(20), <1>2, <1>4, <1>5, <1>6, <3>1, <3>2
  <2>2. CASE u \notin rr_cv[m]
    <3>1. u = t /\ m = l
      BY ZenonT(20), <1>4, <2>2
    <3> QED
      BY ZenonT(20), <1>2, <1>4, <1>5, <1>7, <3>1
  <2> QED
    BY Zenon, <2>1, <2>2
<1>9. ReentryNeverSleeps'
  BY ZenonT(20), <1>i, <1>2, <1>4, <1>5, <1>7 DEF ReentryNeverSleeps
<1> QED
  BY ONLY ZenonT(20), <1>1, <1>3, <1>8, <1>9 DEF IndInv

-----------------------------------------------------------------------------
(* Writers.                                                                *)

\* WriteGet: the lock has neither readers nor a writer, and whoever sleeps on
\* it now waits for t.
LEMMA WriteGetStep ==
    ASSUME IndInv, NEW t \in Threads, WriteGet(t)
    PROVE  IndInv'
<1>i. /\ TypeOK /\ FreshInv /\ CountsExact /\ OwnerInv /\ ExclusionInv
      /\ TrackInv /\ HelperInv /\ SleepersBlocked /\ ReentryNeverSleeps
  BY Zenon DEF IndInv
<1> DEFINE l == idx[t]
           last == l + 1 = NumLocks
<1>0. l \in Locks /\ l \in Nat /\ 0 \in Locks /\ (~last => l + 1 \in Locks)
  <2>1. l \in Locks
    BY ZenonT(20), <1>i DEF TypeOK
  <2> QED
    BY ONLY <2>1, NumLocksAssumption DEF Locks
<1>1. TypeOK'
  BY Zenon, <1>i, <1>0 DEF TypeOK, WriteGet
<1>2. /\ rr_anon_rcount' = rr_anon_rcount
      /\ rr_linked_rcount' = rr_linked_rcount
      /\ rr_track_all' = rr_track_all /\ tsd' = tsd /\ anon' = anon
      /\ rr_cv' = rr_cv /\ enters' = enters
  BY Zenon DEF WriteGet
<1>3. /\ pc[t] = "write" /\ pc'[t] = (IF last THEN "writing" ELSE "write")
      /\ idx'[t] = (IF last THEN 0 ELSE l + 1)
      /\ \A u \in Threads \ {t} : pc'[u] = pc[u] /\ idx'[u] = idx[u]
      /\ t \in Writers /\ Holds(t) = {}
  BY <1>i DEF WriteGet, TypeOK, OwnerInv
<1>4. /\ rr_writer'[l] = t /\ rr_writer[l] = NoThread
      /\ rr_anon_rcount[l] = 0 /\ rr_linked_rcount[l] = 0
      /\ \A m \in Locks \ {l} : /\ rr_writer'[m] = rr_writer[m]
                                /\ rr_writer_wanted'[m] = rr_writer_wanted[m]
  BY <1>i, <1>0 DEF WriteGet, WriteBlocked, TypeOK
<1>5. ~Asleep(t)
  BY Zenon DEF WriteGet
<1>6. \A u : Holds(u)' = Holds(u) /\ RrnFind(u)' = RrnFind(u)
  BY ZenonT(20), <1>2 DEF RrnFind, Holds
<1>7. CountsExact' /\ TrackInv'
  BY ZenonT(20), <1>i, <1>2 DEF CountsExact, TrackInv, On
<1>8. FreshInv'
  BY ZenonT(20), <1>i, <1>2, <1>3, <1>6 DEF FreshInv
<1>9. OwnerInv'
  <2>1. ASSUME NEW m \in Locks PROVE rr_writer'[m] = t <=> Owns(t, m)'
    <3>1. rr_writer[m] = t <=> m < l
      BY Zenon, <1>i, <1>3 DEF OwnerInv, Owns
    <3>2. rr_writer'[m] = t <=> m < l \/ m = l
      BY Zenon, <1>4, <3>1, RRWThreads
    <3>3. m \in Nat /\ m < NumLocks
      BY NumLocksAssumption DEF Locks
    <3> QED
      BY <1>0, <1>3, <3>2, <3>3 DEF Owns
  <2>2. ASSUME NEW m \in Locks, NEW u \in Threads \ {t}
        PROVE  rr_writer'[m] = u <=> Owns(u, m)'
    <3>1. Owns(u, m)' <=> Owns(u, m)
      BY Zenon, <1>3 DEF Owns
    <3>2. rr_writer[m] = u <=> Owns(u, m)
      BY Zenon, <1>i DEF OwnerInv
    <3> QED
      BY Zenon, <1>4, <3>1, <3>2, RRWThreads
  <2>3. \A u \in Threads : pc'[u] \in {"write", "writing", "exit"} =>
            u \in Writers /\ Holds(u)' = {}
    BY Zenon, <1>i, <1>3, <1>6 DEF OwnerInv
  <2>4. \A u \in Threads : pc'[u] = "writing" => idx'[u] = 0
    BY Zenon, <1>i, <1>3 DEF OwnerInv
  <2> QED
    BY Zenon, <2>1, <2>2, <2>3, <2>4 DEF OwnerInv
<1>10. ExclusionInv'
  BY Zenon, <1>i, <1>2, <1>4 DEF ExclusionInv
<1>11. HelperInv'
  <2>1. \A h \in Helpers : h \in Threads /\ Parent[h] \in Threads /\ h # t
    BY ZenonT(20), <1>3, RRWThreads
  <2> QED
    BY Zenon, <1>i, <1>3, <1>6, <2>1 DEF HelperInv
<1>12. ASSUME NEW m \in Locks, NEW u \in rr_cv'[m]
       PROVE  /\ u \in rr_cv[m] /\ u \in Threads /\ u # t
              /\ pc'[u] = pc[u] /\ idx'[u] = idx[u]
  BY ZenonT(20), <1>i, <1>2, <1>3, <1>5 DEF TypeOK, Asleep
<1>13. SleepersBlocked'
  <2> SUFFICES ASSUME NEW m \in Locks, NEW u \in rr_cv'[m]
               PROVE  \/ /\ pc'[u] \in {"read", "prio"} /\ TdLock[u] = m
                         /\ ReadBlocked(u)'
                      \/ /\ pc'[u] = "write" /\ idx'[u] = m
                         /\ WriteBlocked(m)'
                         /\ \/ rr_writer'[m] # NoThread
                            \/ rr_writer_wanted'[m] = B_TRUE
    BY Zenon DEF SleepersBlocked
  <2>1. \/ pc[u] \in {"read", "prio"} /\ TdLock[u] = m /\ ReadBlocked(u)
        \/ /\ pc[u] = "write" /\ idx[u] = m /\ WriteBlocked(m)
           /\ rr_writer[m] # NoThread \/ rr_writer_wanted[m] = B_TRUE
    BY Zenon, <1>i, <1>12 DEF SleepersBlocked
  <2>2. CASE m = l
    <3>1. rr_writer'[m] # NoThread
      BY ZenonT(20), <1>4, <2>2, RRWThreads
    <3> QED
      BY Zenon, <1>12, <2>1, <3>1 DEF ReadBlocked, WriteBlocked
  <2>3. CASE m # l
    <3>1. rr_writer'[m] = rr_writer[m]
          /\ rr_writer_wanted'[m] = rr_writer_wanted[m]
      BY Zenon, <1>4, <2>3
    <3> QED
      BY Zenon, <1>2, <1>6, <1>12, <2>1, <3>1 DEF ReadBlocked, WriteBlocked
  <2> QED
    BY Zenon, <2>2, <2>3
<1>14. ReentryNeverSleeps'
  BY Zenon, <1>i, <1>6, <1>12 DEF ReentryNeverSleeps
<1> QED
  BY ONLY ZenonT(20), <1>1, <1>7, <1>8, <1>9, <1>10, <1>11, <1>13, <1>14
     DEF IndInv

\* ExitWrite: t gives up the lock it has reached and wakes its sleepers.
LEMMA ExitWriteStep ==
    ASSUME IndInv, NEW t \in Threads, ExitWrite(t)
    PROVE  IndInv'
<1>i. /\ TypeOK /\ FreshInv /\ CountsExact /\ OwnerInv /\ ExclusionInv
      /\ TrackInv /\ HelperInv /\ SleepersBlocked /\ ReentryNeverSleeps
  BY Zenon DEF IndInv
<1> DEFINE l == idx[t]
           last == l + 1 = NumLocks
<1>0. l \in Locks /\ l \in Nat /\ 0 \in Locks /\ (~last => l + 1 \in Locks)
  <2>1. l \in Locks
    BY ZenonT(20), <1>i DEF TypeOK
  <2> QED
    BY ONLY <2>1, NumLocksAssumption DEF Locks
<1>1. TypeOK'
  BY ZenonT(20), <1>i, <1>0 DEF TypeOK, ExitWrite
<1>2. /\ rr_anon_rcount' = rr_anon_rcount
      /\ rr_linked_rcount' = rr_linked_rcount
      /\ rr_writer_wanted' = rr_writer_wanted
      /\ rr_track_all' = rr_track_all /\ tsd' = tsd /\ anon' = anon
      /\ enters' = enters
  BY Zenon DEF ExitWrite
<1>3. /\ pc[t] \in {"writing", "exit"} /\ (pc[t] = "writing" => l = 0)
      /\ pc'[t] = (IF last THEN "idle" ELSE "exit")
      /\ idx'[t] = (IF last THEN 0 ELSE l + 1)
      /\ \A u \in Threads \ {t} : pc'[u] = pc[u] /\ idx'[u] = idx[u]
      /\ t \in Writers /\ Holds(t) = {}
  BY <1>i DEF ExitWrite, TypeOK, OwnerInv
<1>4. /\ rr_writer'[l] = NoThread
      /\ \A m \in Locks \ {l} : /\ rr_writer'[m] = rr_writer[m]
                                /\ rr_cv'[m] = rr_cv[m]
      /\ rr_cv'[l] = {}
  BY ZenonT(20), <1>i, <1>0 DEF ExitWrite, TypeOK
<1>5. rr_writer[l] = t
  BY <1>i, <1>0, <1>3 DEF OwnerInv, Owns
<1>6. \A u : Holds(u)' = Holds(u) /\ RrnFind(u)' = RrnFind(u)
  BY ZenonT(20), <1>2 DEF RrnFind, Holds
<1>7. CountsExact' /\ TrackInv'
  BY ZenonT(20), <1>i, <1>2 DEF CountsExact, TrackInv, On
<1>8. FreshInv'
  BY ZenonT(20), <1>i, <1>2, <1>3, <1>6 DEF FreshInv
<1>9. OwnerInv'
  <2>1. ASSUME NEW m \in Locks PROVE rr_writer'[m] = t <=> Owns(t, m)'
    <3>1. m \in Nat /\ m < NumLocks
      BY NumLocksAssumption DEF Locks
    <3>2. rr_writer[m] = t <=> m >= l
      BY <1>i, <1>3, <3>1 DEF OwnerInv, Owns
    <3>3. rr_writer'[m] = t <=> m >= l /\ m # l
      BY Zenon, <1>4, <3>2, RRWThreads
    <3> QED
      BY <1>0, <1>3, <3>1, <3>3, NumLocksAssumption DEF Owns
  <2>2. ASSUME NEW m \in Locks, NEW u \in Threads \ {t}
        PROVE  rr_writer'[m] = u <=> Owns(u, m)'
    <3>1. Owns(u, m)' <=> Owns(u, m)
      BY Zenon, <1>3 DEF Owns
    <3>2. rr_writer[m] = u <=> Owns(u, m)
      BY Zenon, <1>i DEF OwnerInv
    <3> QED
      BY Zenon, <1>4, <1>5, <3>1, <3>2, RRWThreads
  <2>3. \A u \in Threads : pc'[u] \in {"write", "writing", "exit"} =>
            u \in Writers /\ Holds(u)' = {}
    BY Zenon, <1>i, <1>3, <1>6 DEF OwnerInv
  <2>4. \A u \in Threads : pc'[u] = "writing" => idx'[u] = 0
    BY Zenon, <1>i, <1>3 DEF OwnerInv
  <2> QED
    BY Zenon, <2>1, <2>2, <2>3, <2>4 DEF OwnerInv
<1>10. ExclusionInv'
  BY ZenonT(20), <1>i, <1>2, <1>4 DEF ExclusionInv
<1>11. HelperInv'
  <2>1. \A h \in Helpers : h \in Threads /\ Parent[h] \in Threads /\ h # t
    BY ZenonT(20), <1>3, RRWThreads
  <2> QED
    BY Zenon, <1>i, <1>3, <1>6, <2>1 DEF HelperInv
<1>12. ASSUME NEW m \in Locks, NEW u \in rr_cv'[m]
       PROVE  /\ m # l /\ u \in rr_cv[m] /\ u \in Threads /\ u # t
              /\ pc'[u] = pc[u] /\ idx'[u] = idx[u]
  BY <1>i, <1>3, <1>4 DEF TypeOK, SleepersBlocked
<1>13. SleepersBlocked'
  <2> SUFFICES ASSUME NEW m \in Locks, NEW u \in rr_cv'[m]
               PROVE  \/ /\ pc'[u] \in {"read", "prio"} /\ TdLock[u] = m
                         /\ ReadBlocked(u)'
                      \/ /\ pc'[u] = "write" /\ idx'[u] = m
                         /\ WriteBlocked(m)'
                         /\ \/ rr_writer'[m] # NoThread
                            \/ rr_writer_wanted'[m] = B_TRUE
    BY Zenon DEF SleepersBlocked
  <2>1. \/ pc[u] \in {"read", "prio"} /\ TdLock[u] = m /\ ReadBlocked(u)
        \/ /\ pc[u] = "write" /\ idx[u] = m /\ WriteBlocked(m)
           /\ rr_writer[m] # NoThread \/ rr_writer_wanted[m] = B_TRUE
    BY Zenon, <1>i, <1>12 DEF SleepersBlocked
  <2>2. rr_writer'[m] = rr_writer[m]
    BY Zenon, <1>4, <1>12
  <2> QED
    BY ZenonT(20), <1>2, <1>6, <1>12, <2>1, <2>2 DEF ReadBlocked, WriteBlocked
<1>14. ReentryNeverSleeps'
  BY Zenon, <1>i, <1>6, <1>12 DEF ReentryNeverSleeps
<1> QED
  BY ONLY ZenonT(20), <1>1, <1>7, <1>8, <1>9, <1>10, <1>11, <1>13, <1>14
     DEF IndInv

-----------------------------------------------------------------------------
(* Readers.                                                                *)

\* What a new hold of t is: not yet in tsd or anon, and on a free lock.
LEMMA NewHold ==
    ASSUME IndInv, NEW t \in Threads, pc[t] \in {"read", "prio"},
           NEW h, h = [thread |-> t, tag |-> tag[t], n |-> enters[t] + 1]
    PROVE  /\ h \in Hold /\ h \notin tsd /\ h \notin anon
           /\ h.thread = t /\ h.n = enters[t] + 1
           /\ enters[t] + 1 \in 0 .. MaxHolds
<1>i. TypeOK /\ FreshInv /\ HelperInv
  BY Zenon DEF IndInv
<1>1. enters[t] \in Nat /\ enters[t] < MaxHolds
  <2>1. enters[t] \in Nat
    BY <1>i, MaxHoldsAssumption DEF TypeOK
  <2>2. CASE pc[t] = "read"
    BY ZenonT(20), <1>i, <2>1, <2>2 DEF FreshInv
  <2>3. CASE pc[t] = "prio"
    <3>1. enters[t] = 0
      BY Zenon, <1>i, <2>3 DEF FreshInv, HelperInv
    <3> QED
      BY <3>1, MaxHoldsAssumption
  <2> QED
    BY Zenon, <2>2, <2>3
<1>2. h.thread = t /\ h.n = enters[t] + 1 /\ enters[t] + 1 \in 1 .. MaxHolds
  BY <1>1, MaxHoldsAssumption
<1>3. h \in Hold
  BY Zenon, <1>i, <1>2 DEF TypeOK, Hold
<1>4. h \notin tsd /\ h \notin anon
  BY <1>i, <1>1, <1>2 DEF FreshInv
<1> QED
  BY <1>2, <1>3, <1>4, MaxHoldsAssumption

\* ReadGet: the hold goes where the counts say, and no sleeper is freed: a
\* reader that sleeps behind an announced writer still holds nothing.
LEMMA ReadGetStep ==
    ASSUME IndInv, NEW t \in Threads, ReadGet(t)
    PROVE  IndInv'
<1>i. /\ TypeOK /\ FreshInv /\ CountsExact /\ OwnerInv /\ ExclusionInv
      /\ TrackInv /\ HelperInv /\ SleepersBlocked /\ ReentryNeverSleeps
  BY Zenon DEF IndInv
<1> DEFINE l == TdLock[t]
           h == [thread |-> t, tag |-> tag[t], n |-> enters[t] + 1]
           linked == rr_writer_wanted[l] = B_TRUE \/ rr_track_all = B_TRUE
<1>0. l \in Locks
  BY Zenon, TdLockAssumption
<1>1. pc[t] \in {"read", "prio"} /\ ~Asleep(t) /\ ~ReadBlocked(t)
  BY Zenon DEF ReadGet
<1>2. /\ h \in Hold /\ h \notin tsd /\ h \notin anon
      /\ h.thread = t /\ h.n = enters[t] + 1
      /\ enters[t] + 1 \in 0 .. MaxHolds
  BY ONLY ZenonT(20), <1>1, NewHold, IndInv, t \in Threads
<1>3. /\ linked => /\ tsd' = tsd \cup {h} /\ anon' = anon
                   /\ rr_linked_rcount' = [rr_linked_rcount EXCEPT ![l] = @ + 1]
                   /\ rr_anon_rcount' = rr_anon_rcount
      /\ ~linked => /\ anon' = anon \cup {h} /\ tsd' = tsd
                    /\ rr_anon_rcount' = [rr_anon_rcount EXCEPT ![l] = @ + 1]
                    /\ rr_linked_rcount' = rr_linked_rcount
  BY Zenon DEF ReadGet
<1>4. /\ rr_writer' = rr_writer /\ rr_writer_wanted' = rr_writer_wanted
      /\ rr_track_all' = rr_track_all /\ rr_cv' = rr_cv /\ tag' = tag
      /\ idx' = idx
      /\ pc' = [pc EXCEPT ![t] = "idle"]
      /\ enters' = [enters EXCEPT ![t] = @ + 1]
  BY Zenon DEF ReadGet
<1> HIDE DEF h, linked
<1>5. /\ pc'[t] = "idle" /\ enters'[t] = enters[t] + 1
      /\ \A u \in Threads \ {t} : pc'[u] = pc[u] /\ enters'[u] = enters[u]
  BY Zenon, <1>i, <1>4 DEF TypeOK
<1>6. TypeOK'
  <2>1. /\ rr_linked_rcount' \in [Locks -> Nat]
        /\ rr_anon_rcount' \in [Locks -> Nat]
    <3>1. /\ rr_linked_rcount \in [Locks -> Nat]
          /\ rr_anon_rcount \in [Locks -> Nat]
      BY ZenonT(20), <1>i DEF TypeOK
    <3> QED
      BY ONLY <1>0, <1>3, <3>1
  <2>2. tsd' \in SUBSET Hold /\ anon' \in SUBSET Hold
    BY Zenon, <1>i, <1>2, <1>3 DEF TypeOK
  <2>3. enters' \in [Threads -> 0 .. MaxHolds]
    BY Zenon, <1>i, <1>2, <1>4 DEF TypeOK
  <2> QED
    BY Zenon, <1>i, <1>4, <2>1, <2>2, <2>3 DEF TypeOK
<1>7. /\ tsd' \cup anon' = (tsd \cup anon) \cup {h}
      /\ Holds(t)' = Holds(t) \cup {h}
      /\ \A u \in Threads \ {t} : Holds(u)' = Holds(u)
  BY Zenon, <1>2, <1>3 DEF Holds
<1>8. rr_writer[l] = NoThread
  BY Zenon, <1>1 DEF ReadBlocked
<1>9. FreshInv'
  <2>1. IsFiniteSet(tsd') /\ IsFiniteSet(anon')
    BY <1>i, <1>2, <1>3, OnAdd DEF FreshInv
  <2>2. \A g \in tsd' \cup anon' : g.n <= enters'[g.thread]
    <3> SUFFICES ASSUME NEW g \in tsd' \cup anon'
                 PROVE  g.n <= enters'[g.thread]
      BY Zenon
    <3>1. CASE g = h
      BY <1>2, <1>5, <3>1
    <3>2. CASE g # h
      <4>1. g \in tsd \cup anon
        BY Zenon, <1>7, <3>2
      <4>2. g.thread \in Threads /\ g.n \in Nat /\ g.n <= enters[g.thread]
        BY <1>i, <4>1, MaxHoldsAssumption DEF TypeOK, Hold, FreshInv
      <4>3. enters[g.thread] \in Nat
        BY <1>i, <4>2, MaxHoldsAssumption DEF TypeOK
      <4> QED
        BY <1>5, <4>2, <4>3
    <3> QED
      BY Zenon, <3>1, <3>2
  <2>3. \A u \in Threads : /\ Holds(u)' = {} => enters'[u] = 0
                           /\ pc'[u] = "read" => enters'[u] < MaxHolds
    BY Zenon, <1>i, <1>5, <1>7 DEF FreshInv
  <2> QED
    BY ZenonT(20), <2>1, <2>2, <2>3 DEF FreshInv
<1>10. CountsExact'
  <2>1. tsd' \cap anon' = {}
    BY Zenon, <1>i, <1>2, <1>3 DEF CountsExact
  <2>2. ASSUME NEW m \in Locks
        PROVE  /\ rr_linked_rcount'[m] = Cardinality(On(tsd', m))
               /\ rr_anon_rcount'[m] = Cardinality(On(anon', m))
    <3>1. /\ rr_linked_rcount[m] = Cardinality(On(tsd, m))
          /\ rr_anon_rcount[m] = Cardinality(On(anon, m))
      BY Zenon, <1>i DEF CountsExact
    <3>2. CASE linked
      <4>1. /\ m = l => Cardinality(On(tsd \cup {h}, m))
                          = Cardinality(On(tsd, m)) + 1
            /\ m # l => On(tsd \cup {h}, m) = On(tsd, m)
        <5>1. IsFiniteSet(tsd) /\ h \notin tsd /\ TdLock[h.thread] = l
          BY ZenonT(20), <1>i, <1>2 DEF FreshInv
        <5> QED
          BY ONLY <5>1, OnAdd
      <4>2. rr_linked_rcount'[m] = IF m = l THEN rr_linked_rcount[m] + 1
                                   ELSE rr_linked_rcount[m]
        BY <1>i, <1>3, <3>2 DEF TypeOK
      <4>3. rr_linked_rcount'[m] = Cardinality(On(tsd \cup {h}, m))
        BY Zenon, <3>1, <4>1, <4>2
      <4> QED
        BY ZenonT(20), <1>3, <3>1, <3>2, <4>3
    <3>3. CASE ~linked
      <4>1. /\ m = l => Cardinality(On(anon \cup {h}, m))
                          = Cardinality(On(anon, m)) + 1
            /\ m # l => On(anon \cup {h}, m) = On(anon, m)
        <5>1. IsFiniteSet(anon) /\ h \notin anon /\ TdLock[h.thread] = l
          BY ZenonT(20), <1>i, <1>2 DEF FreshInv
        <5> QED
          BY ONLY <5>1, OnAdd
      <4>2. rr_anon_rcount'[m] = IF m = l THEN rr_anon_rcount[m] + 1
                                 ELSE rr_anon_rcount[m]
        BY <1>i, <1>3, <3>3 DEF TypeOK
      <4>3. rr_anon_rcount'[m] = Cardinality(On(anon \cup {h}, m))
        BY ZenonT(20), <3>1, <4>1, <4>2
      <4> QED
        BY ZenonT(20), <1>3, <3>1, <3>3, <4>3
    <3> QED
      BY Zenon, <3>2, <3>3
  <2> QED
    BY ZenonT(20), <2>1, <2>2 DEF CountsExact, On
<1>11. OwnerInv'
  <2>1. \A u \in Threads, m \in Locks : Owns(u, m)' <=> Owns(u, m)
    BY Zenon, <1>1, <1>4, <1>5 DEF Owns
  <2> QED
    BY <1>i, <1>1, <1>4, <1>5, <1>7, <2>1 DEF OwnerInv
<1>12. \A m \in Locks \ {l} : /\ rr_linked_rcount'[m] = rr_linked_rcount[m]
                              /\ rr_anon_rcount'[m] = rr_anon_rcount[m]
  BY ZenonT(20), <1>i, <1>3 DEF TypeOK
<1>13. ExclusionInv'
  BY ZenonT(20), <1>i, <1>4, <1>8, <1>12 DEF ExclusionInv
<1>14. TrackInv'
  BY Zenon, <1>i, <1>3, <1>4 DEF TrackInv, linked
<1>15. HelperInv'
  <2>1. \A g \in Helpers : /\ g \in Threads /\ Parent[g] \in Threads
                           /\ Parent[g] # g
    BY Zenon, RRWThreads
  <2>2. \A u \in Threads : pc'[u] = "await" => Holds(u)' # {}
    BY ZenonT(20), <1>i, <1>5, <1>7 DEF HelperInv
  <2>3. \A u \in Threads : pc'[u] = "prio" => u \in Helpers /\ Holds(u)' = {}
    BY ZenonT(20), <1>i, <1>5, <1>7 DEF HelperInv
  <2>4. ASSUME NEW g \in Helpers, pc'[Parent[g]] # "await"
        PROVE  pc'[g] = "idle" /\ Holds(g)' = {}
    <3>1. pc[Parent[g]] # "await"
      BY ZenonT(20), <1>1, <1>5, <2>1, <2>4
    <3>2. pc[g] = "idle" /\ Holds(g) = {}
      BY ZenonT(20), <1>i, <3>1 DEF HelperInv
    <3>3. g # t
      BY ONLY Zenon, <1>1, <3>2
    <3> QED
      BY ZenonT(20), <1>5, <1>7, <2>1, <3>2, <3>3
  <2> QED
    BY ZenonT(20), <2>2, <2>3, <2>4 DEF HelperInv
<1>16. ASSUME NEW m \in Locks, NEW u \in rr_cv'[m]
       PROVE  /\ u \in rr_cv[m] /\ u \in Threads /\ u # t
              /\ pc'[u] = pc[u] /\ idx'[u] = idx[u]
              /\ Holds(u) = {} /\ Holds(u)' = {}
  BY <1>i, <1>1, <1>4, <1>5, <1>7 DEF TypeOK, Asleep, ReentryNeverSleeps
<1>17. SleepersBlocked'
  <2> SUFFICES ASSUME NEW m \in Locks, NEW u \in rr_cv'[m]
               PROVE  \/ /\ pc'[u] \in {"read", "prio"} /\ TdLock[u] = m
                         /\ ReadBlocked(u)'
                      \/ /\ pc'[u] = "write" /\ idx'[u] = m
                         /\ WriteBlocked(m)'
                         /\ \/ rr_writer'[m] # NoThread
                            \/ rr_writer_wanted'[m] = B_TRUE
    BY Zenon DEF SleepersBlocked
  <2>0. \/ pc[u] \in {"read", "prio"} /\ TdLock[u] = m /\ ReadBlocked(u)
        \/ /\ pc[u] = "write" /\ idx[u] = m /\ WriteBlocked(m)
           /\ rr_writer[m] # NoThread \/ rr_writer_wanted[m] = B_TRUE
    BY ZenonT(20), <1>i, <1>16 DEF SleepersBlocked
  <2>1. CASE pc[u] \in {"read", "prio"} /\ TdLock[u] = m /\ ReadBlocked(u)
    <3>1. ~RrnFind(u)'
      BY Zenon, <1>16 DEF RrnFind, Holds
    <3>2. rr_writer[m] = NoThread =>
            /\ rr_writer_wanted[m] = B_TRUE /\ rr_anon_rcount[m] = 0
            /\ pc[u] # "prio"
      BY ZenonT(20), <2>1 DEF ReadBlocked
    <3>3. rr_writer[m] = NoThread => rr_anon_rcount'[m] = rr_anon_rcount[m]
      BY ZenonT(20), <1>3, <1>12, <3>2 DEF linked
    <3> QED
      BY Zenon, <1>4, <1>16, <2>1, <3>1, <3>2, <3>3 DEF ReadBlocked
  <2>2. CASE /\ pc[u] = "write" /\ idx[u] = m /\ WriteBlocked(m)
             /\ rr_writer[m] # NoThread \/ rr_writer_wanted[m] = B_TRUE
    <3>1. /\ rr_linked_rcount[m] \in Nat /\ rr_anon_rcount[m] \in Nat
          /\ rr_linked_rcount'[m] \in Nat /\ rr_anon_rcount'[m] \in Nat
      BY ZenonT(20), <1>i, <1>6 DEF TypeOK
    <3>2. /\ rr_linked_rcount'[m] >= rr_linked_rcount[m]
          /\ rr_anon_rcount'[m] >= rr_anon_rcount[m]
      <4>1. /\ rr_linked_rcount \in [Locks -> Nat]
            /\ rr_anon_rcount \in [Locks -> Nat]
        BY ZenonT(20), <1>i DEF TypeOK
      <4> QED
        BY ONLY <1>0, <1>3, <3>1, <4>1, m \in Locks
    <3>3. WriteBlocked(m)'
      BY ONLY <1>4, <2>2, <3>1, <3>2 DEF WriteBlocked
    <3> QED
      BY Zenon, <1>4, <1>16, <2>2, <3>3
  <2> QED
    BY ZenonT(20), <2>0, <2>1, <2>2
<1>18. ReentryNeverSleeps'
  BY Zenon, <1>i, <1>16 DEF ReentryNeverSleeps
<1> QED
  BY ONLY ZenonT(20), <1>6, <1>9, <1>10, <1>11, <1>13, <1>14, <1>15, <1>17,
     <1>18 DEF IndInv

\* What rrw_exit by a reader does, whichever kind of hold it finds.
LEMMA ExitReadFacts ==
    ASSUME IndInv, NEW t \in Threads, NEW x \in Tags, ExitRead(t, x)
    PROVE  \E h : /\ h.thread = t
                  /\ \/ h \in tsd /\ RemoveLinked(t, h)
                     \/ h \in anon /\ RemoveAnon(t, h)
BY ZenonT(20) DEF ExitRead

\* The parts of the invariant that hold because one hold of t goes.
LEMMA ExitReadHolds ==
    ASSUME IndInv, NEW t \in Threads, NEW x \in Tags, ExitRead(t, x),
           NEW h \in tsd \cup anon, h.thread = t,
           tsd' \cup anon' = (tsd \cup anon) \ {h}, TypeOK',
           IsFiniteSet(tsd') /\ IsFiniteSet(anon'),
           anon' \subseteq anon
    PROVE  /\ FreshInv' /\ OwnerInv' /\ TrackInv' /\ HelperInv'
           /\ ReentryNeverSleeps'
           /\ \A u \in Threads \ {t} : Holds(u)' = Holds(u)
<1>i. /\ TypeOK /\ FreshInv /\ OwnerInv /\ TrackInv /\ HelperInv
      /\ SleepersBlocked /\ ReentryNeverSleeps
  BY ZenonT(20) DEF IndInv
<1>1. /\ pc[t] = "idle" /\ pc' = pc /\ idx' = idx /\ rr_writer' = rr_writer
      /\ rr_track_all' = rr_track_all
      /\ enters' = [enters EXCEPT ![t] = IF Holds(t)' = {} THEN 0 ELSE @]
  BY Zenon DEF ExitRead
<1>2. /\ Holds(t)' = Holds(t) \ {h} /\ Holds(t) # {}
      /\ \A u \in Threads \ {t} : Holds(u)' = Holds(u)
  BY Zenon DEF Holds
<1>3. /\ enters'[t] = IF Holds(t)' = {} THEN 0 ELSE enters[t]
      /\ \A u \in Threads \ {t} : enters'[u] = enters[u]
  BY Zenon, <1>i, <1>1 DEF TypeOK
<1>4. FreshInv'
  <2>1. ASSUME NEW g \in tsd' \cup anon' PROVE g.n <= enters'[g.thread]
    <3>1. g \in tsd \cup anon /\ g.thread \in Threads
      BY Zenon, <1>i DEF TypeOK, Hold
    <3>2. g.n <= enters[g.thread]
      BY Zenon, <1>i, <3>1 DEF FreshInv
    <3>3. g.thread = t => Holds(t)' # {}
      BY ZenonT(20) DEF Holds
    <3> QED
      BY Zenon, <1>3, <3>1, <3>2, <3>3
  <2>2. \A u \in Threads : /\ Holds(u)' = {} => enters'[u] = 0
                           /\ pc'[u] = "read" => enters'[u] < MaxHolds
    BY ZenonT(20), <1>i, <1>1, <1>2, <1>3 DEF FreshInv
  <2> QED
    BY ZenonT(20), <2>1, <2>2 DEF FreshInv
<1>5. OwnerInv'
  <2>1. \A u \in Threads, m \in Locks : Owns(u, m)' <=> Owns(u, m)
    BY ZenonT(20), <1>1 DEF Owns
  <2> QED
    BY <1>i, <1>1, <1>2, <2>1 DEF OwnerInv
<1>6. TrackInv'
  BY ZenonT(20), <1>i, <1>1 DEF TrackInv
<1>7. HelperInv'
  <2>1. \A g \in Helpers : g \in Threads /\ Parent[g] \in Threads
    BY ZenonT(20), RRWThreads
  <2> QED
    BY Zenon, <1>i, <1>1, <1>2, <2>1 DEF HelperInv
<1>8. ReentryNeverSleeps'
  <2>1. \A m \in Locks : rr_cv'[m] \subseteq rr_cv[m]
    <3>1. PICK g : RemoveLinked(t, g) \/ RemoveAnon(t, g)
      BY Zenon, ExitReadFacts
    <3> QED
      BY ZenonT(40), <1>i, <3>1 DEF TypeOK, RemoveLinked, RemoveAnon
  <2>2. \A m \in Locks : \A u \in rr_cv[m] : u \in Threads /\ u # t
    BY ZenonT(20), <1>i, <1>1 DEF TypeOK, SleepersBlocked
  <2> QED
    BY Zenon, <1>i, <1>1, <1>2, <2>1, <2>2 DEF ReentryNeverSleeps
<1> QED
  BY Zenon, <1>2, <1>4, <1>5, <1>6, <1>7, <1>8

\* ExitRead: the last hold of a kind wakes everybody; before that a writer
\* is still blocked by those that remain, and a reader by the writer.
LEMMA ExitReadStep ==
    ASSUME IndInv, NEW t \in Threads, NEW x \in Tags, ExitRead(t, x)
    PROVE  IndInv'
<1>i. /\ TypeOK /\ FreshInv /\ CountsExact /\ ExclusionInv
      /\ TrackInv /\ SleepersBlocked /\ ReentryNeverSleeps
  BY Zenon DEF IndInv
<1> DEFINE l == TdLock[t]
<1>0. l \in Locks
  BY Zenon, TdLockAssumption
<1>1. /\ pc[t] = "idle" /\ pc' = pc /\ idx' = idx /\ tag' = tag
      /\ rr_writer[l] = NoThread /\ rr_writer' = rr_writer
      /\ rr_writer_wanted' = rr_writer_wanted /\ rr_track_all' = rr_track_all
      /\ enters' = [enters EXCEPT ![t] = IF Holds(t)' = {} THEN 0 ELSE @]
  BY ZenonT(20) DEF ExitRead
<1>2. enters' \in [Threads -> 0 .. MaxHolds]
  BY <1>i, <1>1, MaxHoldsAssumption DEF TypeOK
<1>3. PICK h : /\ h.thread = t
               /\ \/ h \in tsd /\ RemoveLinked(t, h)
                  \/ h \in anon /\ RemoveAnon(t, h)
  BY ONLY ZenonT(20), ExitReadFacts, IndInv, t \in Threads, x \in Tags,
     ExitRead(t, x)
<1>4. \A u : u # t /\ Holds(u) = {} /\ tsd' \subseteq tsd => ~RrnFind(u)'
  BY Zenon DEF RrnFind, Holds
<1>5. CASE h \in tsd /\ RemoveLinked(t, h)
  <2> DEFINE k == rr_linked_rcount[l]
  <2>1. /\ tsd' = tsd \ {h} /\ anon' = anon
        /\ rr_linked_rcount' = [rr_linked_rcount EXCEPT ![l] = @ - 1]
        /\ rr_cv' = [rr_cv EXCEPT ![l] = IF k = 1 THEN {} ELSE @]
        /\ rr_anon_rcount' = rr_anon_rcount
    BY Zenon, <1>5 DEF RemoveLinked
  <2>2. /\ IsFiniteSet(tsd \ {h})
        /\ \A m \in Locks :
             /\ m = l => /\ Cardinality(On(tsd, m)) # 0
                         /\ Cardinality(On(tsd \ {h}, m))
                              = Cardinality(On(tsd, m)) - 1
             /\ m # l => On(tsd \ {h}, m) = On(tsd, m)
    BY ZenonT(20), <1>i, <1>3, <1>5, OnRemove DEF FreshInv
  <2>3. k \in Nat /\ k # 0
    BY Zenon, <1>i, <1>0, <2>2 DEF TypeOK, CountsExact
  <2>4. \A m \in Locks :
          /\ rr_linked_rcount'[m] = IF m = l THEN k - 1 ELSE rr_linked_rcount[m]
          /\ rr_cv'[m] = IF m = l /\ k = 1 THEN {} ELSE rr_cv[m]
    BY Zenon, <1>i, <1>0, <2>1 DEF TypeOK
  <2>5. TypeOK'
    <3>1. rr_linked_rcount' \in [Locks -> Nat]
      BY <1>i, <1>0, <2>1, <2>3 DEF TypeOK
    <3>2. rr_cv' \in [Locks -> SUBSET Threads]
      BY Zenon, <1>i, <1>0, <2>1 DEF TypeOK
    <3>3. tsd' \in SUBSET Hold /\ anon' \in SUBSET Hold
      BY ZenonT(20), <1>i, <2>1 DEF TypeOK
    <3> QED
      BY ZenonT(20), <1>i, <1>1, <1>2, <2>1, <3>1, <3>2, <3>3 DEF TypeOK
  <2>6. CountsExact'
    <3>1. tsd' \cap anon' = {}
      BY ZenonT(20), <1>i, <2>1 DEF CountsExact
    <3>2. ASSUME NEW m \in Locks
          PROVE  /\ rr_linked_rcount'[m] = Cardinality(On(tsd', m))
                 /\ rr_anon_rcount'[m] = Cardinality(On(anon', m))
      <4>1. /\ rr_linked_rcount[m] = Cardinality(On(tsd, m))
            /\ rr_anon_rcount[m] = Cardinality(On(anon, m))
        BY Zenon, <1>i DEF CountsExact
      <4>2. rr_linked_rcount'[m] = Cardinality(On(tsd \ {h}, m))
        BY ZenonT(20), <2>2, <2>4, <4>1
      <4> QED
        BY ZenonT(20), <2>1, <4>1, <4>2
    <3> QED
      BY ZenonT(20), <3>1, <3>2 DEF CountsExact, On
  <2>7. h \notin anon
    BY Zenon, <1>i, <1>5 DEF CountsExact
  <2>8. /\ FreshInv' /\ OwnerInv' /\ TrackInv' /\ HelperInv'
        /\ ReentryNeverSleeps'
        /\ \A u \in Threads \ {t} : Holds(u)' = Holds(u)
    <3>1. h \in tsd \cup anon /\ tsd' \cup anon' = (tsd \cup anon) \ {h}
          /\ anon' \subseteq anon
      BY Zenon, <1>5, <2>1, <2>7
    <3>2. IsFiniteSet(tsd') /\ IsFiniteSet(anon')
      BY ZenonT(20), <1>i, <2>1, <2>2 DEF FreshInv
    <3> QED
      BY ONLY Zenon, ExitReadHolds, IndInv, t \in Threads, x \in Tags, ExitRead(t, x),
         <1>3, <2>5, <3>1, <3>2
  <2>9. ExclusionInv'
    BY ZenonT(20), <1>i, <1>1, <2>1, <2>4 DEF ExclusionInv
  <2>10. SleepersBlocked'
    <3> SUFFICES ASSUME NEW m \in Locks, NEW u \in rr_cv'[m]
                 PROVE  \/ /\ pc'[u] \in {"read", "prio"} /\ TdLock[u] = m
                           /\ ReadBlocked(u)'
                        \/ /\ pc'[u] = "write" /\ idx'[u] = m
                           /\ WriteBlocked(m)'
                           /\ \/ rr_writer'[m] # NoThread
                              \/ rr_writer_wanted'[m] = B_TRUE
      BY ZenonT(20) DEF SleepersBlocked
    <3>1. u \in rr_cv[m] /\ (m = l => k # 1)
      BY ZenonT(20), <2>4
    <3>2. \/ pc[u] \in {"read", "prio"} /\ TdLock[u] = m /\ ReadBlocked(u)
          \/ /\ pc[u] = "write" /\ idx[u] = m /\ WriteBlocked(m)
             /\ rr_writer[m] # NoThread \/ rr_writer_wanted[m] = B_TRUE
      BY Zenon, <1>i, <3>1 DEF SleepersBlocked
    <3>3. ~RrnFind(u)'
      BY ZenonT(20), <1>i, <1>1, <1>4, <2>1, <3>1, <3>2 DEF ReentryNeverSleeps
    <3>4. WriteBlocked(m) => WriteBlocked(m)'
      <4>1. CASE m = l
        <5>1. rr_linked_rcount'[m] = k - 1 /\ k # 1
          BY ZenonT(20), <2>4, <3>1, <4>1
        <5>2. rr_linked_rcount'[m] > 0
          BY ONLY <2>3, <5>1
        <5> QED
          BY ZenonT(20), <5>2 DEF WriteBlocked
      <4>2. CASE m # l
        BY Zenon, <1>1, <2>1, <2>4, <4>2 DEF WriteBlocked
      <4> QED
        BY Zenon, <4>1, <4>2
    <3> QED
      BY ZenonT(20), <1>1, <2>1, <3>2, <3>3, <3>4 DEF ReadBlocked
  <2> QED
    BY ONLY ZenonT(20), <2>5, <2>6, <2>8, <2>9, <2>10 DEF IndInv
<1>6. CASE h \in anon /\ RemoveAnon(t, h)
  <2> DEFINE k == rr_anon_rcount[l]
  <2>1. /\ anon' = anon \ {h} /\ tsd' = tsd
        /\ rr_anon_rcount' = [rr_anon_rcount EXCEPT ![l] = @ - 1]
        /\ rr_cv' = [rr_cv EXCEPT ![l] = IF k = 1 THEN {} ELSE @]
        /\ rr_linked_rcount' = rr_linked_rcount
    BY Zenon, <1>6 DEF RemoveAnon
  <2>2. /\ IsFiniteSet(anon \ {h})
        /\ \A m \in Locks :
             /\ m = l => /\ Cardinality(On(anon, m)) # 0
                         /\ Cardinality(On(anon \ {h}, m))
                              = Cardinality(On(anon, m)) - 1
             /\ m # l => On(anon \ {h}, m) = On(anon, m)
    BY ZenonT(20), <1>i, <1>3, <1>6, OnRemove DEF FreshInv
  <2>3. k \in Nat /\ k # 0
    BY Zenon, <1>i, <1>0, <2>2 DEF TypeOK, CountsExact
  <2>4. \A m \in Locks :
          /\ rr_anon_rcount'[m] = IF m = l THEN k - 1 ELSE rr_anon_rcount[m]
          /\ rr_cv'[m] = IF m = l /\ k = 1 THEN {} ELSE rr_cv[m]
    BY Zenon, <1>i, <1>0, <2>1 DEF TypeOK
  <2>5. TypeOK'
    <3>1. rr_anon_rcount' \in [Locks -> Nat]
      BY <1>i, <1>0, <2>1, <2>3 DEF TypeOK
    <3>2. rr_cv' \in [Locks -> SUBSET Threads]
      BY Zenon, <1>i, <1>0, <2>1 DEF TypeOK
    <3>3. tsd' \in SUBSET Hold /\ anon' \in SUBSET Hold
      BY ZenonT(20), <1>i, <2>1 DEF TypeOK
    <3> QED
      BY ZenonT(20), <1>i, <1>1, <1>2, <2>1, <3>1, <3>2, <3>3 DEF TypeOK
  <2>6. CountsExact'
    <3>1. tsd' \cap anon' = {}
      BY ZenonT(20), <1>i, <2>1 DEF CountsExact
    <3>2. ASSUME NEW m \in Locks
          PROVE  /\ rr_linked_rcount'[m] = Cardinality(On(tsd', m))
                 /\ rr_anon_rcount'[m] = Cardinality(On(anon', m))
      <4>1. /\ rr_linked_rcount[m] = Cardinality(On(tsd, m))
            /\ rr_anon_rcount[m] = Cardinality(On(anon, m))
        BY ZenonT(20), <1>i DEF CountsExact
      <4>2. rr_anon_rcount'[m] = Cardinality(On(anon \ {h}, m))
        BY ZenonT(20), <2>2, <2>4, <4>1
      <4> QED
        BY ZenonT(20), <2>1, <4>1, <4>2
    <3> QED
      BY ZenonT(20), <3>1, <3>2 DEF CountsExact, On
  <2>7. h \notin tsd
    BY Zenon, <1>i, <1>6 DEF CountsExact
  <2>8. /\ FreshInv' /\ OwnerInv' /\ TrackInv' /\ HelperInv'
        /\ ReentryNeverSleeps'
        /\ \A u \in Threads \ {t} : Holds(u)' = Holds(u)
    <3>1. h \in tsd \cup anon /\ tsd' \cup anon' = (tsd \cup anon) \ {h}
          /\ anon' \subseteq anon
      BY Zenon, <1>6, <2>1, <2>7
    <3>2. IsFiniteSet(tsd') /\ IsFiniteSet(anon')
      BY ZenonT(20), <1>i, <2>1, <2>2 DEF FreshInv
    <3> QED
      BY ONLY Zenon, ExitReadHolds, IndInv, t \in Threads, x \in Tags, ExitRead(t, x),
         <1>3, <2>5, <3>1, <3>2
  <2>9. ExclusionInv'
    BY ZenonT(20), <1>i, <1>1, <2>1, <2>4 DEF ExclusionInv
  <2>10. SleepersBlocked'
    <3> SUFFICES ASSUME NEW m \in Locks, NEW u \in rr_cv'[m]
                 PROVE  \/ /\ pc'[u] \in {"read", "prio"} /\ TdLock[u] = m
                           /\ ReadBlocked(u)'
                        \/ /\ pc'[u] = "write" /\ idx'[u] = m
                           /\ WriteBlocked(m)'
                           /\ \/ rr_writer'[m] # NoThread
                              \/ rr_writer_wanted'[m] = B_TRUE
      BY ZenonT(20) DEF SleepersBlocked
    <3>1. u \in rr_cv[m] /\ (m = l => k # 1)
      BY Zenon, <2>4
    <3>2. \/ pc[u] \in {"read", "prio"} /\ TdLock[u] = m /\ ReadBlocked(u)
          \/ /\ pc[u] = "write" /\ idx[u] = m /\ WriteBlocked(m)
             /\ rr_writer[m] # NoThread \/ rr_writer_wanted[m] = B_TRUE
      BY Zenon, <1>i, <3>1 DEF SleepersBlocked
    <3>3. ~RrnFind(u)'
      BY ZenonT(20), <1>i, <1>1, <1>4, <2>1, <3>1, <3>2 DEF ReentryNeverSleeps
    <3>4. WriteBlocked(m) => WriteBlocked(m)'
      <4>1. CASE m = l
        <5>1. rr_anon_rcount'[m] = k - 1 /\ k # 1
          BY ZenonT(20), <2>4, <3>1, <4>1
        <5>2. rr_anon_rcount'[m] > 0
          BY ONLY <2>3, <5>1
        <5> QED
          BY ZenonT(20), <5>2 DEF WriteBlocked
      <4>2. CASE m # l
        BY ZenonT(20), <1>1, <2>1, <2>4, <4>2 DEF WriteBlocked
      <4> QED
        BY Zenon, <4>1, <4>2
    <3>5. ASSUME TdLock[u] = m, ReadBlocked(u) PROVE ReadBlocked(u)'
      <4>1. CASE m = l
        BY Zenon, <1>1, <2>3, <3>5, <4>1 DEF ReadBlocked
      <4>2. CASE m # l
        BY ZenonT(20), <1>1, <2>1, <2>4, <3>3, <3>5, <4>2 DEF ReadBlocked
      <4> QED
        BY ZenonT(20), <4>1, <4>2
    <3> QED
      BY ZenonT(20), <1>1, <3>2, <3>4, <3>5
  <2> QED
    BY ONLY ZenonT(20), <2>5, <2>6, <2>8, <2>9, <2>10 DEF IndInv
<1> QED
  BY Zenon, <1>3, <1>5, <1>6

-----------------------------------------------------------------------------
(* The invariant.                                                          *)

\* A stuttering step.
LEMMA StutterStep == ASSUME IndInv, UNCHANGED vars PROVE IndInv'
<1>1. UNCHANGED <<lockvars, tsd, anon>> /\ pc' = pc /\ idx' = idx
      /\ enters' = enters /\ tag' = tag
  BY ZenonT(20) DEF vars, threadvars
<1>2. /\ CountsExact' /\ ExclusionInv' /\ TrackInv'
      /\ SleepersBlocked' /\ ReentryNeverSleeps'
      /\ \A u : Holds(u)' = Holds(u)
  BY Zenon, <1>1, LockFrame
<1>3. TypeOK' /\ FreshInv' /\ OwnerInv' /\ HelperInv'
  <2>1. TypeOK /\ FreshInv /\ OwnerInv /\ HelperInv
    BY Zenon DEF IndInv
  <2> QED
    BY ZenonT(20), <1>1, <1>2, <2>1
       DEF TypeOK, FreshInv, OwnerInv, Owns, HelperInv, lockvars
<1> QED
  BY ONLY ZenonT(20), <1>2, <1>3 DEF IndInv

\* Every step of every thread keeps the invariant.
LEMMA IndInvStep == IndInv /\ [Next]_vars => IndInv'
<1> SUFFICES ASSUME IndInv, [Next]_vars PROVE IndInv'
  BY Zenon
<1>1. ASSUME NEW t \in Threads, ReaderNext(t) PROVE IndInv'
  BY ONLY ZenonT(20), <1>1, t \in Threads, IndInv, EnterReadStep,
     DispatchStep, AwaitDoneStep, ReadWaitStep, ReadGetStep, ExitReadStep
     DEF ReaderNext
<1>2. ASSUME NEW t \in Writers, WriterNext(t) PROVE IndInv'
  <2>1. t \in Threads
    BY Zenon, RRWThreads
  <2> QED
    BY ONLY ZenonT(20), <1>2, <2>1, t \in Writers, IndInv, EnterWriteStep,
       WriteWaitStep, WriteGetStep, ExitWriteStep DEF WriterNext
<1> QED
  BY ONLY ZenonT(20), <1>1, <1>2, [Next]_vars, IndInv, StutterStep DEF Next

\* The invariant holds in every reachable state.
LEMMA Invariance == Spec => []IndInv
BY InitIndInv, IndInvStep, PTL DEF Spec

-----------------------------------------------------------------------------
(* The theorems.                                                           *)

\* Every variable keeps its type; the reference counts of rrw_exit never go
\* below zero.
THEOREM TypeCorrect == Spec => []TypeOK
<1>1. IndInv => TypeOK
  BY Zenon DEF IndInv
<1> QED
  BY <1>1, Invariance, PTL

\* rrm_enter_write returns only when there is no reader and no other writer,
\* for any number of locks in the array.
THEOREM Exclusion == Spec => []WriterExcludes
<1>1. IndInv => WriterExcludes
  <2> SUFFICES ASSUME IndInv PROVE WriterExcludes
    BY Zenon
  <2>i. TypeOK /\ FreshInv /\ CountsExact /\ OwnerInv /\ ExclusionInv
    BY Zenon DEF IndInv
  <2>1. \A h \in tsd \cup anon : rr_writer[TdLock[h.thread]] = NoThread
    BY Zenon, <2>i, HolderCounted
  <2>2. ASSUME NEW t \in Threads, pc[t] = "writing"
        PROVE  /\ tsd \cup anon = {}
               /\ \A u \in Threads \ {t} : pc[u] \notin {"writing", "exit"}
    <3>1. \A l \in Locks : rr_writer[l] = t
      BY ZenonT(20), <2>i, <2>2 DEF OwnerInv, Owns
    <3>2. \A h \in tsd \cup anon : TdLock[h.thread] \in Locks
      BY Zenon, <2>i, HolderCounted
    <3>3. tsd \cup anon = {}
      BY Zenon, <2>1, <3>1, <3>2, RRWThreads
    <3>4. ASSUME NEW u \in Threads \ {t}, pc[u] \in {"writing", "exit"}
          PROVE  FALSE
      <4>1. idx[u] \in Locks /\ idx[u] \in Nat
        BY <2>i, NumLocksAssumption DEF TypeOK, Locks
      <4>2. Owns(u, idx[u])
        BY <3>4, <4>1 DEF Owns
      <4> QED
        BY <2>i, <3>1, <4>1, <4>2 DEF OwnerInv
    <3> QED
      BY Zenon, <3>3, <3>4
  <2> QED
    BY Zenon, <2>1, <2>2 DEF WriterExcludes
<1> QED
  BY <1>1, Invariance, PTL

\* Both reference counts count the holds of their kind, in whatever order
\* tags are entered and released.
THEOREM CountsCorrect == Spec => []CountsExact
<1>1. IndInv => CountsExact
  BY Zenon DEF IndInv
<1> QED
  BY <1>1, Invariance, PTL

\* No wakeup is lost: every sleeper's condition still holds.
THEOREM NoLostWakeup == Spec => []SleepersBlocked
<1>1. IndInv => SleepersBlocked
  BY Zenon DEF IndInv
<1> QED
  BY <1>1, Invariance, PTL

\* A thread that holds the lock, and a helper of one that does, never sleeps
\* in rrw_enter_read_impl.
THEOREM Reentrant == Spec => []ReentryNeverSleeps
<1>1. IndInv => ReentryNeverSleeps
  BY Zenon DEF IndInv
<1> QED
  BY <1>1, Invariance, PTL

\* rrw_held(RW_READER) is never wrong for a holder, and exact if the lock
\* tracks all its readers.
THEOREM HeldCorrect == Spec => []HeldReaderRight
<1>1. IndInv => HeldReaderRight
  <2> SUFFICES ASSUME IndInv, NEW t \in Threads
               PROVE  /\ Holds(t) # {} => HeldReader(t)
                      /\ rr_track_all = B_TRUE /\ HeldReader(t) => Holds(t) # {}
    BY Zenon DEF HeldReaderRight
  <2>i. TypeOK /\ FreshInv /\ CountsExact /\ ExclusionInv /\ TrackInv
    BY Zenon DEF IndInv
  <2>1. ASSUME NEW h \in Holds(t) PROVE HeldReader(t)
    <3>1. h \in tsd \cup anon /\ h.thread = t
      BY Zenon DEF Holds
    <3>2. /\ h \in tsd => rr_linked_rcount[TdLock[t]] # 0
          /\ h \in anon => rr_anon_rcount[TdLock[t]] # 0
      BY Zenon, <2>i, <3>1, HolderCounted
    <3> QED
      BY Zenon, <3>1, <3>2 DEF HeldReader, RrnFind
  <2>2. ASSUME rr_track_all = B_TRUE, HeldReader(t) PROVE Holds(t) # {}
    <3>1. TdLock[t] \in Locks
      BY Zenon, TdLockAssumption
    <3>2. On(anon, TdLock[t]) = {}
      BY Zenon, <2>i, <2>2 DEF TrackInv, On
    <3>3. rr_anon_rcount[TdLock[t]] = 0
      BY Zenon, <2>i, <3>1, <3>2, CountedHolder
    <3> QED
      BY Zenon, <2>2, <3>3 DEF HeldReader, RrnFind, Holds
  <2> QED
    BY Zenon, <2>1, <2>2
<1> QED
  BY <1>1, Invariance, PTL

-----------------------------------------------------------------------------
(* Nobody waits in a circle.                                               *)

LEMMA WantedStep ==
    ASSUME IndInv, WantedInv, [Next]_vars
    PROVE  WantedInv'
<1>i. TypeOK /\ OwnerInv
  BY Zenon DEF IndInv
<1>1. CASE /\ rr_writer_wanted' = rr_writer_wanted
           /\ \A u \in Threads : pc[u] = "write" => pc'[u] = "write" /\ idx'[u] = idx[u]
  BY Zenon, <1>1 DEF WantedInv
<1>2. ASSUME NEW t \in Threads, ReaderNext(t) PROVE WantedInv'
  <2>1. rr_writer_wanted' = rr_writer_wanted /\ idx' = idx
    BY Zenon, <1>2
       DEF ReaderNext, EnterRead, Dispatch, AwaitDone, ReadWait, ReadGet, ExitRead,
           lockvars, threadvars
  <2>2. ASSUME NEW u \in Threads, pc[u] = "write" PROVE pc'[u] = "write"
    <3>1. u \notin HelpersOf(t)
      BY Zenon, <1>i, <2>2, RRWThreads DEF OwnerInv, HelpersOf
    <3> QED
      BY Zenon, <1>i, <1>2, <2>2, <3>1
         DEF ReaderNext, EnterRead, Dispatch, AwaitDone, ReadWait, ReadGet, ExitRead,
             lockvars, threadvars, TypeOK
  <2> QED
    BY Zenon, <1>1, <2>1, <2>2
<1>3. ASSUME NEW t \in Threads, EnterWrite(t) \/ ExitWrite(t) PROVE WantedInv'
  <2>1. rr_writer_wanted' = rr_writer_wanted
    BY Zenon, <1>3 DEF EnterWrite, ExitWrite, lockvars
  <2>2. ASSUME NEW u \in Threads, pc[u] = "write"
        PROVE  pc'[u] = "write" /\ idx'[u] = idx[u]
    BY ZenonT(40), <1>i, <1>3, <2>2 DEF EnterWrite, ExitWrite, TypeOK
  <2> QED
    BY Zenon, <1>1, <2>1, <2>2
<1>4. ASSUME NEW t \in Threads, WriteWait(t) PROVE WantedInv'
  <2> SUFFICES ASSUME NEW l \in Locks, rr_writer_wanted'[l] = B_TRUE
               PROVE  \E u \in Threads : pc'[u] = "write" /\ idx'[u] = l
    BY Zenon DEF WantedInv
  <2>1. pc' = pc /\ idx' = idx /\ pc[t] = "write"
    BY Zenon, <1>4 DEF WriteWait, threadvars
  <2>2. CASE l = idx[t]
    BY Zenon, <2>1, <2>2
  <2>3. CASE l # idx[t]
    <3>1. rr_writer_wanted[l] = B_TRUE
      BY Zenon, <1>i, <1>4, <2>3 DEF WriteWait, TypeOK
    <3> QED
      BY Zenon, <2>1, <3>1 DEF WantedInv
  <2> QED
    BY Zenon, <2>2, <2>3
<1>5. ASSUME NEW t \in Threads, WriteGet(t) PROVE WantedInv'
  <2> SUFFICES ASSUME NEW l \in Locks, rr_writer_wanted'[l] = B_TRUE
               PROVE  \E u \in Threads : pc'[u] = "write" /\ idx'[u] = l
    BY Zenon DEF WantedInv
  <2>1. idx[t] \in Locks /\ l # idx[t] /\ rr_writer_wanted[l] = B_TRUE
    <3>1. idx[t] \in Locks /\ B_TRUE # B_FALSE
      BY SMT, <1>i DEF TypeOK, B_TRUE, B_FALSE
    <3> QED
      BY Zenon, <1>i, <1>5, <3>1 DEF WriteGet, TypeOK
  <2>2. PICK u \in Threads : pc[u] = "write" /\ idx[u] = l
    BY Zenon, <2>1 DEF WantedInv
  <2>3. u # t
    BY Zenon, <2>1, <2>2
  <2>4. pc'[u] = "write" /\ idx'[u] = l
    BY Zenon, <1>i, <1>5, <2>2, <2>3 DEF WriteGet, TypeOK
  <2> QED
    BY Zenon, <2>4
<1>6. CASE UNCHANGED vars
  BY Zenon, <1>1, <1>6 DEF vars, lockvars, threadvars
<1> QED
  BY Zenon, <1>2, <1>3, <1>4, <1>5, <1>6, RRWThreads DEF Next, WriterNext

LEMMA WantedInvariance == Spec => []WantedInv
<1>1. Init => WantedInv
  BY SMT DEF Init, WantedInv, B_FALSE, B_TRUE
<1>2. IndInv /\ WantedInv /\ [Next]_vars => WantedInv'
  BY Zenon, WantedStep
<1> QED
  BY <1>1, <1>2, Invariance, PTL DEF Spec

(* A set of lock numbers has a last one.                                   *)
LEMMA LastLock ==
    ASSUME NEW S, S \subseteq Locks, S # {}
    PROVE  \E l \in S : \A k \in S : k <= l
<1> DEFINE T == {n \in Nat : \E l \in S : n + l = NumLocks}
<1>1. \A l \in S : l \in Nat /\ NumLocks - l \in T /\ (NumLocks - l) + l = NumLocks
  BY SMT, NumLocksAssumption DEF Locks
<1>2. T \subseteq Nat /\ T # {}
  BY Zenon, <1>1
<1> HIDE DEF T
<1>3. \E x \in T : \A y \in T : ~(<<y, x>> \in OpToRel(<, Nat))
  BY Zenon, <1>2, WFMin, NatLessThanWellFounded
<1>4. PICK x \in T : \A y \in T : ~(<<y, x>> \in OpToRel(<, Nat))
  BY Zenon, <1>3
<1>5. PICK l \in S : x + l = NumLocks
  BY Zenon DEF T
<1>6. ASSUME NEW k \in S PROVE k <= l
  <2>1. ~(<<NumLocks - k, x>> \in OpToRel(<, Nat)) /\ NumLocks - k \in Nat /\ x \in Nat
    BY Zenon, <1>1, <1>2, <1>4
  <2>2. ~(NumLocks - k < x)
    BY SMT, <2>1 DEF OpToRel
  <2>3. k \in Nat /\ l \in Nat /\ x \in Nat
    BY Zenon, <1>1, <2>1
  <2> QED
    BY ONLY SMT, <1>5, <2>2, <2>3, NumLocksAssumption
<1> QED
  BY Zenon, <1>6

\* While anybody sleeps, a thread that is awake has the lock or is inside
\* rrm_enter_write or rrm_exit: the writers take the locks of the array in the
\* order of their indexes, so the one that got furthest waits for no writer.
THEOREM NoCircularWait == Spec => []NoStall
<1>1. ASSUME IndInv, WantedInv PROVE NoStall
  <2>i. /\ TypeOK /\ CountsExact /\ OwnerInv /\ SleepersBlocked
        /\ ReentryNeverSleeps
    BY Zenon, <1>1 DEF IndInv
  <2> SUFFICES ASSUME NEW t \in Threads, Asleep(t),
                      \A u \in Threads :
                          Holds(u) # {} \/ pc[u] \in {"write", "writing", "exit"}
                              => Asleep(u)
               PROVE  FALSE
    BY Zenon DEF NoStall
  <2>1. ASSUME NEW u \in Threads PROVE Holds(u) = {}
    BY Zenon, <2>i DEF ReentryNeverSleeps, Asleep
  <2>2. tsd = {} /\ anon = {}
    BY Zenon, <2>i, <2>1 DEF TypeOK, Hold, Holds
  <2>3. ASSUME NEW l \in Locks PROVE rr_anon_rcount[l] = 0 /\ rr_linked_rcount[l] = 0
    <3>1. On(tsd, l) = {} /\ On(anon, l) = {}
      BY Zenon, <2>2 DEF On
    <3> QED
      BY Zenon, <2>i, <3>1, FS_EmptySet DEF CountsExact
  <2>4. ASSUME NEW u \in Threads, pc[u] \in {"write", "writing", "exit"}
        PROVE  pc[u] = "write" /\ idx[u] \in Locks /\ WriteBlocked(idx[u])
    <3>1. PICK l \in Locks : u \in rr_cv[l]
      BY Zenon, <2>4 DEF Asleep
    <3> QED
      BY Zenon, <2>i, <2>4, <3>1 DEF SleepersBlocked
  <2>5. ASSUME NEW l \in Locks, rr_writer[l] # NoThread
        PROVE  \E u \in Threads : pc[u] = "write" /\ l < idx[u]
    <3>1. PICK u \in Threads : u = rr_writer[l]
      BY Zenon, <2>i, <2>5 DEF TypeOK
    <3>2. Owns(u, l)
      BY Zenon, <2>i, <3>1 DEF OwnerInv
    <3> QED
      BY Zenon, <2>4, <3>2 DEF Owns
  <2> DEFINE S == {idx[u] : u \in {v \in Threads : pc[v] = "write"}}
  <2>6. S # {}
    <3>1. PICK l \in Locks : t \in rr_cv[l]
      BY Zenon DEF Asleep
    <3>2. \/ pc[t] = "write"
          \/ rr_writer[l] # NoThread
          \/ rr_writer_wanted[l] = B_TRUE
      BY Zenon, <2>i, <3>1 DEF SleepersBlocked, ReadBlocked
    <3>3. \E u \in Threads : pc[u] = "write"
      BY Zenon, <1>1, <2>5, <3>2 DEF WantedInv
    <3> QED
      BY Zenon, <3>3
  <2>7. S \subseteq Locks
    <3>1. \A u \in Threads : idx[u] \in Locks
      BY Zenon, <2>i DEF TypeOK
    <3> QED
      BY Zenon, <3>1
  <2>8. PICK l \in S : \A k \in S : k <= l
    <3> HIDE DEF S
    <3> QED
      BY Zenon, <2>6, <2>7, LastLock
  <2>9. l \in Locks /\ WriteBlocked(l)
    BY Zenon, <2>4, <2>7
  <2>10. rr_writer[l] # NoThread
    BY SMT, <2>3, <2>9 DEF WriteBlocked
  <2>11. PICK u \in Threads : pc[u] = "write" /\ l < idx[u]
    BY Zenon, <2>5, <2>9, <2>10
  <2>12. idx[u] \in Locks /\ idx[u] <= l
    BY Zenon, <2>7, <2>8, <2>11
  <2> QED
    BY SMT, <2>9, <2>11, <2>12 DEF Locks
<1> QED
  BY <1>1, Invariance, WantedInvariance, PTL
=============================================================================
