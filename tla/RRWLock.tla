------------------------------ MODULE RRWLock ------------------------------
(***************************************************************************)
(* The re-entrant reader/writer lock of module/zfs/rrwlock.c (it protects  *)
(* the pool configuration, dp_config_rwlock) and the reader-mostly lock    *)
(* rrmlock_t built from an array of them.                                  *)
(*                                                                         *)
(* A plain rrwlock_t is the array of one.  A reader uses the lock its      *)
(* thread hashes to (RRM_TD_LOCK), a writer takes all of them in order.    *)
(* Everything between mutex_enter(rr_lock) and the cv_wait or mutex_exit   *)
(* is one step.  A read hold is a record [thread, tag, n]; n tells apart   *)
(* the holds of a thread with the same tag and is history only.            *)
(***************************************************************************)
EXTENDS Naturals, FiniteSets

CONSTANTS Threads,
          Writers,    \* the threads that enter for writing
          Helpers,    \* threads that enter with rrw_enter_read_prio
          Parent,     \* [Helpers -> Threads]: on whose behalf
          Tags,
          NoThread,
          NumLocks,   \* RRM_NUM_LOCKS, or 1 for a plain rrwlock_t
          TdLock,     \* RRM_TD_LOCK
          MaxHolds    \* bound: enters by a thread in one outermost read hold

Locks == 0 .. (NumLocks - 1)

ASSUME NumLocksAssumption == NumLocks \in Nat \ {0}
ASSUME TdLockAssumption == TdLock \in [Threads -> Locks]
ASSUME RRWThreads ==
    /\ IsFiniteSet(Threads) /\ NoThread \notin Threads
    /\ Helpers \subseteq Threads /\ Writers \subseteq Threads \ Helpers
    /\ Parent \in [Helpers -> Threads \ Helpers]
ASSUME MaxHoldsAssumption == MaxHolds \in Nat \ {0}
\* rrw_enter_read_prio exists for the plain lock only.
ASSUME PrioAssumption == Helpers # {} => NumLocks = 1

B_FALSE == 0
B_TRUE == 1

VARIABLES
    rr_writer, rr_anon_rcount, rr_linked_rcount, rr_writer_wanted, \* [lock]
    rr_track_all,
    rr_cv,         \* [lock] threads asleep
    tsd,           \* the rrw_node_t lists: the linked read holds
    anon,          \* history: the anonymous read holds
    pc,            \* [thread]
    tag,           \* [thread] tag of the read being entered
    enters,        \* [thread] enters in the current outermost hold
    idx            \* [thread] loop index of rrm_enter_write, rrm_exit

lockvars == <<rr_writer, rr_anon_rcount, rr_linked_rcount, rr_writer_wanted,
              rr_track_all, rr_cv>>
threadvars == <<pc, tag, enters, idx>>
vars == <<lockvars, tsd, anon, threadvars>>

-----------------------------------------------------------------------------

Holds(t) == {h \in tsd \cup anon : h.thread = t}
Asleep(t) == \E l \in Locks : t \in rr_cv[l]
HelpersOf(t) == {h \in Helpers : Parent[h] = t}

\* rrw_init
Init ==
    /\ rr_writer = [l \in Locks |-> NoThread]
    /\ rr_anon_rcount = [l \in Locks |-> 0]
    /\ rr_linked_rcount = [l \in Locks |-> 0]
    /\ rr_writer_wanted = [l \in Locks |-> B_FALSE]
    /\ rr_track_all \in {B_FALSE, B_TRUE}
    /\ rr_cv = [l \in Locks |-> {}]
    /\ tsd = {} /\ anon = {}
    /\ pc = [t \in Threads |-> "idle"]
    /\ tag \in [Threads -> Tags]
    /\ enters = [t \in Threads |-> 0]
    /\ idx = [t \in Threads |-> 0]

\* rrn_find(rrl) # NULL
RrnFind(t) ==
    /\ rr_linked_rcount[TdLock[t]] # 0
    /\ \E h \in tsd : h.thread = t

\* rrw_enter_read by a thread that may hold reads, but no write
EnterRead(t) ==
    /\ pc[t] = "idle" /\ enters[t] < MaxHolds
    /\ t \in Helpers => Holds(t) # {}
    /\ \E x \in Tags : tag' = [tag EXCEPT ![t] = x]
    /\ pc' = [pc EXCEPT ![t] = "read"]
    /\ UNCHANGED <<lockvars, tsd, anon, enters, idx>>

\* dmu_objset_find_dp: t, which holds the lock, has helpers enter with
\* rrw_enter_read_prio and waits for them
Dispatch(t) ==
    /\ pc[t] = "idle" /\ HelpersOf(t) # {} /\ Holds(t) # {}
    /\ pc' = [u \in Threads |-> IF u = t THEN "await"
                                ELSE IF u \in HelpersOf(t) THEN "prio"
                                ELSE pc[u]]
    /\ UNCHANGED <<lockvars, tsd, anon, tag, enters, idx>>

AwaitDone(t) ==
    /\ pc[t] = "await"
    /\ \A h \in HelpersOf(t) : pc[h] = "idle" /\ Holds(h) = {}
    /\ pc' = [pc EXCEPT ![t] = "idle"]
    /\ UNCHANGED <<lockvars, tsd, anon, tag, enters, idx>>

\* Mutant: the re-entrant reader waits too.
ReadBlockedAlways(t) ==
    LET l == TdLock[t] IN
    \/ rr_writer[l] # NoThread
    \/ /\ rr_writer_wanted[l] = B_TRUE
       /\ rr_anon_rcount[l] = 0
       /\ pc[t] # "prio"

\* Mutant: readers do not give way to a waiting writer.
ReadBlockedByHolder(t) == rr_writer[TdLock[t]] # NoThread

ReadBlocked(t) ==
    LET l == TdLock[t] IN
    \/ rr_writer[l] # NoThread
    \/ /\ rr_writer_wanted[l] = B_TRUE
       /\ rr_anon_rcount[l] = 0
       /\ pc[t] # "prio"
       /\ ~RrnFind(t)

\* rrw_enter_read_impl: cv_wait
ReadWait(t) ==
    /\ pc[t] \in {"read", "prio"} /\ ~Asleep(t)
    /\ ReadBlocked(t)
    /\ rr_cv' = [rr_cv EXCEPT ![TdLock[t]] = @ \cup {t}]
    /\ UNCHANGED <<rr_writer, rr_anon_rcount, rr_linked_rcount,
                   rr_writer_wanted, rr_track_all, tsd, anon, threadvars>>

\* Mutant: a linked hold is not counted.
ReadGetUncounted(t) ==
    LET l == TdLock[t]
        hold == [thread |-> t, tag |-> tag[t], n |-> enters[t] + 1] IN
    /\ pc[t] \in {"read", "prio"} /\ ~Asleep(t)
    /\ ~ReadBlocked(t)
    /\ IF rr_writer_wanted[l] = B_TRUE \/ rr_track_all = B_TRUE
       THEN /\ tsd' = tsd \cup {hold}
            /\ UNCHANGED <<anon, rr_anon_rcount, rr_linked_rcount>>
       ELSE /\ anon' = anon \cup {hold}
            /\ rr_anon_rcount' = [rr_anon_rcount EXCEPT ![l] = @ + 1]
            /\ UNCHANGED <<tsd, rr_linked_rcount>>
    /\ pc' = [pc EXCEPT ![t] = "idle"]
    /\ enters' = [enters EXCEPT ![t] = @ + 1]
    /\ UNCHANGED <<rr_writer, rr_writer_wanted, rr_track_all, rr_cv, tag, idx>>

\* ... and the hold, linked when a writer waits or all readers are tracked
ReadGet(t) ==
    LET l == TdLock[t]
        hold == [thread |-> t, tag |-> tag[t], n |-> enters[t] + 1] IN
    /\ pc[t] \in {"read", "prio"} /\ ~Asleep(t)
    /\ ~ReadBlocked(t)
    /\ IF rr_writer_wanted[l] = B_TRUE \/ rr_track_all = B_TRUE
       THEN /\ tsd' = tsd \cup {hold}
            /\ rr_linked_rcount' = [rr_linked_rcount EXCEPT ![l] = @ + 1]
            /\ UNCHANGED <<anon, rr_anon_rcount>>
       ELSE /\ anon' = anon \cup {hold}
            /\ rr_anon_rcount' = [rr_anon_rcount EXCEPT ![l] = @ + 1]
            /\ UNCHANGED <<tsd, rr_linked_rcount>>
    /\ pc' = [pc EXCEPT ![t] = "idle"]
    /\ enters' = [enters EXCEPT ![t] = @ + 1]
    /\ UNCHANGED <<rr_writer, rr_writer_wanted, rr_track_all, rr_cv, tag, idx>>

\* rrn_find_and_remove and the count it belongs to; l's sleepers are woken
\* when the count reaches zero
RemoveLinked(t, h) ==
    LET l == TdLock[t] IN
    /\ tsd' = tsd \ {h} /\ anon' = anon
    /\ rr_linked_rcount' = [rr_linked_rcount EXCEPT ![l] = @ - 1]
    /\ rr_cv' = [rr_cv EXCEPT ![l] = IF rr_linked_rcount[l] = 1 THEN {}
                                     ELSE @]
    /\ UNCHANGED rr_anon_rcount

RemoveAnon(t, h) ==
    LET l == TdLock[t] IN
    /\ anon' = anon \ {h} /\ tsd' = tsd
    /\ rr_anon_rcount' = [rr_anon_rcount EXCEPT ![l] = @ - 1]
    /\ rr_cv' = [rr_cv EXCEPT ![l] = IF rr_anon_rcount[l] = 1 THEN {}
                                     ELSE @]
    /\ UNCHANGED rr_linked_rcount

\* rrw_exit by a reader (rrm_exit: locks[0].rr_writer # curthread): the
\* node with this tag if there is one, else an anonymous hold
ExitRead(t, x) ==
    /\ pc[t] = "idle" /\ \E h \in Holds(t) : h.tag = x
    /\ rr_writer[0] # t /\ rr_writer[TdLock[t]] = NoThread
    /\ LET mine == {h \in tsd : h.thread = t /\ h.tag = x} IN
       IF rr_linked_rcount[TdLock[t]] # 0 /\ mine # {}
       THEN \E h \in mine : RemoveLinked(t, h)
       ELSE \E h \in {g \in anon : g.thread = t /\ g.tag = x} :
               RemoveAnon(t, h)
    /\ enters' = [enters EXCEPT ![t] = IF Holds(t)' = {} THEN 0 ELSE @]
    /\ UNCHANGED <<rr_writer, rr_writer_wanted, rr_track_all, pc, tag, idx>>

\* rrm_enter_write by a thread that holds nothing
EnterWrite(t) ==
    /\ pc[t] = "idle" /\ Holds(t) = {}
    /\ pc' = [pc EXCEPT ![t] = "write"]
    /\ idx' = [idx EXCEPT ![t] = 0]
    /\ UNCHANGED <<lockvars, tsd, anon, tag, enters>>

\* Mutant: does not look at the linked readers.
WriteBlockedAnonOnly(l) ==
    rr_anon_rcount[l] > 0 \/ rr_writer[l] # NoThread

WriteBlocked(l) ==
    rr_anon_rcount[l] > 0 \/ rr_linked_rcount[l] > 0 \/ rr_writer[l] # NoThread

\* rrw_enter_write: announce the writer and cv_wait
WriteWait(t) ==
    LET l == idx[t] IN
    /\ pc[t] = "write" /\ ~Asleep(t)
    /\ WriteBlocked(l)
    /\ rr_writer_wanted' = [rr_writer_wanted EXCEPT ![l] = B_TRUE]
    /\ rr_cv' = [rr_cv EXCEPT ![l] = @ \cup {t}]
    /\ UNCHANGED <<rr_writer, rr_anon_rcount, rr_linked_rcount, rr_track_all,
                   tsd, anon, threadvars>>

\* ... or take this lock and go on to the next
WriteGet(t) ==
    LET l == idx[t] IN
    /\ pc[t] = "write" /\ ~Asleep(t)
    /\ ~WriteBlocked(l)
    /\ rr_writer_wanted' = [rr_writer_wanted EXCEPT ![l] = B_FALSE]
    /\ rr_writer' = [rr_writer EXCEPT ![l] = t]
    /\ IF l + 1 = NumLocks
       THEN /\ pc' = [pc EXCEPT ![t] = "writing"]
            /\ idx' = [idx EXCEPT ![t] = 0]
       ELSE /\ idx' = [idx EXCEPT ![t] = l + 1]
            /\ pc' = pc
    /\ UNCHANGED <<rr_anon_rcount, rr_linked_rcount, rr_track_all, rr_cv, tsd,
                   anon, tag, enters>>

\* rrm_exit by the writer: rrw_exit on one lock after the other
ExitWrite(t) ==
    LET l == idx[t] IN
    /\ pc[t] \in {"writing", "exit"}
    /\ pc[t] = "writing" => rr_writer[0] = t
    /\ rr_writer[l] # NoThread
    /\ rr_writer' = [rr_writer EXCEPT ![l] = NoThread]
    /\ rr_cv' = [rr_cv EXCEPT ![l] = {}]
    /\ IF l + 1 = NumLocks
       THEN /\ pc' = [pc EXCEPT ![t] = "idle"]
            /\ idx' = [idx EXCEPT ![t] = 0]
       ELSE /\ pc' = [pc EXCEPT ![t] = "exit"]
            /\ idx' = [idx EXCEPT ![t] = l + 1]
    /\ UNCHANGED <<rr_anon_rcount, rr_linked_rcount, rr_writer_wanted,
                   rr_track_all, tsd, anon, tag, enters>>

ReaderNext(t) ==
    \/ EnterRead(t) \/ Dispatch(t) \/ AwaitDone(t)
    \/ ReadWait(t) \/ ReadGet(t) \/ \E x \in Tags : ExitRead(t, x)

WriterNext(t) ==
    EnterWrite(t) \/ WriteWait(t) \/ WriteGet(t) \/ ExitWrite(t)

Next ==
    \/ \E t \in Threads : ReaderNext(t)
    \/ \E t \in Writers : WriterNext(t)

Spec == Init /\ [][Next]_vars

\* A runnable thread runs, a read hold is released after a bounded number of
\* further enters, and a writer releases.  Nobody has to enter.
Fairness ==
    /\ \A t \in Threads :
          /\ WF_vars(ReadWait(t) \/ ReadGet(t))
          /\ SF_vars(\E x \in Tags : ExitRead(t, x))
          /\ WF_vars(AwaitDone(t))
    /\ \A t \in Writers :
          /\ WF_vars(WriteWait(t) \/ WriteGet(t))
          /\ WF_vars(ExitWrite(t))

FairSpec == Spec /\ Fairness

-----------------------------------------------------------------------------
(* Properties.                                                             *)

Hold == [thread : Threads, tag : Tags, n : 1 .. MaxHolds]

\* Every variable has its type; the reference counts never go below zero.
TypeOK ==
    /\ rr_writer \in [Locks -> Threads \cup {NoThread}]
    /\ rr_anon_rcount \in [Locks -> Nat]
    /\ rr_linked_rcount \in [Locks -> Nat]
    /\ rr_writer_wanted \in [Locks -> {B_FALSE, B_TRUE}]
    /\ rr_track_all \in {B_FALSE, B_TRUE}
    /\ rr_cv \in [Locks -> SUBSET Threads]
    /\ tsd \in SUBSET Hold /\ anon \in SUBSET Hold
    /\ pc \in [Threads -> {"idle", "read", "prio", "await", "write",
                           "writing", "exit"}]
    /\ tag \in [Threads -> Tags]
    /\ enters \in [Threads -> 0 .. MaxHolds]
    /\ idx \in [Threads -> Locks]

\* A writer excludes the readers of every lock it has, and a writer that has
\* returned from rrm_enter_write excludes every reader and every writer.
WriterExcludes ==
    /\ \A l \in Locks : rr_writer[l] # NoThread =>
          \A h \in tsd \cup anon : TdLock[h.thread] # l
    /\ \A t \in Threads : pc[t] = "writing" =>
          /\ tsd \cup anon = {}
          /\ \A u \in Threads \ {t} : pc[u] \notin {"writing", "exit"}

\* the holds of S on lock l
On(S, l) == {h \in S : TdLock[h.thread] = l}

\* The two counts add up although a hold may be entered as anonymous and, with
\* the same tag, released as linked: each counts the holds of its kind.
CountsExact ==
    /\ tsd \cap anon = {}
    /\ \A l \in Locks : /\ rr_linked_rcount[l] = Cardinality(On(tsd, l))
                        /\ rr_anon_rcount[l] = Cardinality(On(anon, l))

\* No wakeup is lost: whoever sleeps still has a reason to, and a writer that
\* sleeps behind readers is announced, so that new readers queue behind it.
SleepersBlocked ==
    \A l \in Locks : \A t \in rr_cv[l] :
        \/ pc[t] \in {"read", "prio"} /\ TdLock[t] = l /\ ReadBlocked(t)
        \/ /\ pc[t] = "write" /\ idx[t] = l /\ WriteBlocked(l)
           /\ rr_writer[l] # NoThread \/ rr_writer_wanted[l] = B_TRUE

\* "allowing threads who have already obtained a read lock to re-enter ... even
\* if there are waiting writers": nobody who holds the lock, and no helper of
\* somebody who does, is ever put to sleep behind a writer.
ReentryNeverSleeps ==
    \A l \in Locks : \A t \in rr_cv[l] : Holds(t) = {} /\ pc[t] # "prio"

\* While anybody sleeps, somebody who is awake has a read hold or is inside
\* rrm_enter_write or rrm_exit: though a writer sleeps with the locks of the
\* array it already has, writers never wait for each other in a circle.
NoStall ==
    (\E t \in Threads : Asleep(t)) =>
        \E u \in Threads :
            /\ ~Asleep(u)
            /\ Holds(u) # {} \/ pc[u] \in {"write", "writing", "exit"}

\* rrw_held and rrm_held
HeldWriter(t) == rr_writer[0] = t
HeldReader(t) == rr_anon_rcount[TdLock[t]] # 0 \/ RrnFind(t)

\* "If the lock was created with track_all, rrw_held(RW_READER) will return
\* B_TRUE iff the current thread has the lock for reader"; otherwise it is at
\* least never B_FALSE for a thread that has it.
HeldReaderRight ==
    \A t \in Threads :
        /\ Holds(t) # {} => HeldReader(t)
        /\ rr_track_all = B_TRUE /\ HeldReader(t) => Holds(t) # {}

\* "Hence, we do not starve writers.": readers that keep coming back do not
\* keep the writers out; which of several writers gets the lock is left to
\* the order in which they wake up.
WritersNotStarved ==
    (\E t \in Writers : pc[t] = "write") ~> \E t \in Writers : pc[t] = "writing"

-----------------------------------------------------------------------------
(* The inductive invariant of RRWLockProofs.                               *)

\* n is fresh for the next hold, and starts again when t holds nothing.
FreshInv ==
    /\ IsFiniteSet(tsd) /\ IsFiniteSet(anon)
    /\ \A h \in tsd \cup anon : h.n <= enters[h.thread]
    /\ \A t \in Threads : /\ Holds(t) = {} => enters[t] = 0
                          /\ pc[t] = "read" => enters[t] < MaxHolds

\* The locks a writer has, by where it is in its loop.
Owns(t, l) ==
    \/ pc[t] = "write" /\ l < idx[t]
    \/ pc[t] = "writing"
    \/ pc[t] = "exit" /\ l >= idx[t]

OwnerInv ==
    /\ \A l \in Locks, t \in Threads : rr_writer[l] = t <=> Owns(t, l)
    /\ \A t \in Threads : pc[t] \in {"write", "writing", "exit"} =>
          t \in Writers /\ Holds(t) = {}
    /\ \A t \in Threads : pc[t] = "writing" => idx[t] = 0

ExclusionInv ==
    \A l \in Locks : rr_writer[l] # NoThread =>
        rr_anon_rcount[l] = 0 /\ rr_linked_rcount[l] = 0

TrackInv == rr_track_all = B_TRUE => anon = {}

\* A helper works only while its parent, which holds the lock, waits for it.
HelperInv ==
    /\ \A t \in Threads : pc[t] = "await" => Holds(t) # {}
    /\ \A t \in Threads : pc[t] = "prio" => t \in Helpers /\ Holds(t) = {}
    /\ \A h \in Helpers : pc[Parent[h]] # "await" =>
          pc[h] = "idle" /\ Holds(h) = {}

\* The writer that a reader gives way to is there.
WantedInv ==
    \A l \in Locks : rr_writer_wanted[l] = B_TRUE =>
        \E u \in Threads : pc[u] = "write" /\ idx[u] = l

IndInv ==
    /\ TypeOK /\ FreshInv /\ CountsExact /\ OwnerInv /\ ExclusionInv
    /\ TrackInv /\ HelperInv /\ SleepersBlocked /\ ReentryNeverSleeps
=============================================================================
