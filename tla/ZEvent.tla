------------------------------- MODULE ZEvent -------------------------------
(***************************************************************************)
(* The event queue of module/zfs/fm.c and the threads that read it.        *)
(*                                                                         *)
(* Any thread posts an event (zfs_zevent_post); each reader has a cursor   *)
(* into one shared, bounded list (zfs_zevent_t) and runs the loop          *)
(* "zfs_zevent_next, and zfs_zevent_wait when there is none" of            *)
(* zrepl_monitor_errors and of zfs_ioc_events_next.  An event is modelled  *)
(* by its EID.  zevent_list[1] is the head (newest), its last element the  *)
(* tail (oldest).                                                          *)
(*                                                                         *)
(* Every function runs under zevent_lock from end to end, so it is one     *)
(* step, except where something happens without the lock: the EID is taken *)
(* before it, and ratelimit_dropped is incremented by others between the   *)
(* read and the reset in zfs_zevent_next.                                  *)
(***************************************************************************)
EXTENDS Naturals, Sequences, FiniteSets

CONSTANTS Posters,     \* threads that post events
          Readers,     \* threads that read events
          Seekers,     \* the readers that also call zfs_zevent_seek
          NoReader,    \* owner of the free zevent_lock
          LenMax,      \* zfs_zevent_len_max
          MaxEid,      \* bound: events ever posted
          MaxLimited,  \* bound: events ever dropped by rate limiting
          MaxClears,   \* bound: calls of zfs_ioc_events_clear
          MaxSeeks     \* bound: calls of zfs_zevent_seek

ASSUME LenMaxAssumption == LenMax \in Nat \ {0}
ASSUME ZEventBounds == /\ MaxEid \in Nat /\ MaxLimited \in Nat
                       /\ MaxClears \in Nat /\ MaxSeeks \in Nat
ASSUME ReadersAssumption == Seekers \subseteq Readers /\ NoReader \notin Readers

VARIABLES
    zevent_list, zevent_len_cur, zevent_eid, zevent_waiters,
    zevent_shutdown,     \* zevent_flags & ZEVENT_SHUTDOWN
    ratelimit_dropped,
    zevent_lock,         \* the reader inside zfs_zevent_next, or NoReader
    zevent_cv,           \* readers asleep
    ze_zevent,           \* [reader] EID under the cursor, 0 for NULL
    ze_dropped,          \* [reader]
    post_eid,            \* [poster] EID taken and not yet inserted, or 0
    reader_pc,           \* [reader] where it is in its loop
    fini_pc,             \* fm_fini
    limited, clears, seeks,   \* counters for the bounds
    \* history
    posted,              \* EIDs in the order they were inserted
    delivered            \* [reader] EIDs returned by zfs_zevent_next

queue   == <<zevent_list, zevent_len_cur, posted>>
cursors == <<ze_zevent, ze_dropped>>
limits  == <<ratelimit_dropped, limited>>
sleep   == <<zevent_waiters, zevent_cv>>
bounds  == <<clears, seeks>>

vars == <<queue, zevent_eid, sleep, zevent_shutdown, limits, zevent_lock,
          cursors, post_eid, reader_pc, fini_pc, bounds, delivered>>

-----------------------------------------------------------------------------

Elements(s) == {s[i] : i \in 1 .. Len(s)}
Index(s, e) == CHOOSE i \in 1 .. Len(s) : s[i] = e

\* The events that were on the list and are not any more.
Drained == Elements(posted) \ Elements(zevent_list)

Unlocked == zevent_lock = NoReader
Running  == fini_pc = "no"

\* fm_init
Init ==
    /\ zevent_list = <<>> /\ zevent_len_cur = 0 /\ zevent_eid = 0
    /\ zevent_waiters = 0 /\ zevent_shutdown = FALSE
    /\ ratelimit_dropped = 0 /\ zevent_lock = NoReader /\ zevent_cv = {}
    /\ ze_zevent = [r \in Readers |-> 0]
    /\ ze_dropped = [r \in Readers |-> 0]
    /\ post_eid = [p \in Posters |-> 0]
    /\ reader_pc = [r \in Readers |-> "next"]
    /\ fini_pc = "no" /\ clears = 0 /\ seeks = 0
    /\ posted = <<>> /\ limited = 0
    /\ delivered = [r \in Readers |-> <<>>]

\* zfs_zevent_drain for every event of E: the cursors on them become NULL
DropCursors(E) ==
    /\ ze_zevent' = [r \in Readers |->
                        IF ze_zevent[r] \in E THEN 0 ELSE ze_zevent[r]]
    /\ ze_dropped' = [r \in Readers |->
                        ze_dropped[r] + IF ze_zevent[r] \in E THEN 1 ELSE 0]

\* zfs_zevent_post up to the lock; atomic_inc_64_nv takes the EID
PostTakeEid(p) ==
    /\ Running /\ post_eid[p] = 0 /\ zevent_eid < MaxEid
    /\ zevent_eid' = zevent_eid + 1
    /\ post_eid' = [post_eid EXCEPT ![p] = zevent_eid + 1]
    /\ UNCHANGED <<queue, sleep, zevent_shutdown, limits, zevent_lock,
                   cursors, reader_pc, fini_pc, bounds, delivered>>

\* ... the nvlist cannot be sized or is too large: nothing is posted
PostFail(p) ==
    /\ post_eid[p] # 0
    /\ post_eid' = [post_eid EXCEPT ![p] = 0]
    /\ UNCHANGED <<queue, zevent_eid, sleep, zevent_shutdown, limits,
                   zevent_lock, cursors, reader_pc, fini_pc, bounds, delivered>>

\* ... zfs_zevent_insert at the head, the tail drained when the list is full,
\* and cv_broadcast
PostInsert(p) ==
    /\ post_eid[p] # 0 /\ Unlocked
    /\ LET inserted == <<post_eid[p]>> \o zevent_list
           tail     == inserted[Len(inserted)]
       IN  IF zevent_len_cur >= LenMax
           THEN /\ zevent_list' = SubSeq(inserted, 1, Len(inserted) - 1)
                /\ zevent_len_cur' = zevent_len_cur
                /\ DropCursors({tail})
           ELSE /\ zevent_list' = inserted
                /\ zevent_len_cur' = zevent_len_cur + 1
                /\ UNCHANGED cursors
    /\ posted' = Append(posted, post_eid[p])
    /\ zevent_cv' = {}
    /\ post_eid' = [post_eid EXCEPT ![p] = 0]
    /\ UNCHANGED <<zevent_eid, zevent_waiters, zevent_shutdown, limits,
                   zevent_lock, reader_pc, fini_pc, bounds, delivered>>

\* fm_erpt_dropped_increment: atomic, without zevent_lock
FmErptDroppedIncrement ==
    /\ Running /\ limited < MaxLimited
    /\ ratelimit_dropped' = ratelimit_dropped + 1
    /\ limited' = limited + 1
    /\ UNCHANGED <<queue, zevent_eid, sleep, zevent_shutdown,
                   zevent_lock, cursors, post_eid, reader_pc, fini_pc, bounds,
                   delivered>>

\* Mutant: a NULL cursor starts at the head.
NextEventFromHead(r) ==
    IF ze_zevent[r] = 0
    THEN IF zevent_list = <<>> THEN 0 ELSE zevent_list[1]
    ELSE LET i == Index(zevent_list, ze_zevent[r])
         IN  IF i = 1 THEN 0 ELSE zevent_list[i - 1]

\* The event after reader r's cursor, 0 when there is none.
NextEvent(r) ==
    IF ze_zevent[r] = 0
    THEN IF zevent_list = <<>> THEN 0 ELSE zevent_list[Len(zevent_list)]
    ELSE LET i == Index(zevent_list, ze_zevent[r])
         IN  IF i = 1 THEN 0 ELSE zevent_list[i - 1]

\* zfs_zevent_next returns ENOENT; the reader goes on to zfs_zevent_wait
ZeventNextNone(r) ==
    /\ reader_pc[r] = "next" /\ Unlocked
    /\ NextEvent(r) = 0
    /\ reader_pc' = [reader_pc EXCEPT ![r] = "wait"]
    /\ UNCHANGED <<queue, zevent_eid, sleep, zevent_shutdown, limits,
                   zevent_lock, cursors, post_eid, fini_pc, bounds, delivered>>

\* zfs_zevent_next moves the cursor and reads the two drop counts ...
ZeventNext(r) ==
    /\ reader_pc[r] = "next" /\ Unlocked
    /\ NextEvent(r) # 0
    /\ ze_zevent' = [ze_zevent EXCEPT ![r] = NextEvent(r)]
    /\ delivered' = [delivered EXCEPT ![r] = Append(@, NextEvent(r))]
    /\ zevent_lock' = r
    /\ reader_pc' = [reader_pc EXCEPT ![r] = "reset"]
    /\ UNCHANGED <<queue, zevent_eid, sleep, zevent_shutdown, ze_dropped,
                   ratelimit_dropped, limited, post_eid, fini_pc, bounds>>

\* ... and resets them
ZeventNextReset(r) ==
    /\ reader_pc[r] = "reset"
    /\ ratelimit_dropped' = 0
    /\ ze_dropped' = [ze_dropped EXCEPT ![r] = 0]
    /\ zevent_lock' = NoReader
    /\ reader_pc' = [reader_pc EXCEPT ![r] = "next"]
    /\ UNCHANGED <<queue, zevent_eid, sleep, zevent_shutdown, limited,
                   ze_zevent, post_eid, fini_pc, bounds,
                   delivered>>

\* zfs_zevent_wait up to cv_wait_sig; ESHUTDOWN ends the loop
ZeventWait(r) ==
    /\ reader_pc[r] = "wait" /\ Unlocked
    /\ IF zevent_shutdown
       THEN /\ reader_pc' = [reader_pc EXCEPT ![r] = "exit"]
            /\ UNCHANGED sleep
       ELSE /\ reader_pc' = [reader_pc EXCEPT ![r] = "asleep"]
            /\ zevent_waiters' = zevent_waiters + 1
            /\ zevent_cv' = zevent_cv \cup {r}
    /\ UNCHANGED <<queue, zevent_eid, zevent_shutdown, limits, zevent_lock,
                   cursors, post_eid, fini_pc, bounds, delivered>>

\* Mutant: woken, it waits again.
ZeventWaitAgain(r) ==
    /\ reader_pc[r] = "asleep" /\ r \notin zevent_cv /\ Unlocked
    /\ zevent_waiters' = zevent_waiters - 1
    /\ reader_pc' = [reader_pc EXCEPT ![r] = "wait"]
    /\ UNCHANGED <<queue, zevent_eid, zevent_cv, zevent_shutdown, limits,
                   zevent_lock, cursors, post_eid, fini_pc, bounds, delivered>>

\* ... and after it
ZeventWaitReturn(r) ==
    /\ reader_pc[r] = "asleep" /\ r \notin zevent_cv /\ Unlocked
    /\ zevent_waiters' = zevent_waiters - 1
    /\ reader_pc' = [reader_pc EXCEPT ![r] = "next"]
    /\ UNCHANGED <<queue, zevent_eid, zevent_cv, zevent_shutdown, limits,
                   zevent_lock, cursors, post_eid, fini_pc, bounds, delivered>>

\* zfs_zevent_seek to ZEVENT_SEEK_START (0), ZEVENT_SEEK_END (the head) or
\* an EID still on the list (it fails and changes nothing for any other)
ZeventSeek(r) ==
    /\ reader_pc[r] = "next" /\ Unlocked /\ seeks < MaxSeeks
    /\ \E e \in {0} \cup Elements(zevent_list) :
          ze_zevent' = [ze_zevent EXCEPT ![r] = e]
    /\ seeks' = seeks + 1
    /\ UNCHANGED <<queue, zevent_eid, sleep, zevent_shutdown, limits,
                   zevent_lock, ze_dropped, post_eid, reader_pc, fini_pc,
                   clears, delivered>>

\* zfs_zevent_drain_all
DrainAll ==
    /\ zevent_list' = <<>>
    /\ zevent_len_cur' = 0
    /\ DropCursors(Elements(zevent_list))
    /\ posted' = posted

\* zfs_ioc_events_clear
ZfsIocEventsClear ==
    /\ Running /\ Unlocked /\ clears < MaxClears
    /\ DrainAll
    /\ clears' = clears + 1
    /\ UNCHANGED <<zevent_eid, sleep, zevent_shutdown, limits, zevent_lock,
                   post_eid, reader_pc, fini_pc, seeks, delivered>>

\* fm_fini is called when nobody posts any more: drain ...
FmFini ==
    /\ Running /\ Unlocked /\ \A p \in Posters : post_eid[p] = 0
    /\ DrainAll
    /\ fini_pc' = "drained"
    /\ UNCHANGED <<zevent_eid, sleep, zevent_shutdown, limits, zevent_lock,
                   post_eid, reader_pc, bounds, delivered>>

\* Mutant: no cv_broadcast.
FmFiniShutdownSilent ==
    /\ fini_pc = "drained" /\ Unlocked
    /\ zevent_cv' = zevent_cv
    /\ zevent_shutdown' = TRUE
    /\ fini_pc' = "shutdown"
    /\ UNCHANGED <<queue, zevent_eid, zevent_waiters, limits, zevent_lock,
                   cursors, post_eid, reader_pc, bounds, delivered>>

\* ... wake the readers and set ZEVENT_SHUTDOWN ...
FmFiniShutdown ==
    /\ fini_pc = "drained" /\ Unlocked
    /\ zevent_cv' = {}
    /\ zevent_shutdown' = TRUE
    /\ fini_pc' = "shutdown"
    /\ UNCHANGED <<queue, zevent_eid, zevent_waiters, limits, zevent_lock,
                   cursors, post_eid, reader_pc, bounds, delivered>>

\* Mutant: does not wait for zevent_waiters.
FmFiniDestroyEarly ==
    /\ fini_pc = "shutdown" /\ Unlocked
    /\ fini_pc' = "destroyed"
    /\ UNCHANGED <<queue, zevent_eid, sleep, zevent_shutdown, limits,
                   zevent_lock, cursors, post_eid, reader_pc, bounds, delivered>>

\* ... and destroy the lock and the list once zevent_waiters is zero
FmFiniDestroy ==
    /\ fini_pc = "shutdown" /\ Unlocked /\ zevent_waiters = 0
    /\ fini_pc' = "destroyed"
    /\ UNCHANGED <<queue, zevent_eid, sleep, zevent_shutdown, limits,
                   zevent_lock, cursors, post_eid, reader_pc, bounds, delivered>>

ReaderNext(r) ==
    \/ ZeventNextNone(r) \/ ZeventNext(r) \/ ZeventNextReset(r)
    \/ ZeventWait(r) \/ ZeventWaitReturn(r)

Next ==
    \/ \E p \in Posters : PostTakeEid(p) \/ PostFail(p) \/ PostInsert(p)
    \/ FmErptDroppedIncrement
    \/ \E r \in Readers : ReaderNext(r)
    \/ \E r \in Seekers : ZeventSeek(r)
    \/ ZfsIocEventsClear
    \/ FmFini \/ FmFiniShutdown \/ FmFiniDestroy

Spec == Init /\ [][Next]_vars

\* Threads in the middle of a call run on; nobody has to post or to unload.
FairSpec ==
    /\ Spec
    /\ \A r \in Readers : WF_vars(ReaderNext(r))
    /\ \A p \in Posters : WF_vars(PostInsert(p))
    /\ WF_vars(FmFiniShutdown) /\ SF_vars(FmFiniDestroy)

-----------------------------------------------------------------------------
(* Properties.                                                             *)

\* A reader that does not seek gets every event at most once, in the order of
\* the list, and misses one only if it was drained -- also when the event
\* under its cursor is drained and the cursor starts again at the tail.
Position(e) == Index(posted, e)

DeliveryInOrder ==
    \A r \in Readers \ Seekers :
        LET d == delivered[r] IN
        /\ \A i, j \in 1 .. Len(d) : i < j => Position(d[i]) < Position(d[j])
        /\ d # <<>> =>
             \A e \in Elements(zevent_list) :
                 Position(e) < Position(d[Len(d)]) => e \in Elements(d)

\* fm_fini destroys zevent_lock and zevent_cv only when no reader is inside
\* zfs_zevent_wait.
FiniAfterWaiters ==
    fini_pc = "destroyed" => \A r \in Readers : reader_pc[r] # "asleep"

\* fm_fini's loop on zevent_waiters ends.
FiniTerminates == fini_pc = "drained" ~> fini_pc = "destroyed"

\* A reader that is running, or that a post has woken, gets every event on the
\* list before it sleeps again, unless the event is drained first.  This is as
\* much as zfs_zevent_next and zfs_zevent_wait promise together: a reader that
\* found nothing and has not yet gone to sleep may miss the wake-up.
AwakeReadersCatchUp ==
    \A e \in 1 .. MaxEid, r \in Readers \ Seekers :
        e \in Elements(zevent_list) /\ reader_pc[r] # "wait" /\ r \notin zevent_cv ~>
            \/ e \in Elements(delivered[r])
            \/ e \in Drained

\* "we wait for new zfs events being generated and print them": an event on
\* the list is delivered to each reader, unless it is drained or the reader
\* stops.
EventsReachReaders ==
    \A e \in 1 .. MaxEid, r \in Readers :
        e \in Elements(zevent_list) ~>
            \/ e \in Elements(delivered[r])
            \/ e \in Drained
=============================================================================
