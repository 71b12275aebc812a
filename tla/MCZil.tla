------------------------------- MODULE MCZil -------------------------------
(* Instances of Zil.                                                       *)
EXTENDS Zil

CONSTANTS t1, t2, t3, a, b

Write(o) == [do |-> "write", obj |-> o, sync |-> FALSE]
SyncWrite(o) == [do |-> "write", obj |-> o, sync |-> TRUE]
Rename(o) == [do |-> "rename", obj |-> o, sync |-> TRUE]
Fsync(o) == [do |-> "commit", obj |-> o, sync |-> TRUE]
Do(what) == [do |-> what, obj |-> a, sync |-> TRUE]

Idle == [t \in Threads |-> <<>>]
NoFaults == [close |-> 0, noalloc |-> 0, eio |-> 0, werr |-> 0, crash |-> 0]

\* O_SYNC writers and one that calls fsync.
CommitScript == [Idle EXCEPT
    ![t1] = <<SyncWrite(a), Fsync(a), SyncWrite(a), Fsync(a)>>,
    ![t2] = <<Write(b), Fsync(b)>>]
CommitFaults == [NoFaults EXCEPT !.close = 1, !.noalloc = 1, !.eio = 1]

\* One thread, two crashes.
CrashScript == [Idle EXCEPT
    ![t1] = <<SyncWrite(a), Fsync(a), SyncWrite(a), SyncWrite(b), Fsync(a), SyncWrite(b), Fsync(a)>>]
CrashFaults == [NoFaults EXCEPT !.close = 1, !.crash = 2]

\* A log that is suspended and resumed while it is used.
SuspendScript == [Idle EXCEPT
    ![t1] = <<SyncWrite(a), Fsync(a), SyncWrite(a), Fsync(a)>>,
    ![t2] = <<Do("suspend"), Do("resume")>>,
    ![t3] = <<Do("offline")>>]
SuspendFaults == [NoFaults EXCEPT !.close = 1, !.noalloc = 1]

\* Closed and opened again.
CloseScript == [Idle EXCEPT
    ![t1] = <<SyncWrite(a), Write(b), Fsync(a), Do("close"), SyncWrite(a), Fsync(a)>>,
    ![t2] = <<Rename(b), Fsync(b)>>]
CloseFaults == [NoFaults EXCEPT !.close = 1]

\* Closed, by the last user, while the log is taken offline.
OfflineScript == [Idle EXCEPT
    ![t1] = <<SyncWrite(a), Fsync(a), SyncWrite(a), Fsync(a), Do("close")>>,
    ![t2] = <<Do("offline")>>]

\* Three committers that meet.
LiveScript == [t \in Threads |->
    IF t = t1 THEN <<SyncWrite(a), Fsync(a), SyncWrite(a), Fsync(a)>> ELSE <<Fsync(a)>>]

WerrScript == [Idle EXCEPT
    ![t1] = <<SyncWrite(a), Fsync(a), SyncWrite(a), Fsync(a)>>]
WerrFaults == [NoFaults EXCEPT !.werr = 1]

Safe == {[script |-> CommitScript, faults |-> CommitFaults],
         [script |-> CrashScript, faults |-> CrashFaults],
         [script |-> SuspendScript, faults |-> SuspendFaults],
         [script |-> CloseScript, faults |-> CloseFaults],
         [script |-> OfflineScript, faults |-> CloseFaults]}
Live == {[script |-> LiveScript, faults |-> WerrFaults]}
Werr == {[script |-> WerrScript, faults |-> WerrFaults]}
=============================================================================
