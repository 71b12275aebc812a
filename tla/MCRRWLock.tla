----------------------------- MODULE MCRRWLock -----------------------------
(* Instances of RRWLock for TLC. *)
EXTENDS RRWLock

CONSTANTS t1, t2, h1

\* One plain rrwlock_t; h1 helps t1.
OneHelper == [h \in {h1} |-> t1]
SingleLock == [t \in Threads |-> 0]
=============================================================================
