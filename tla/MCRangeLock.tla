---------------------------- MODULE MCRangeLock ----------------------------
(* Instances of RangeLock.                                                 *)
EXTENDS RangeLock, TLC

Op(do, off, len) == [do |-> do, off |-> off, len |-> len]

Calls == {Op("read", 0, 4), Op("read", 1, 2), Op("write", 0, 2), Op("write", 1, 2),
          Op("append", 0, 1), Op("get", 1, 1), Op("free", 0, 2),
          Op("extend", 3, 1), Op("trunc", 1, 1)}

\* A new file, one of several blocks, and one whose block is larger than the
\* recordsize now is.
SomeFiles == {[size |-> 1, blksz |-> 1], [size |-> 3, blksz |-> 2], [size |-> 3, blksz |-> 3]}

Symmetry == Permutations(Threads)
=============================================================================
