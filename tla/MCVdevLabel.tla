---------------------------- MODULE MCVdevLabel ----------------------------
(* Instances of VdevLabel.                                                 *)
EXTENDS VdevLabel

CONSTANTS a, b, t, u

Mirror == [v \in Leaves |-> t]
TwoDisks == [v \in Leaves |-> IF v = a THEN t ELSE u]

Quiet == [top |-> Mirror, last |-> 6, werr |-> 0, crash |-> 0, missing |-> 0, noop |-> 0]

All == {\* Two top-level vdevs and two crashes.
        [Quiet EXCEPT !.top = TwoDisks, !.crash = 2, !.noop = 1],
        \* One side of a mirror missing after the first of two crashes.
        [Quiet EXCEPT !.crash = 2, !.missing = 1],
        \* Failed writes, up to suspending the pool, and a crash.
        [Quiet EXCEPT !.werr = 4, !.crash = 1, !.last = 5, !.noop = 1]}
=============================================================================
