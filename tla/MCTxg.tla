------------------------------- MODULE MCTxg -------------------------------
(* Txg for TLC: transaction threads and waiters are interchangeable.       *)
EXTENDS Txg, TLC

Symmetry == Permutations(Txs) \cup Permutations(Waiters)
=============================================================================
