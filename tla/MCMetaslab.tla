---------------------------- MODULE MCMetaslab ----------------------------
(* Instances of Metaslab.                                                  *)
EXTENDS Metaslab, TLC

Symmetry == Permutations(Segs)
=============================================================================
