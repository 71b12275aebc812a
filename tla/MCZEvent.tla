------------------------------ MODULE MCZEvent ------------------------------
(* Instances of ZEvent for TLC. *)
EXTENDS ZEvent, TLC

\* Posters are alike; so are the readers with, and those without, seeks.
Symmetry == Permutations(Posters) \cup Permutations(Readers \ Seekers)
=============================================================================
