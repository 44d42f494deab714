----------------------------- MODULE MCMapMerge -----------------------------
(* Instances of MapMerge for TLC. *)
EXTENDS MapMerge, TLC

\* Nothing tells two jobs that may be split apart.
JobSymmetry == Permutations(Job)
=============================================================================
