------------------------------ MODULE MCModel ------------------------------
(***************************************************************************)
(* Instances of Model for TLC.  Goroutines and sessions are model values;  *)
(* the symmetry sets are used in the safety run only.                      *)
(***************************************************************************)
EXTENDS Model, TLC

Symmetry ==
  Permutations(Callers) \cup Permutations(Closers) \cup Permutations(Sessions)
=============================================================================
