------------------------------ MODULE MCReclaim ------------------------------
(***************************************************************************)
(* Reclaim on a small instance.  Frame names are interchangeable, and so   *)
(* are reads; every swap uses up a name, so no other bound is needed.      *)
(***************************************************************************)
EXTENDS Reclaim, TLC

Symmetry == Permutations(Names) \cup Permutations(Readers)
=============================================================================
