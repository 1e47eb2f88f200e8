----------------------------- MODULE MCCuration -----------------------------
(* Instances of Curation for TLC. *)
EXTENDS Curation, TLC

UnitSymmetry == Permutations(Unit)
=============================================================================
