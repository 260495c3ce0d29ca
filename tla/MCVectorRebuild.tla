-------------------------- MODULE MCVectorRebuild --------------------------
(***************************************************************************)
(* Instances of VectorRebuild for TLC.                                     *)
(***************************************************************************)
EXTENDS VectorRebuild, TLC

Symmetry == Permutations(Rows) \cup Permutations(Texts) \cup Permutations(Jobs)

=============================================================================
