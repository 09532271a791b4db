-------------------------- MODULE MCKylinRcuCrash --------------------------
(***************************************************************************)
(* An instance of KylinRcuCrash for TLC, symmetric like those of KylinRcu. *)
(***************************************************************************)
EXTENDS KylinRcuCrash, TLC

Symmetry ==
  Permutations(Students) \cup Permutations(Managers) \cup Permutations(Node)
=============================================================================
