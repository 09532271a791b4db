---------------------------- MODULE MCKylinRcu -----------------------------
(***************************************************************************)
(* Instances of KylinRcu for TLC.  Students and managers are symmetric and *)
(* so are the addresses: no action tells two of them apart.                *)
(***************************************************************************)
EXTENDS KylinRcu, TLC

Symmetry ==
  Permutations(Students) \cup Permutations(Managers) \cup Permutations(Node)
=============================================================================
