--------------------------- MODULE MCProcessSync ---------------------------
(***************************************************************************)
(* An instance of ProcessSync for TLC.  Neither runs nor ids are told      *)
(* apart, and nothing temporal is checked.                                 *)
(***************************************************************************)
EXTENDS ProcessSync, TLC

Symmetry == Permutations(Run) \cup Permutations(Segment)
=============================================================================
