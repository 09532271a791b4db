------------------------- MODULE MCProducerConsumer -------------------------
(***************************************************************************)
(* Instances of ProducerConsumer for TLC.  Processes of one program are    *)
(* symmetric; names are too, except for the empty one.                     *)
(***************************************************************************)
EXTENDS ProducerConsumer, TLC

Symmetry == Permutations(Producers) \cup Permutations(Consumers)
=============================================================================
