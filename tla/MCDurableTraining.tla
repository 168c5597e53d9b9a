------------------------- MODULE MCDurableTraining -------------------------
(* Instances of DurableTraining for TLC.                                   *)
EXTENDS DurableTraining, TLC

CONSTANTS w1, w2

Symmetry == Permutations(Workers)
=============================================================================
