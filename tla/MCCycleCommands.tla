--------------------------- MODULE MCCycleCommands ---------------------------
(* Instances of CycleCommands for TLC.                                     *)
EXTENDS CycleCommands, TLC

CONSTANTS c1, c2, c3, w1, w2

CycleSymmetry == Permutations(Cycles)
Symmetry == Permutations(Cycles) \cup Permutations(Workers)
=============================================================================
