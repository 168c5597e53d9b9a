------------------------------ MODULE MCOutbox ------------------------------
(* Instances of Outbox for TLC.                                            *)
EXTENDS Outbox, TLC

CONSTANTS e1, e2, w1, w2

\* One tick after the first failure, two after the second.
MCBackoff == [a \in 1 .. MaxAttempts |-> a]

WorkerSymmetry == Permutations(Workers)
Symmetry == Permutations(Events) \cup Permutations(Workers)
=============================================================================
