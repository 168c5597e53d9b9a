----------------------- MODULE MCAdaptiveConcurrency -----------------------
(* Instances of AdaptiveConcurrency for TLC.                               *)
EXTENDS AdaptiveConcurrency

CONSTANTS dgx1, dgx2, big1, big2, urgent

\* Agents of the orchestrator name a box and no tokens; chat names no box.
MCHome == [c \in Callers |->
    IF c \in {dgx1, dgx2} THEN "dgx_spark" ELSE NoBox]

MCTokens == [c \in Callers |-> IF c = big1 THEN 3 ELSE IF c \in {big2, urgent} THEN 2 ELSE 0]

MCSlots == [b \in Boxes |-> IF b = "jetson" THEN 2 ELSE 3]

\* Room, no room, and a queue; the middle of the range.
MCReadings == {[free |-> 90, waiting |-> 0, running |-> 1],
               [free |-> 30, waiting |-> 0, running |-> 1],
               [free |-> 60, waiting |-> 2, running |-> 1]}
=============================================================================
