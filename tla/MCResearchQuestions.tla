------------------------ MODULE MCResearchQuestions ------------------------
(* An instance of ResearchQuestions for TLC.                               *)
EXTENDS ResearchQuestions

CONSTANTS q1, i1, r1, r2
=============================================================================
