SPECIFICATION FairSpec
CONSTANTS
    c1 = c1  c2 = c2  c3 = c3  w1 = w1  w2 = w2
    Workers = {w1}
    Cycles = {c1, c2, c3}
    MaxCommands = 2
    Kinds = {"START", "STOP", "FORCE_RESET"}
    Triggers = TRUE
    MaxCrashes = 1
    MaxFaults = 1
    NoCycle = NoCycle
    Trigger = Trigger
INVARIANTS
    AtMostOneLive
    StatusMatchesCycle
    FreshCycleNotKilled
PROPERTIES
    OutcomeKept
    CommandSettles
    StoppingEnds
CHECK_DEADLOCK FALSE
