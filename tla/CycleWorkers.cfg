SPECIFICATION Spec
CONSTANTS
    c1 = c1  c2 = c2  c3 = c3  w1 = w1  w2 = w2
    Workers = {w1, w2}
    Cycles = {c1, c2}
    MaxCommands = 2
    Kinds = {"START", "STOP", "FAST_STOP"}
    Triggers = TRUE
    MaxCrashes = 1
    MaxFaults = 1
    NoCycle = NoCycle
    Trigger = Trigger
SYMMETRY Symmetry
INVARIANTS
    TypeOK
    CommandTruth
CHECK_DEADLOCK FALSE
