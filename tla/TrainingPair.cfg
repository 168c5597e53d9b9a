SPECIFICATION Spec
CONSTANTS
    w1 = w1  w2 = w2
    Workers = {w1, w2}
    JobCount = 2
    Cancellable = {1}
    MaxCrashes = 1
    MaxExpiries = 1
    MaxFaults = 0
    Replacements = FALSE
    Nobody = Nobody
    Gone = Gone
    NoModel = NoModel
    Champion = Champion
SYMMETRY Symmetry
INVARIANTS
    TypeOK
    ExclusiveExecution
PROPERTIES
    OutcomeIsFinal
