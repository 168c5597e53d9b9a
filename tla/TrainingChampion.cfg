SPECIFICATION Spec
CONSTANTS
    w1 = w1  w2 = w2
    Workers = {w1}
    JobCount = 1
    Cancellable = {}
    MaxCrashes = 0
    MaxExpiries = 0
    MaxFaults = 1
    Replacements = FALSE
    Nobody = Nobody
    Gone = Gone
    NoModel = NoModel
    Champion = Champion
PROPERTIES
    ReplacementHasEvidence
