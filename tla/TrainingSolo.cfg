SPECIFICATION FairSpec
CONSTANTS
    w1 = w1  w2 = w2
    Workers = {w1}
    JobCount = 2
    Cancellable = {1}
    MaxCrashes = 1
    MaxExpiries = 1
    MaxFaults = 2
    Replacements = TRUE
    Nobody = Nobody
    Gone = Gone
    NoModel = NoModel
    Champion = Champion
INVARIANTS
    SoloCapacity
PROPERTIES
    ComparedWithReplaced
    JobSettles
