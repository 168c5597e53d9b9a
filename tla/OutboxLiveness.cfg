SPECIFICATION FairSpec
CONSTANTS
    e1 = e1  e2 = e2  w1 = w1  w2 = w2
    Events = {e1, e2}
    Workers = {w1}
    BatchSize = 2
    MaxAttempts = 2
    Lease = 1
    Backoff <- MCBackoff
    MaxReplays = 1
    Nobody = Nobody
    NoEvent = NoEvent
PROPERTIES
    EventSettles
