CONSTANTS
    Recordings = {r1}
    Workers = {w1}
    Clients = {}
    MaxAttempts = 2
    MaxRetries = 1
    RecoverLimit = 2
    MaxRevision = 2
    MaxCrashes = 1
    MaxFaults = 2
SPECIFICATION Spec
INVARIANTS OneRevisionServed
CHECK_DEADLOCK FALSE
