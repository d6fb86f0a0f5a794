CONSTANTS
    Recordings = {r1}
    Workers = {w1, w2}
    Clients = {c1}
    MaxAttempts = 2
    MaxRetries = 1
    RecoverLimit = 1
    MaxRevision = 2
    MaxCrashes = 1
    MaxFaults = 2
SPECIFICATION FairSpec
INVARIANTS AttemptsBounded OneJobPerRecording NoJobStranded
 CurrentIsLatest StaleOnlyIfCut
PROPERTIES JobsEnd
CHECK_DEADLOCK FALSE
