CONSTANTS
    Threads = {t1, t2}
    Externals = {e}
    NoExternal = noExternal
    report = report
    reply = reply
    Keys = {report, reply}
    NoKey = noKey
    Similarity <- Alike80
    Priorities = {1, 2}
    Policies <- ManyPolicies
    DefaultPolicy <- Lenient
    ListLimit = 2
    MayCrash = TRUE
    MaxRequests = 3
    MaxTime = 2
SPECIFICATION Spec
SYMMETRY SwapThreads
INVARIANTS CountMatchesLinks LostOnlyIfCut
PROPERTIES MergesWhereItBelongs PriorityDropsOnlyIfStale SecondItemOnlyByRace QuotaExceededOnlyByRace
