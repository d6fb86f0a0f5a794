CONSTANTS
    Tasks = {t1, t2, t3}
    Names = {good, unknown}
    Registered = {good}
    Workers = {w1, w2}
    MaxRetries = 3
SPECIFICATION FairSpec
INVARIANTS EachTaskInOnePlace StatsAddUp CallsAreCounted
PROPERTIES EveryTaskSettles WorksAsQueue
CHECK_DEADLOCK FALSE
