CONSTANTS
    Items = {a, b}
    Threads = {t1, t2}
    Keys = {k}
    NoKey = noKey
    Stated = stated
    MaxTransitions = 3
SPECIFICATION Spec
SYMMETRY ItemsAndThreads
INVARIANTS TypeOK StatusIsLastRow StaleOnlyIfOvertaken PromotedAfterApproval
