CONSTANTS
    Items = {a, b}
    Threads = {t1}
    Keys = {k}
    NoKey = noKey
    Stated = stated
    MaxTransitions = 3
SPECIFICATION Spec
INVARIANTS MergeRetryIsReplay
PROPERTIES StrictMachineSpec
